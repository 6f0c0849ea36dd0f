------------------------- MODULE TaskSchedulerProofs -------------------------
(***************************************************************************)
(* For any number of tasks, any priorities and any range of the tick       *)
(* counter: type correctness, the integrity of the task queues and the     *)
(* uniqueness of the running task; the order of the queues, and that no    *)
(* task of them is overtaken; that mrb_tasks_run returns when every task   *)
(* has ended; that sleep finds a task; that no joiner and no sleeper is    *)
(* forgotten.  Five inductive invariants, each proved on top of the first: *)
(* SchedulerInv, SortedQueues with NoPass, ExitInv, JoinInv, ArmedInv.     *)
(***************************************************************************)
EXTENDS TaskScheduler, SequenceTheorems, WellFoundedInduction, TLAPS

----------------------------------------------------------------------------
(* Sequences without duplicates.                                           *)

Distinct(q) == \A i, j \in 1..Len(q) : q[i] = q[j] => i = j

(* A function on 1..n is a sequence of length n.                           *)
LEMMA FunctionIsSeq ==
    ASSUME NEW S, NEW n \in Nat, NEW f \in [1..n -> S]
    PROVE  f \in Seq(S) /\ Len(f) = n
  BY SeqDef, LenProperties

(* Deleting the i-th TCB keeps the others, once each.                      *)
LEMMA DeletedAtFacts ==
    ASSUME NEW S, NEW q \in Seq(S), Distinct(q), NEW i \in 1..Len(q)
    PROVE  /\ DeletedAt(q, i) \in Seq(S)
           /\ Distinct(DeletedAt(q, i))
           /\ Elems(DeletedAt(q, i)) = Elems(q) \ {q[i]}
  <1> DEFINE n == Len(q)
             d == DeletedAt(q, i)
  <1>1. n \in Nat \ {0} /\ q \in [1..n -> S]
    BY LenProperties
  <1>2. d \in [1..(n - 1) -> S]
    BY <1>1 DEF DeletedAt
  <1>3. d \in Seq(S) /\ Len(d) = n - 1
    <2>1. n - 1 \in Nat
      BY <1>1
    <2> HIDE DEF d, n
    <2> QED BY <1>2, <2>1, FunctionIsSeq
  <1>4. \A j \in 1..(n - 1) : d[j] = IF j < i THEN q[j] ELSE q[j + 1]
    BY DEF DeletedAt
  <1>5. Distinct(d)
    <2> HIDE DEF d, n
    <2> SUFFICES ASSUME NEW j \in 1..(n - 1), NEW k \in 1..(n - 1), d[j] = d[k]
                 PROVE  j = k
      BY <1>3 DEF Distinct
    <2>1. \A a, b \in 1..n : q[a] = q[b] => a = b
      BY DEF Distinct, n
    <2> DEFINE Moved(m) == IF m < i THEN m ELSE m + 1
    <2>2. /\ Moved(j) \in 1..n /\ d[j] = q[Moved(j)]
          /\ Moved(k) \in 1..n /\ d[k] = q[Moved(k)]
      BY <1>1, <1>4
    <2>3. Moved(j) = Moved(k)
      BY <2>1, <2>2
    <2> QED BY <1>1, <2>3
  <1>6. ASSUME NEW x \in Elems(d) PROVE x \in Elems(q) \ {q[i]}
    <2>1. PICK j \in 1..(n - 1) : x = d[j]
      BY <1>3, <1>6 DEF Elems
    <2>2. \E k \in 1..n : k # i /\ x = q[k]
      BY <1>1, <1>4, <2>1
    <2> QED BY <1>1, <2>2 DEF Elems, Distinct
  <1>7. ASSUME NEW x \in Elems(q) \ {q[i]} PROVE x \in Elems(d)
    <2>1. PICK k \in 1..n : x = q[k] /\ k # i
      BY <1>7 DEF Elems
    <2>2. CASE k < i
      <3>1. k \in 1..(n - 1) /\ d[k] = x
        BY <1>1, <1>4, <2>1, <2>2
      <3> QED BY <1>3, <3>1 DEF Elems
    <2>3. CASE k > i
      <3>1. k - 1 \in 1..(n - 1) /\ d[k - 1] = x
        BY <1>1, <1>4, <2>1, <2>3
      <3> QED BY <1>3, <3>1 DEF Elems
    <2> QED BY <1>1, <2>1, <2>2, <2>3
  <1> QED BY <1>3, <1>5, <1>6, <1>7

(* q_delete_task finds a linked TCB and unlinks it, and only it.           *)
LEMMA WithoutFacts ==
    ASSUME NEW S, NEW q \in Seq(S), Distinct(q), NEW t \in Elems(q)
    PROVE  /\ Without(q, t) \in Seq(S)
           /\ Distinct(Without(q, t))
           /\ Elems(Without(q, t)) = Elems(q) \ {t}
  <1>1. \E i \in 1..Len(q) : q[i] = t
    BY DEF Elems
  <1>2. IndexIn(q, t) \in 1..Len(q) /\ q[IndexIn(q, t)] = t
    BY <1>1 DEF IndexIn
  <1> QED BY <1>2, DeletedAtFacts DEF Without

(* Inserting a TCB that is not linked adds it, once.                       *)
LEMMA InsertedAtFacts ==
    ASSUME NEW S, NEW q \in Seq(S), Distinct(q),
           NEW i \in 1..(Len(q) + 1), NEW t \in S, t \notin Elems(q)
    PROVE  /\ InsertedAt(q, i, t) \in Seq(S)
           /\ Distinct(InsertedAt(q, i, t))
           /\ Elems(InsertedAt(q, i, t)) = Elems(q) \cup {t}
  <1> DEFINE n == Len(q)
             d == InsertedAt(q, i, t)
  <1>1. n \in Nat /\ q \in [1..n -> S]
    BY LenProperties
  <1>2. \A j \in 1..n : q[j] # t
    BY DEF Elems
  <1>3. d \in [1..(n + 1) -> S]
    BY <1>1 DEF InsertedAt
  <1>4. d \in Seq(S) /\ Len(d) = n + 1
    BY <1>1, <1>3, FunctionIsSeq
  <1>5. \A j \in 1..(n + 1) :
           d[j] = IF j < i THEN q[j] ELSE IF j = i THEN t ELSE q[j - 1]
    BY DEF InsertedAt
  <1>6. Distinct(d)
    <2> HIDE DEF d, n
    <2> SUFFICES ASSUME NEW j \in 1..(n + 1), NEW k \in 1..(n + 1), d[j] = d[k]
                 PROVE  j = k
      BY <1>4 DEF Distinct
    <2>1. \A a, b \in 1..n : q[a] = q[b] => a = b
      BY DEF Distinct, n
    <2>2. i \in 1..(n + 1)
      BY DEF n
    <2>3. ASSUME NEW m \in 1..(n + 1)
          PROVE  /\ m < i => m \in 1..n /\ d[m] = q[m]
                 /\ m = i => d[m] = t
                 /\ m > i => m - 1 \in 1..n /\ d[m] = q[m - 1]
      BY <1>1, <1>5, <2>2
    <2>4. /\ j < i => j \in 1..n /\ d[j] = q[j]
          /\ j = i => d[j] = t
          /\ j > i => j - 1 \in 1..n /\ d[j] = q[j - 1]
      BY <2>3
    <2>5. /\ k < i => k \in 1..n /\ d[k] = q[k]
          /\ k = i => d[k] = t
          /\ k > i => k - 1 \in 1..n /\ d[k] = q[k - 1]
      BY <2>3
    <2>6. j < i \/ j = i \/ j > i
      BY <1>1, <2>2
    <2>7. k < i \/ k = i \/ k > i
      BY <1>1, <2>2
    <2>8. CASE j < i /\ k < i
      BY <2>1, <2>4, <2>5, <2>8
    <2>9. CASE j > i /\ k > i
      <3>1. j - 1 = k - 1
        BY <2>1, <2>4, <2>5, <2>9
      <3> QED BY <1>1, <3>1
    <2>10. CASE j = i \/ k = i
      BY <1>2, <2>4, <2>5, <2>6, <2>7, <2>10
    <2>11. ~(j < i /\ k > i)
      <3> SUFFICES ASSUME j < i, k > i PROVE FALSE
        OBVIOUS
      <3>1. j = k - 1
        BY <2>1, <2>4, <2>5
      <3> QED BY <1>1, <2>2, <3>1
    <2>12. ~(k < i /\ j > i)
      <3> SUFFICES ASSUME k < i, j > i PROVE FALSE
        OBVIOUS
      <3>1. k = j - 1
        BY <2>1, <2>4, <2>5
      <3> QED BY <1>1, <2>2, <3>1
    <2> QED BY <2>6, <2>7, <2>8, <2>9, <2>10, <2>11, <2>12
  <1>7. ASSUME NEW x \in Elems(d) PROVE x \in Elems(q) \cup {t}
    <2>1. PICK j \in 1..(n + 1) : x = d[j]
      BY <1>4, <1>7 DEF Elems
    <2>2. x = t \/ \E k \in 1..n : x = q[k]
      BY <1>1, <1>5, <2>1
    <2> QED BY <2>2 DEF Elems
  <1>8. t \in Elems(d)
    <2>1. i \in 1..(n + 1) /\ d[i] = t
      BY <1>1, <1>5
    <2> QED BY <1>4, <2>1 DEF Elems
  <1>9. ASSUME NEW x \in Elems(q) PROVE x \in Elems(d)
    <2>1. PICK k \in 1..n : x = q[k]
      BY <1>9 DEF Elems
    <2>2. CASE k < i
      <3>1. k \in 1..(n + 1) /\ d[k] = x
        BY <1>1, <1>5, <2>1, <2>2
      <3> QED BY <1>4, <3>1 DEF Elems
    <2>3. CASE ~(k < i)
      <3>1. k + 1 \in 1..(n + 1) /\ d[k + 1] = x
        BY <1>1, <1>5, <2>1, <2>3
      <3> QED BY <1>4, <3>1 DEF Elems
    <2> QED BY <2>2, <2>3
  <1> QED BY <1>4, <1>6, <1>7, <1>8, <1>9

(* The list walk of q_insert_task always ends at a place in the list.      *)
LEMMA InsertPointFacts ==
    ASSUME NEW q \in Seq(Tasks), prio \in [Tasks -> 0..255], NEW p \in 0..255
    PROVE  /\ InsertPoint(q, p) \in 1..(Len(q) + 1)
           /\ \A j \in 1..(InsertPoint(q, p) - 1) : ~(p < prio[q[j]])
           /\ InsertPoint(q, p) <= Len(q) => p < prio[q[InsertPoint(q, p)]]
  <1> DEFINE n == Len(q)
             T == {i \in 1..(n + 1) : i <= n => p < prio[q[i]]}
             R == OpToRel(<, Nat)
  <1>1. n \in Nat /\ q \in [1..n -> Tasks]
    BY LenProperties
  <1>2. T \subseteq Nat /\ n + 1 \in T
    BY <1>1
  <1>3. PICK i \in T : \A k \in T : <<k, i>> \notin R
    <2> HIDE DEF T
    <2> QED BY <1>2, WFMin, NatLessThanWellFounded
  <1>4. \A k \in T : ~(k < i)
    BY <1>2, <1>3 DEF OpToRel
  <1>5. i \in 1..(n + 1) /\ (i <= n => p < prio[q[i]])
    OBVIOUS
  <1>6. \A j \in 1..(i - 1) : ~(p < prio[q[j]])
    BY <1>1, <1>4, <1>5
  <1>7. \E k \in 1..(n + 1) :
           /\ \A j \in 1..(k - 1) : ~(p < prio[q[j]])
           /\ k <= n => p < prio[q[k]]
    BY <1>5, <1>6
  <1> QED BY <1>7 DEF InsertPoint

----------------------------------------------------------------------------
(* Facts about the scheduler's own operators.                              *)

(* The statuses a task is moved to.                                        *)
Targetable == {"DORMANT", "READY", "WAITING", "SUSPENDED"}

(* conv_tbl selects one of the four queues.                                *)
LEMMA ConvTbl ==
    \A s \in Statuses : conv_tbl(s) \in QueueNames
  BY DEF conv_tbl, Statuses, QueueNames

(* The tick counters stay in their range.                                  *)
LEMMA TickRange ==
    \A a \in Int : a % TickMod \in 0..(TickMod - 1)
  BY TickModAssumption

(* A sleep takes a natural number of ticks.                                *)
LEMMA TicksOfNat ==
    \A ms \in SleepMs : TicksOf(ms) \in Nat
  BY SleepAssumption, TickUnitAssumption DEF TicksOf

(* Moving a task by q_delete_task and q_insert_task keeps the queues       *)
(* consistent.                                                             *)
LEMMA MoveTaskFacts ==
    ASSUME TypeOK, QueueIntegrity, NEW t \in Created, NEW s \in Targetable,
           MoveTask(t, s)
    PROVE  /\ queues' \in [QueueNames -> Seq(Tasks)]
           /\ status' = [status EXCEPT ![t] = s]
           /\ status' \in [Tasks -> Statuses]
           /\ QueueIntegrity'
  <1> DEFINE a == conv_tbl(status[t])
             b == conv_tbl(s)
             mid == q_delete_task(queues, t, status[t])
  <1>1. /\ t \in Tasks /\ status[t] \in Statuses /\ status[t] # "UNBORN"
        /\ s \in Statuses /\ s # "UNBORN"
    BY DEF Created, TypeOK, Targetable, Statuses
  <1>2. a \in QueueNames /\ b \in QueueNames
    BY <1>1, ConvTbl
  <1>3. /\ queues \in [QueueNames -> Seq(Tasks)]
        /\ \A k \in QueueNames : Distinct(queues[k])
        /\ \A k \in QueueNames : t \in Elems(queues[k]) <=> k = a
    BY <1>1 DEF TypeOK, QueueIntegrity, NoDuplicates, QueueOfStatus, Distinct
  <1>4. mid = [queues EXCEPT ![a] = Without(queues[a], t)]
    BY DEF q_delete_task
  <1>5. /\ Without(queues[a], t) \in Seq(Tasks)
        /\ Distinct(Without(queues[a], t))
        /\ Elems(Without(queues[a], t)) = Elems(queues[a]) \ {t}
    <2> HIDE DEF a
    <2> QED BY <1>2, <1>3, WithoutFacts
  <1>6. /\ mid \in [QueueNames -> Seq(Tasks)]
        /\ \A k \in QueueNames : Distinct(mid[k])
        /\ \A k \in QueueNames : Elems(mid[k]) = Elems(queues[k]) \ {t}
    <2> HIDE DEF a, mid
    <2> QED BY <1>2, <1>3, <1>4, <1>5
  <1>7. queues' = [mid EXCEPT ![b] = InsertedAt(mid[b], InsertPoint(mid[b], prio[t]), t)]
    BY DEF MoveTask, q_insert_task
  <1>8. /\ InsertPoint(mid[b], prio[t]) \in 1..(Len(mid[b]) + 1)
    <2>1. mid[b] \in Seq(Tasks) /\ prio[t] \in 0..255 /\ prio \in [Tasks -> 0..255]
      BY <1>1, <1>2, <1>6 DEF TypeOK
    <2> HIDE DEF b, mid
    <2> QED BY <2>1, InsertPointFacts
  <1>9. /\ queues'[b] \in Seq(Tasks)
        /\ Distinct(queues'[b])
        /\ Elems(queues'[b]) = Elems(mid[b]) \cup {t}
    <2>1. t \notin Elems(mid[b]) /\ mid[b] \in Seq(Tasks) /\ Distinct(mid[b])
      BY <1>2, <1>6
    <2>2. queues'[b] = InsertedAt(mid[b], InsertPoint(mid[b], prio[t]), t)
      <3> HIDE DEF b, mid
      <3> QED BY <1>2, <1>6, <1>7
    <2> HIDE DEF b, mid
    <2> QED BY <1>1, <1>8, <2>1, <2>2, InsertedAtFacts
  <1>10. \A k \in QueueNames : k # b => queues'[k] = mid[k]
    <2> HIDE DEF b, mid
    <2> QED BY <1>2, <1>6, <1>7
  <1>11. queues' \in [QueueNames -> Seq(Tasks)]
    <2> HIDE DEF b, mid
    <2> QED BY <1>2, <1>6, <1>7, <1>9
  <1>12. status' = [status EXCEPT ![t] = s] /\ status' \in [Tasks -> Statuses]
    BY <1>1 DEF MoveTask, TypeOK
  <1>13. NoDuplicates'
    <2>1. \A k \in QueueNames : Distinct(queues'[k])
      <3> HIDE DEF b, mid
      <3> QED BY <1>6, <1>9, <1>10
    <2> QED BY <2>1 DEF NoDuplicates, Distinct
  <1>14. QueueOfStatus'
    <2> SUFFICES ASSUME NEW u \in Tasks, NEW k \in QueueNames
                 PROVE  u \in Elems(queues'[k])
                          <=> (status'[u] # "UNBORN" /\ k = conv_tbl(status'[u]))
      BY DEF QueueOfStatus
    <2>1. CASE u = t
      <3>1. status'[u] = s
        BY <1>1, <1>12, <2>1 DEF TypeOK
      <3>2. u \in Elems(queues'[k]) <=> k = b
        <4> HIDE DEF b, mid
        <4> QED BY <1>6, <1>9, <1>10, <2>1
      <3> QED BY <1>1, <3>1, <3>2
    <2>2. CASE u # t
      <3>1. status'[u] = status[u]
        BY <1>12, <2>2 DEF TypeOK
      <3>2. u \in Elems(queues'[k]) <=> u \in Elems(queues[k])
        <4> HIDE DEF b, mid
        <4> QED BY <1>6, <1>9, <1>10, <2>2
      <3> QED BY <3>1, <3>2 DEF QueueIntegrity, QueueOfStatus
    <2> QED BY <2>1, <2>2
  <1> QED BY <1>11, <1>12, <1>13, <1>14 DEF QueueIntegrity

(* A new TCB is linked once, in the ready queue.                           *)
LEMMA CreateTaskFacts ==
    ASSUME TypeOK, QueueIntegrity, NEW t \in Tasks, NEW p \in Priorities,
           mrb_create_task(t, p)
    PROVE  /\ queues' \in [QueueNames -> Seq(Tasks)]
           /\ status[t] = "UNBORN"
           /\ status' = [status EXCEPT ![t] = "READY"]
           /\ status' \in [Tasks -> Statuses]
           /\ prio' \in [Tasks -> 0..255]
           /\ QueueIntegrity'
  <1> DEFINE q == queues["ready"]
             i == InsertPoint(q, p % 256)
  <1>1. p % 256 \in 0..255
    BY PrioritiesAssumption
  <1>2. /\ status[t] = "UNBORN"
        /\ status' = [status EXCEPT ![t] = "READY"]
        /\ status' \in [Tasks -> Statuses]
        /\ prio' \in [Tasks -> 0..255]
    BY <1>1 DEF mrb_create_task, TypeOK, Statuses
  <1>3. /\ queues \in [QueueNames -> Seq(Tasks)] /\ "ready" \in QueueNames
        /\ \A k \in QueueNames : Distinct(queues[k]) /\ t \notin Elems(queues[k])
    BY <1>2 DEF TypeOK, QueueIntegrity, NoDuplicates, QueueOfStatus, Distinct,
         QueueNames
  <1>4. i \in 1..(Len(q) + 1)
    <2>1. q \in Seq(Tasks) /\ prio \in [Tasks -> 0..255]
      BY <1>3 DEF TypeOK
    <2> HIDE DEF q
    <2> QED BY <1>1, <2>1, InsertPointFacts
  <1>5. /\ InsertedAt(q, i, t) \in Seq(Tasks)
        /\ Distinct(InsertedAt(q, i, t))
        /\ Elems(InsertedAt(q, i, t)) = Elems(q) \cup {t}
    <2>1. q \in Seq(Tasks) /\ Distinct(q) /\ t \notin Elems(q)
      BY <1>3
    <2> HIDE DEF q, i
    <2> QED BY <1>4, <2>1, InsertedAtFacts
  <1>6. queues' = [queues EXCEPT !["ready"] = InsertedAt(q, i, t)]
    BY DEF mrb_create_task
  <1>7. /\ queues' \in [QueueNames -> Seq(Tasks)]
        /\ \A k \in QueueNames : Distinct(queues'[k])
        /\ \A k \in QueueNames :
              Elems(queues'[k]) = IF k = "ready" THEN Elems(queues[k]) \cup {t}
                                  ELSE Elems(queues[k])
    <2> HIDE DEF i
    <2> QED BY <1>3, <1>5, <1>6
  <1>8. NoDuplicates'
    BY <1>7 DEF NoDuplicates, Distinct
  <1>9. QueueOfStatus'
    <2> SUFFICES ASSUME NEW u \in Tasks, NEW k \in QueueNames
                 PROVE  u \in Elems(queues'[k])
                          <=> (status'[u] # "UNBORN" /\ k = conv_tbl(status'[u]))
      BY DEF QueueOfStatus
    <2>1. CASE u = t
      <3>1. status'[u] = "READY"
        BY <1>2, <2>1 DEF TypeOK
      <3>2. conv_tbl("READY") = "ready"
        BY DEF conv_tbl
      <3>3. u \in Elems(queues'[k]) <=> k = "ready"
        BY <1>3, <1>7, <2>1
      <3> QED BY <3>1, <3>2, <3>3
    <2>2. CASE u # t
      <3>1. status'[u] = status[u]
        BY <1>2, <2>2 DEF TypeOK
      <3>2. u \in Elems(queues'[k]) <=> u \in Elems(queues[k])
        BY <1>7, <2>2
      <3> QED BY <3>1, <3>2 DEF QueueIntegrity, QueueOfStatus
    <2> QED BY <2>1, <2>2
  <1> QED BY <1>2, <1>7, <1>8, <1>9 DEF QueueIntegrity

(* A store of READY or RUNNING into a READY or RUNNING task's status       *)
(* leaves it in the right queue.                                           *)
LEMMA RestatusFacts ==
    ASSUME TypeOK, QueueIntegrity, NEW t \in Tasks,
           NEW s \in {"READY", "RUNNING"}, status[t] \in {"READY", "RUNNING"},
           queues' = queues, status' = [status EXCEPT ![t] = s]
    PROVE  QueueIntegrity' /\ status' \in [Tasks -> Statuses]
  <1>1. status' \in [Tasks -> Statuses]
    BY DEF TypeOK, Statuses
  <1>2. \A u \in Tasks : conv_tbl(status'[u]) = conv_tbl(status[u])
                         /\ (status'[u] = "UNBORN" <=> status[u] = "UNBORN")
    BY DEF TypeOK, conv_tbl
  <1> QED BY <1>1, <1>2 DEF QueueIntegrity, NoDuplicates, QueueOfStatus

(* The head of the ready queue may run.                                    *)
LEMMA ReadyHead ==
    ASSUME TypeOK, QueueIntegrity, Ready # <<>>
    PROVE  /\ HeadOrNull(Ready) \in Created
           /\ status[HeadOrNull(Ready)] \in {"READY", "RUNNING"}
  <1>1. Ready \in Seq(Tasks) /\ "ready" \in QueueNames
    BY DEF TypeOK, Ready, QueueNames
  <1>2. 1 \in 1..Len(Ready) /\ Ready[1] \in Tasks
    BY <1>1, EmptySeq, ElementOfSeq
  <1>3. HeadOrNull(Ready) = Ready[1] /\ Ready[1] \in Elems(queues["ready"])
    BY <1>2 DEF HeadOrNull, Elems, Ready
  <1>4. status[Ready[1]] # "UNBORN" /\ "ready" = conv_tbl(status[Ready[1]])
    BY <1>1, <1>2, <1>3 DEF QueueIntegrity, QueueOfStatus
  <1> QED BY <1>2, <1>3, <1>4 DEF conv_tbl, Created

(* Where a walk over the waiting queue starts.                             *)
LEMMA WaitingHead ==
    ASSUME TypeOK, QueueIntegrity
    PROVE  /\ HeadOrNull(Waiting) \in Tasks \cup {NoTask}
           /\ HeadOrNull(Waiting) # NoTask => status[HeadOrNull(Waiting)] = "WAITING"
  <1>1. Waiting \in Seq(Tasks) /\ "waiting" \in QueueNames
    BY DEF TypeOK, Waiting, QueueNames
  <1>2. CASE Waiting = <<>>
    BY <1>2 DEF HeadOrNull
  <1>3. CASE Waiting # <<>>
    <2>1. 1 \in 1..Len(Waiting) /\ Waiting[1] \in Tasks
      BY <1>1, <1>3, EmptySeq, ElementOfSeq
    <2>2. HeadOrNull(Waiting) = Waiting[1] /\ Waiting[1] \in Elems(queues["waiting"])
      BY <1>3, <2>1 DEF HeadOrNull, Elems, Waiting
    <2>3. status[Waiting[1]] # "UNBORN" /\ "waiting" = conv_tbl(status[Waiting[1]])
      BY <1>1, <2>1, <2>2 DEF QueueIntegrity, QueueOfStatus
    <2> QED BY <2>1, <2>2, <2>3 DEF conv_tbl
  <1> QED BY <1>2, <1>3

(* Where it goes from t: to another task that is waiting, or to the end.   *)
LEMMA WaitingNext ==
    ASSUME TypeOK, QueueIntegrity, NEW t \in Tasks, status[t] = "WAITING"
    PROVE  /\ NextIn(Waiting, t) \in Tasks \cup {NoTask}
           /\ NextIn(Waiting, t) # NoTask =>
                 NextIn(Waiting, t) # t /\ status[NextIn(Waiting, t)] = "WAITING"
  <1> DEFINE i == IndexIn(Waiting, t)
  <1>1. Waiting \in Seq(Tasks) /\ "waiting" \in QueueNames
    BY DEF TypeOK, Waiting, QueueNames
  <1>2. t \in Elems(Waiting)
    BY <1>1 DEF QueueIntegrity, QueueOfStatus, conv_tbl, Waiting
  <1>3. i \in 1..Len(Waiting) /\ Waiting[i] = t
    BY <1>2 DEF Elems, IndexIn
  <1>4. CASE i < Len(Waiting)
    <2>1. i + 1 \in 1..Len(Waiting) /\ i + 1 # i
      BY <1>1, <1>3, <1>4, LenProperties
    <2>2. NextIn(Waiting, t) = Waiting[i + 1]
      BY <1>4 DEF NextIn
    <2>3. Waiting[i + 1] \in Tasks /\ Waiting[i + 1] \in Elems(queues["waiting"])
      BY <1>1, <2>1, ElementOfSeq DEF Elems, Waiting
    <2>4. status[Waiting[i + 1]] = "WAITING"
      BY <1>1, <2>3 DEF QueueIntegrity, QueueOfStatus, conv_tbl
    <2>5. Waiting[i + 1] # t
      BY <1>1, <1>3, <2>1 DEF QueueIntegrity, NoDuplicates, Waiting
    <2> QED BY <2>2, <2>3, <2>4, <2>5
  <1>5. CASE ~(i < Len(Waiting))
    BY <1>5 DEF NextIn
  <1> QED BY <1>4, <1>5

----------------------------------------------------------------------------
(* The inductive invariant.                                                *)

(* The parts of the invariant that speak of the control state.             *)
ControlInv == RunningIsCurrent /\ ScanIsWaiting /\ CurrentIsCreated /\ ArgIsCreated

(* mrb_picoruby_mruby_gem_init establishes the invariant.                  *)
LEMMA InitInv == Init => SchedulerInv
  <1> SUFFICES ASSUME Init PROVE SchedulerInv
    OBVIOUS
  <1>1. TypeOK
    <2>1. <<>> \in Seq(Tasks)
      BY EmptySeq
    <2>2. ScanHorizon \in 0..(TickMod - 1) /\ 0 \in 0..(TickMod - 1)
      BY HorizonAssumption, WindowAssumption, TickModAssumption
    <2>3. queues \in [QueueNames -> Seq(Tasks)]
      BY <2>1 DEF Init
    <2>4. /\ status \in [Tasks -> Statuses]
          /\ reason \in [Tasks -> {"NONE", "SLEEP", "JOIN"}]
          /\ joinOn \in [Tasks -> Tasks \cup {NoTask}]
          /\ cstat \in [Tasks -> {"CREATED", "STOPPED"}]
      BY DEF Init, Statuses
    <2>5. /\ prio \in [Tasks -> 0..255]
          /\ timeslice \in [Tasks -> 0..TimesliceTicks]
          /\ wakeup \in [Tasks -> 0..(TickMod - 1)]
          /\ tick \in 0..(TickMod - 1)
          /\ wakeupTick \in 0..(TickMod - 1)
      BY <2>2, SliceAssumption DEF Init
    <2>6. /\ switching \in BOOLEAN /\ woke \in BOOLEAN
          /\ tcb \in Tasks \cup {NoTask} /\ arg \in Tasks \cup {NoTask}
          /\ scan \in Tasks \cup {NoTask}
          /\ irq \in {"on", "tick", "join"} /\ pc \in Pcs
      BY DEF Init, Pcs
    <2> QED BY <2>3, <2>4, <2>5, <2>6 DEF TypeOK
  <1>2. QueueIntegrity
    <2>1. \A k \in QueueNames : queues[k] = <<>>
      BY DEF Init
    <2>2. Len(<<>>) = 0
      BY EmptySeq
    <2> QED BY <2>1, <2>2
            DEF Init, QueueIntegrity, NoDuplicates, QueueOfStatus, Elems
  <1>3. ControlInv
    BY DEF Init, ControlInv, RunningIsCurrent, ScanIsWaiting, CurrentIsCreated,
           ArgIsCreated, OpPcs
  <1> QED BY <1>1, <1>2, <1>3 DEF SchedulerInv, ControlInv

(* Steps that write neither the queues nor a status keep the queues        *)
(* consistent.                                                             *)
LEMMA QuietFacts ==
    ASSUME QueueIntegrity, UNCHANGED <<queues, status>>
    PROVE  QueueIntegrity'
  BY DEF QueueIntegrity, NoDuplicates, QueueOfStatus
----------------------------------------------------------------------------
(* One lemma per group of steps, one step of its proof per action.         *)

(* The steps of mrb_tasks_run that leave queues and statuses alone.         *)
LEMMA LoopQuietInv ==
    ASSUME SchedulerInv, BootRun \/ ExitTest \/ Pick \/ LoadTimeslice \/ VMYield
           \/ VMFinish \/ ClearSwitching \/ WakeJoinersBegin \/ WakeJoinersEnd
    PROVE  SchedulerInv'
  <1> USE DEF At, Goto, Return, Pcs, OpPcs, taskVars, tickVars, loopVars
  <1>1. CASE BootRun
    <2>1. TypeOK'
      BY <1>1 DEF SchedulerInv, TypeOK, BootRun, LoopStart
    <2>2. QueueIntegrity'
      BY <1>1, QuietFacts DEF SchedulerInv, BootRun
    <2>3. ControlInv'
      BY <1>1
         DEF SchedulerInv, BootRun, LoopStart, ControlInv, RunningIsCurrent,
             ScanIsWaiting, CurrentIsCreated, ArgIsCreated, Created
    <2> QED BY <2>1, <2>2, <2>3 DEF SchedulerInv, ControlInv
  <1>2. CASE ExitTest
    <2>1. TypeOK'
      BY <1>2 DEF SchedulerInv, TypeOK, ExitTest
    <2>2. QueueIntegrity'
      BY <1>2, QuietFacts DEF SchedulerInv, ExitTest
    <2>3. ControlInv'
      BY <1>2
         DEF SchedulerInv, ExitTest, ControlInv, RunningIsCurrent,
             ScanIsWaiting, CurrentIsCreated, ArgIsCreated, Created
    <2> QED BY <2>1, <2>2, <2>3 DEF SchedulerInv, ControlInv
  <1>3. CASE Pick
    <2>0. /\ HeadOrNull(Ready) \in Created
          /\ status[HeadOrNull(Ready)] \in {"READY", "RUNNING"}
      BY <1>3, ReadyHead DEF SchedulerInv, Pick
    <2>1. TypeOK'
      BY <1>3, <2>0 DEF SchedulerInv, TypeOK, Pick, Created
    <2>2. QueueIntegrity'
      BY <1>3, QuietFacts DEF SchedulerInv, Pick
    <2>3. ControlInv'
      BY <1>3, <2>0
         DEF SchedulerInv, Pick, ControlInv, RunningIsCurrent, ScanIsWaiting,
             CurrentIsCreated, ArgIsCreated, Created
    <2> QED BY <2>1, <2>2, <2>3 DEF SchedulerInv, ControlInv
  <1>4. CASE LoadTimeslice
    <2>0. TimesliceTicks \in 0..TimesliceTicks
      BY SliceAssumption
    <2>1. TypeOK'
      BY <1>4, <2>0 DEF SchedulerInv, TypeOK, LoadTimeslice
    <2>2. QueueIntegrity'
      BY <1>4, QuietFacts DEF SchedulerInv, LoadTimeslice
    <2>3. ControlInv'
      BY <1>4
         DEF SchedulerInv, LoadTimeslice, ControlInv, RunningIsCurrent,
             ScanIsWaiting, CurrentIsCreated, ArgIsCreated, Created
    <2> QED BY <2>1, <2>2, <2>3 DEF SchedulerInv, ControlInv
  <1>5. CASE VMYield
    <2>1. TypeOK'
      BY <1>5 DEF SchedulerInv, TypeOK, VMYield
    <2>2. QueueIntegrity'
      BY <1>5, QuietFacts DEF SchedulerInv, VMYield
    <2>3. ControlInv'
      BY <1>5
         DEF SchedulerInv, VMYield, ControlInv, RunningIsCurrent,
             ScanIsWaiting, CurrentIsCreated, ArgIsCreated, Created
    <2> QED BY <2>1, <2>2, <2>3 DEF SchedulerInv, ControlInv
  <1>6. CASE VMFinish
    <2>1. TypeOK'
      BY <1>6 DEF SchedulerInv, TypeOK, VMFinish
    <2>2. QueueIntegrity'
      BY <1>6, QuietFacts DEF SchedulerInv, VMFinish
    <2>3. ControlInv'
      BY <1>6
         DEF SchedulerInv, VMFinish, ControlInv, RunningIsCurrent,
             ScanIsWaiting, CurrentIsCreated, ArgIsCreated, Created
    <2> QED BY <2>1, <2>2, <2>3 DEF SchedulerInv, ControlInv
  <1>7. CASE ClearSwitching
    <2>1. TypeOK'
      BY <1>7 DEF SchedulerInv, TypeOK, ClearSwitching
    <2>2. QueueIntegrity'
      BY <1>7, QuietFacts DEF SchedulerInv, ClearSwitching
    <2>3. ControlInv'
      BY <1>7
         DEF SchedulerInv, ClearSwitching, ControlInv, RunningIsCurrent,
             ScanIsWaiting, CurrentIsCreated, ArgIsCreated, Created
    <2> QED BY <2>1, <2>2, <2>3 DEF SchedulerInv, ControlInv
  <1>8. CASE WakeJoinersBegin
    <2>0. /\ HeadOrNull(Waiting) \in Tasks \cup {NoTask}
          /\ HeadOrNull(Waiting) # NoTask => status[HeadOrNull(Waiting)] = "WAITING"
      BY WaitingHead DEF SchedulerInv
    <2>1. TypeOK'
      BY <1>8, <2>0 DEF SchedulerInv, TypeOK, WakeJoinersBegin
    <2>2. QueueIntegrity'
      BY <1>8, QuietFacts DEF SchedulerInv, WakeJoinersBegin
    <2>3. ControlInv'
      BY <1>8, <2>0
         DEF SchedulerInv, WakeJoinersBegin, ControlInv, RunningIsCurrent,
             ScanIsWaiting, CurrentIsCreated, ArgIsCreated, Created
    <2> QED BY <2>1, <2>2, <2>3 DEF SchedulerInv, ControlInv
  <1>9. CASE WakeJoinersEnd
    <2>1. TypeOK'
      BY <1>9 DEF SchedulerInv, TypeOK, WakeJoinersEnd, LoopStart
    <2>2. QueueIntegrity'
      BY <1>9, QuietFacts DEF SchedulerInv, WakeJoinersEnd
    <2>3. ControlInv'
      BY <1>9
         DEF SchedulerInv, WakeJoinersEnd, LoopStart, ControlInv,
             RunningIsCurrent, ScanIsWaiting, CurrentIsCreated, ArgIsCreated,
             Created
    <2> QED BY <2>1, <2>2, <2>3 DEF SchedulerInv, ControlInv
  <1> QED BY <1>1, <1>2, <1>3, <1>4, <1>5, <1>6, <1>7, <1>8, <1>9

(* The steps of methods that leave queues and statuses alone.              *)
LEMMA MethodQuietInv ==
    ASSUME SchedulerInv, Call \/ SleepReadsHead \/ ResumeCompare \/ ResumeStore
           \/ mrb_task_s_pass \/ mrb_stop_task \/ mrb_task_reset_context
    PROVE  SchedulerInv'
  <1> USE DEF At, Goto, Return, Pcs, OpPcs, taskVars, tickVars, loopVars
  <1>1. CASE Call
    <2>1. TypeOK'
      BY <1>1, OpsAssumption
         DEF SchedulerInv, TypeOK, Call, Targets, Created, AllOps
    <2>2. QueueIntegrity'
      BY <1>1, QuietFacts DEF SchedulerInv, Call
    <2>3. ControlInv'
      BY <1>1, OpsAssumption
         DEF SchedulerInv, Call, Targets, AllOps, ControlInv, RunningIsCurrent,
             ScanIsWaiting, CurrentIsCreated, ArgIsCreated, Created
    <2> QED BY <2>1, <2>2, <2>3 DEF SchedulerInv, ControlInv
  <1>2. CASE SleepReadsHead
    <2>0. Ready # <<>> => HeadOrNull(Ready) \in Created
      BY ReadyHead DEF SchedulerInv
    <2>1. TypeOK'
      BY <1>2, <2>0 DEF SchedulerInv, TypeOK, SleepReadsHead, Created
    <2>2. QueueIntegrity'
      BY <1>2, QuietFacts DEF SchedulerInv, SleepReadsHead
    <2>3. ControlInv'
      BY <1>2, <2>0
         DEF SchedulerInv, SleepReadsHead, ControlInv, RunningIsCurrent,
             ScanIsWaiting, CurrentIsCreated, ArgIsCreated, Created
    <2> QED BY <2>1, <2>2, <2>3 DEF SchedulerInv, ControlInv
  <1>3. CASE ResumeCompare
    <2>1. TypeOK'
      BY <1>3 DEF SchedulerInv, TypeOK, ResumeCompare
    <2>2. QueueIntegrity'
      BY <1>3, QuietFacts DEF SchedulerInv, ResumeCompare
    <2>3. ControlInv'
      BY <1>3
         DEF SchedulerInv, ResumeCompare, ControlInv, RunningIsCurrent,
             ScanIsWaiting, CurrentIsCreated, ArgIsCreated, Created
    <2> QED BY <2>1, <2>2, <2>3 DEF SchedulerInv, ControlInv
  <1>4. CASE ResumeStore
    <2>0. arg \in Tasks
      BY <1>4 DEF SchedulerInv, ArgIsCreated, Created, ResumeStore
    <2>1. TypeOK'
      BY <1>4, <2>0 DEF SchedulerInv, TypeOK, ResumeStore
    <2>2. QueueIntegrity'
      BY <1>4, QuietFacts DEF SchedulerInv, ResumeStore
    <2>3. ControlInv'
      BY <1>4
         DEF SchedulerInv, ResumeStore, ControlInv, RunningIsCurrent,
             ScanIsWaiting, CurrentIsCreated, ArgIsCreated, Created
    <2> QED BY <2>1, <2>2, <2>3 DEF SchedulerInv, ControlInv
  <1>5. CASE mrb_task_s_pass
    <2>0. 0 \in 0..TimesliceTicks /\ 1 \in 0..255
      BY SliceAssumption
    <2>1. TypeOK'
      BY <1>5, <2>0 DEF SchedulerInv, TypeOK, mrb_task_s_pass
    <2>2. QueueIntegrity'
      BY <1>5, QuietFacts DEF SchedulerInv, mrb_task_s_pass
    <2>3. ControlInv'
      BY <1>5
         DEF SchedulerInv, mrb_task_s_pass, ControlInv, RunningIsCurrent,
             ScanIsWaiting, CurrentIsCreated, ArgIsCreated, Created
    <2> QED BY <2>1, <2>2, <2>3 DEF SchedulerInv, ControlInv
  <1>6. CASE mrb_stop_task
    <2>1. TypeOK'
      BY <1>6 DEF SchedulerInv, TypeOK, mrb_stop_task
    <2>2. QueueIntegrity'
      BY <1>6, QuietFacts DEF SchedulerInv, mrb_stop_task
    <2>3. ControlInv'
      BY <1>6
         DEF SchedulerInv, mrb_stop_task, ControlInv, RunningIsCurrent,
             ScanIsWaiting, CurrentIsCreated, ArgIsCreated, Created
    <2> QED BY <2>1, <2>2, <2>3 DEF SchedulerInv, ControlInv
  <1>7. CASE mrb_task_reset_context
    <2>1. TypeOK'
      BY <1>7 DEF SchedulerInv, TypeOK, mrb_task_reset_context
    <2>2. QueueIntegrity'
      BY <1>7, QuietFacts DEF SchedulerInv, mrb_task_reset_context
    <2>3. ControlInv'
      BY <1>7
         DEF SchedulerInv, mrb_task_reset_context, ControlInv,
             RunningIsCurrent, ScanIsWaiting, CurrentIsCreated, ArgIsCreated,
             Created
    <2> QED BY <2>1, <2>2, <2>3 DEF SchedulerInv, ControlInv
  <1> QED BY <1>1, <1>2, <1>3, <1>4, <1>5, <1>6, <1>7

(* The critical sections that move one task.                               *)
LEMMA MoveInv ==
    ASSUME SchedulerInv, Retire \/ Requeue \/ mrb_terminate_task \/ mrb_suspend_task
    PROVE  SchedulerInv'
  <1> USE DEF At, Goto, Return, Pcs, OpPcs, taskVars, tickVars, loopVars
  <1>1. CASE Retire
    <2>1. tcb \in Created
      BY <1>1 DEF SchedulerInv, CurrentIsCreated, Retire
    <2>2. MoveTask(tcb, "DORMANT")
      BY <1>1 DEF Retire
    <2>3. /\ queues' \in [QueueNames -> Seq(Tasks)]
          /\ status' = [status EXCEPT ![tcb] = "DORMANT"]
          /\ status' \in [Tasks -> Statuses]
          /\ QueueIntegrity'
      BY <2>1, <2>2, MoveTaskFacts DEF SchedulerInv, Targetable
    <2>5. TypeOK'
      BY <1>1, <2>1, <2>3 DEF SchedulerInv, TypeOK, Retire
    <2>6. ControlInv'
      BY <1>1, <2>1, <2>3
         DEF SchedulerInv, TypeOK, Retire, ControlInv, RunningIsCurrent,
             ScanIsWaiting, CurrentIsCreated, ArgIsCreated, Created
    <2> QED BY <2>3, <2>5, <2>6 DEF SchedulerInv, ControlInv
  <1>2. CASE Requeue
    <2>1. tcb \in Created
      BY <1>2 DEF SchedulerInv, CurrentIsCreated, Requeue
    <2>2. MoveTask(tcb, "READY")
      BY <1>2 DEF Requeue
    <2>3. /\ queues' \in [QueueNames -> Seq(Tasks)]
          /\ status' = [status EXCEPT ![tcb] = "READY"]
          /\ status' \in [Tasks -> Statuses]
          /\ QueueIntegrity'
      BY <2>1, <2>2, MoveTaskFacts DEF SchedulerInv, Targetable
    <2>5. TypeOK'
      BY <1>2, <2>1, <2>3 DEF SchedulerInv, TypeOK, Requeue
    <2>6. ControlInv'
      BY <1>2, <2>1, <2>3
         DEF SchedulerInv, TypeOK, Requeue, ControlInv, RunningIsCurrent,
             ScanIsWaiting, CurrentIsCreated, ArgIsCreated, Created
    <2> QED BY <2>3, <2>5, <2>6 DEF SchedulerInv, ControlInv
  <1>3. CASE mrb_terminate_task /\ status[arg] # "DORMANT"
    <2>1. arg \in Created
      BY <1>3 DEF SchedulerInv, ArgIsCreated, mrb_terminate_task
    <2>2. MoveTask(arg, "DORMANT")
      BY <1>3 DEF mrb_terminate_task
    <2>3. /\ queues' \in [QueueNames -> Seq(Tasks)]
          /\ status' = [status EXCEPT ![arg] = "DORMANT"]
          /\ status' \in [Tasks -> Statuses]
          /\ QueueIntegrity'
      BY <2>1, <2>2, MoveTaskFacts DEF SchedulerInv, Targetable
    <2>4. TypeOK'
      BY <1>3, <2>1, <2>3 DEF SchedulerInv, TypeOK, mrb_terminate_task
    <2>5. ControlInv'
      BY <1>3, <2>1, <2>3
         DEF SchedulerInv, TypeOK, mrb_terminate_task, ControlInv,
             RunningIsCurrent, ScanIsWaiting, CurrentIsCreated, ArgIsCreated,
             Created
    <2> QED BY <2>3, <2>4, <2>5 DEF SchedulerInv, ControlInv
  <1>4. CASE mrb_terminate_task /\ ~(status[arg] # "DORMANT")
    <2>1. TypeOK'
      BY <1>4 DEF SchedulerInv, TypeOK, mrb_terminate_task
    <2>2. QueueIntegrity'
      BY <1>4, QuietFacts DEF SchedulerInv, mrb_terminate_task
    <2>3. ControlInv'
      BY <1>4
         DEF SchedulerInv, mrb_terminate_task, ControlInv, RunningIsCurrent,
             ScanIsWaiting, CurrentIsCreated, ArgIsCreated, Created
    <2> QED BY <2>1, <2>2, <2>3 DEF SchedulerInv, ControlInv
  <1>5. CASE mrb_suspend_task /\ status[arg] # "SUSPENDED"
    <2>1. arg \in Created
      BY <1>5 DEF SchedulerInv, ArgIsCreated, mrb_suspend_task
    <2>2. MoveTask(arg, "SUSPENDED")
      BY <1>5 DEF mrb_suspend_task
    <2>3. /\ queues' \in [QueueNames -> Seq(Tasks)]
          /\ status' = [status EXCEPT ![arg] = "SUSPENDED"]
          /\ status' \in [Tasks -> Statuses]
          /\ QueueIntegrity'
      BY <2>1, <2>2, MoveTaskFacts DEF SchedulerInv, Targetable
    <2>4. TypeOK'
      BY <1>5, <2>1, <2>3 DEF SchedulerInv, TypeOK, mrb_suspend_task, SwitchRequest
    <2>5. ControlInv'
      BY <1>5, <2>1, <2>3
         DEF SchedulerInv, TypeOK, mrb_suspend_task, ControlInv,
             RunningIsCurrent, ScanIsWaiting, CurrentIsCreated, ArgIsCreated,
             Created
    <2> QED BY <2>3, <2>4, <2>5 DEF SchedulerInv, ControlInv
  <1>6. CASE mrb_suspend_task /\ ~(status[arg] # "SUSPENDED")
    <2>1. TypeOK'
      BY <1>6 DEF SchedulerInv, TypeOK, mrb_suspend_task
    <2>2. QueueIntegrity'
      BY <1>6, QuietFacts DEF SchedulerInv, mrb_suspend_task
    <2>3. ControlInv'
      BY <1>6
         DEF SchedulerInv, mrb_suspend_task, ControlInv, RunningIsCurrent,
             ScanIsWaiting, CurrentIsCreated, ArgIsCreated, Created
    <2> QED BY <2>1, <2>2, <2>3 DEF SchedulerInv, ControlInv
  <1> QED BY <1>1, <1>2, <1>3, <1>4, <1>5, <1>6

(* The critical sections of sleep, resume and join.                        *)
LEMMA WaitInv ==
    ASSUME SchedulerInv, sleep_ms_impl \/ mrb_resume_task \/ mrb_task_join
    PROVE  SchedulerInv'
  <1> USE DEF At, Goto, Return, Pcs, OpPcs, taskVars, tickVars, loopVars
  <1>1. CASE sleep_ms_impl
    <2>1. arg \in Created
      BY <1>1 DEF SchedulerInv, ArgIsCreated, sleep_ms_impl
    <2>2. MoveTask(arg, "WAITING")
      BY <1>1 DEF sleep_ms_impl
    <2>3. /\ queues' \in [QueueNames -> Seq(Tasks)]
          /\ status' = [status EXCEPT ![arg] = "WAITING"]
          /\ status' \in [Tasks -> Statuses]
          /\ QueueIntegrity'
      BY <2>1, <2>2, MoveTaskFacts DEF SchedulerInv, Targetable
    <2>4. wakeup' \in [Tasks -> 0..(TickMod - 1)] /\ wakeupTick' \in 0..(TickMod - 1)
      <3>1. PICK ms \in SleepMs :
              /\ wakeup' = [wakeup EXCEPT ![arg] = (tick + TicksOf(ms)) % TickMod]
              /\ wakeupTick' = ArmedFor((tick + TicksOf(ms)) % TickMod)
        BY <1>1 DEF sleep_ms_impl
      <3>2. (tick + TicksOf(ms)) % TickMod \in 0..(TickMod - 1)
        <4>1. tick \in Int /\ TicksOf(ms) \in Int
          BY TicksOfNat DEF SchedulerInv, TypeOK
        <4> QED BY <4>1, TickRange
      <3> QED BY <3>1, <3>2 DEF SchedulerInv, TypeOK, ArmedFor
    <2>7. TypeOK'
      BY <1>1, <2>1, <2>3, <2>4 DEF SchedulerInv, TypeOK, sleep_ms_impl, SwitchRequest
    <2>8. ControlInv'
      BY <1>1, <2>1, <2>3, <2>4
         DEF SchedulerInv, TypeOK, sleep_ms_impl, ControlInv, RunningIsCurrent,
             ScanIsWaiting, CurrentIsCreated, ArgIsCreated, Created
    <2> QED BY <2>3, <2>7, <2>8 DEF SchedulerInv, ControlInv
  <1>2. CASE mrb_resume_task /\ status[arg] = "SUSPENDED"
    <2> DEFINE s == IF reason[arg] = "NONE" THEN "READY" ELSE "WAITING"
    <2>1. arg \in Created
      BY <1>2 DEF SchedulerInv, ArgIsCreated, mrb_resume_task
    <2>2. MoveTask(arg, s)
      BY <1>2 DEF mrb_resume_task
    <2>3. /\ queues' \in [QueueNames -> Seq(Tasks)]
          /\ status' = [status EXCEPT ![arg] = s]
          /\ status' \in [Tasks -> Statuses]
          /\ QueueIntegrity'
      BY <2>1, <2>2, MoveTaskFacts DEF SchedulerInv, Targetable
    <2>7. TypeOK'
      BY <1>2, <2>1, <2>3 DEF SchedulerInv, TypeOK, mrb_resume_task
    <2>8. ControlInv'
      BY <1>2, <2>1, <2>3
         DEF SchedulerInv, TypeOK, mrb_resume_task, ControlInv,
             RunningIsCurrent, ScanIsWaiting, CurrentIsCreated, ArgIsCreated,
             Created
    <2> QED BY <2>3, <2>7, <2>8 DEF SchedulerInv, ControlInv
  <1>3. CASE mrb_resume_task /\ ~(status[arg] = "SUSPENDED")
    <2>1. TypeOK'
      BY <1>3 DEF SchedulerInv, TypeOK, mrb_resume_task
    <2>2. QueueIntegrity'
      BY <1>3, QuietFacts DEF SchedulerInv, mrb_resume_task
    <2>3. ControlInv'
      BY <1>3
         DEF SchedulerInv, mrb_resume_task, ControlInv, RunningIsCurrent,
             ScanIsWaiting, CurrentIsCreated, ArgIsCreated, Created
    <2> QED BY <2>1, <2>2, <2>3 DEF SchedulerInv, ControlInv
  <1>4. CASE mrb_task_join /\ ~(arg = tcb \/ status[arg] = "DORMANT")
    <2>1. tcb \in Created /\ arg \in Created
      BY <1>4 DEF SchedulerInv, ArgIsCreated, CurrentIsCreated, mrb_task_join
    <2>2. MoveTask(tcb, "WAITING")
      BY <1>4 DEF mrb_task_join
    <2>3. /\ queues' \in [QueueNames -> Seq(Tasks)]
          /\ status' = [status EXCEPT ![tcb] = "WAITING"]
          /\ status' \in [Tasks -> Statuses]
          /\ QueueIntegrity'
      BY <2>1, <2>2, MoveTaskFacts DEF SchedulerInv, Targetable
    <2>7. TypeOK'
      BY <1>4, <2>1, <2>3 DEF SchedulerInv, TypeOK, mrb_task_join, SwitchRequest, Created
    <2>8. ControlInv'
      BY <1>4, <2>1, <2>3
         DEF SchedulerInv, TypeOK, mrb_task_join, Created, ControlInv,
             RunningIsCurrent, ScanIsWaiting, CurrentIsCreated, ArgIsCreated,
             Created
    <2> QED BY <2>3, <2>7, <2>8 DEF SchedulerInv, ControlInv
  <1>5. CASE mrb_task_join /\ (arg = tcb \/ status[arg] = "DORMANT")
    <2>1. TypeOK'
      BY <1>5 DEF SchedulerInv, TypeOK, mrb_task_join
    <2>2. QueueIntegrity'
      BY <1>5, QuietFacts DEF SchedulerInv, mrb_task_join
    <2>3. ControlInv'
      BY <1>5
         DEF SchedulerInv, mrb_task_join, ControlInv, RunningIsCurrent,
             ScanIsWaiting, CurrentIsCreated, ArgIsCreated, Created
    <2> QED BY <2>1, <2>2, <2>3 DEF SchedulerInv, ControlInv
  <1> QED BY <1>1, <1>2, <1>3, <1>4, <1>5

(* Task creation, and the stores of RUNNING and READY.                     *)
LEMMA CreateInv ==
    ASSUME SchedulerInv, BootCreate \/ mrb_task_s_new \/ Mark \/ CheckStatus
    PROVE  SchedulerInv'
  <1> USE DEF At, Goto, Return, Pcs, OpPcs, taskVars, tickVars, loopVars
  <1>1. CASE BootCreate
    <2>1. PICK t \in Tasks, p \in Priorities : mrb_create_task(t, p)
      BY <1>1 DEF BootCreate
    <2>3. /\ queues' \in [QueueNames -> Seq(Tasks)]
          /\ status[t] = "UNBORN"
          /\ status' = [status EXCEPT ![t] = "READY"]
          /\ status' \in [Tasks -> Statuses]
          /\ prio' \in [Tasks -> 0..255]
          /\ QueueIntegrity'
      BY <2>1, CreateTaskFacts DEF SchedulerInv
    <2>4. /\ UNCHANGED <<reason, timeslice, wakeup, joinOn, cstat>>
          /\ switching' \in BOOLEAN
      BY <2>1 DEF mrb_create_task, SchedulerInv, TypeOK
    <2>7. TypeOK'
      BY <1>1, <2>3, <2>4 DEF SchedulerInv, TypeOK, BootCreate
    <2>8. ControlInv'
      BY <1>1, <2>3, <2>4
         DEF SchedulerInv, TypeOK, BootCreate, ControlInv, RunningIsCurrent,
             ScanIsWaiting, CurrentIsCreated, ArgIsCreated, Created
    <2> QED BY <2>3, <2>7, <2>8 DEF SchedulerInv, ControlInv
  <1>2. CASE mrb_task_s_new
    <2>1. PICK t \in Tasks, p \in Priorities : mrb_create_task(t, p)
      BY <1>2 DEF mrb_task_s_new, SchedulerInv, ArgIsCreated
    <2>3. /\ queues' \in [QueueNames -> Seq(Tasks)]
          /\ status[t] = "UNBORN"
          /\ status' = [status EXCEPT ![t] = "READY"]
          /\ status' \in [Tasks -> Statuses]
          /\ prio' \in [Tasks -> 0..255]
          /\ QueueIntegrity'
      BY <2>1, CreateTaskFacts DEF SchedulerInv
    <2>4. /\ UNCHANGED <<reason, timeslice, wakeup, joinOn, cstat>>
          /\ switching' \in BOOLEAN
      BY <2>1 DEF mrb_create_task, SchedulerInv, TypeOK
    <2>7. TypeOK'
      BY <1>2, <2>3, <2>4 DEF SchedulerInv, TypeOK, mrb_task_s_new
    <2>8. ControlInv'
      BY <1>2, <2>3, <2>4
         DEF SchedulerInv, TypeOK, mrb_task_s_new, ControlInv,
             RunningIsCurrent, ScanIsWaiting, CurrentIsCreated, ArgIsCreated,
             Created
    <2> QED BY <2>3, <2>7, <2>8 DEF SchedulerInv, ControlInv
  <1>3. CASE Mark
    <2>1. /\ tcb \in Tasks /\ status[tcb] = "READY" /\ queues' = queues
          /\ status' = [status EXCEPT ![tcb] = "RUNNING"]
      BY <1>3 DEF SchedulerInv, CurrentIsCreated, Created, Mark
    <2>3. QueueIntegrity' /\ status' \in [Tasks -> Statuses]
      BY <2>1, RestatusFacts DEF SchedulerInv
    <2>7. TypeOK'
      BY <1>3, <2>1, <2>3 DEF SchedulerInv, TypeOK, Mark
    <2>8. ControlInv'
      BY <1>3, <2>1, <2>3
         DEF SchedulerInv, TypeOK, Mark, ControlInv, RunningIsCurrent,
             ScanIsWaiting, CurrentIsCreated, ArgIsCreated, Created
    <2> QED BY <2>3, <2>7, <2>8 DEF SchedulerInv, ControlInv
  <1>4. CASE CheckStatus /\ status[tcb] = "RUNNING"
    <2>1. /\ tcb \in Tasks /\ queues' = queues
          /\ status' = [status EXCEPT ![tcb] = "READY"]
      BY <1>4 DEF SchedulerInv, CurrentIsCreated, Created, CheckStatus
    <2>3. QueueIntegrity' /\ status' \in [Tasks -> Statuses]
      BY <1>4, <2>1, RestatusFacts DEF SchedulerInv
    <2>7. TypeOK'
      BY <1>4, <2>1, <2>3 DEF SchedulerInv, TypeOK, CheckStatus
    <2>8. ControlInv'
      BY <1>4, <2>1, <2>3
         DEF SchedulerInv, TypeOK, CheckStatus, ControlInv, RunningIsCurrent,
             ScanIsWaiting, CurrentIsCreated, ArgIsCreated, Created
    <2> QED BY <2>3, <2>7, <2>8 DEF SchedulerInv, ControlInv
  <1>5. CASE CheckStatus /\ ~(status[tcb] = "RUNNING")
    <2>1. TypeOK'
      BY <1>5 DEF SchedulerInv, TypeOK, CheckStatus
    <2>2. QueueIntegrity'
      BY <1>5, QuietFacts DEF SchedulerInv, CheckStatus
    <2>3. ControlInv'
      BY <1>5
         DEF SchedulerInv, CheckStatus, ControlInv, RunningIsCurrent,
             ScanIsWaiting, CurrentIsCreated, ArgIsCreated, Created
    <2> QED BY <2>1, <2>2, <2>3 DEF SchedulerInv, ControlInv
  <1> QED BY <1>1, <1>2, <1>3, <1>4, <1>5

(* The tick interrupt.                                                     *)
LEMMA TickInv ==
    ASSUME SchedulerInv, mrb_tick \/ TickScan \/ TickEnd
    PROVE  SchedulerInv'
  <1> USE DEF At, Goto, Return, Pcs, OpPcs, taskVars, tickVars, loopVars
  <1>1. CASE mrb_tick
    <2>1. /\ HeadOrNull(Waiting) \in Tasks \cup {NoTask}
          /\ HeadOrNull(Waiting) # NoTask => status[HeadOrNull(Waiting)] = "WAITING"
      BY WaitingHead DEF SchedulerInv
    <2>2. tick' \in 0..(TickMod - 1) /\ wakeupTick' \in 0..(TickMod - 1)
      <3>1. tick + 1 \in Int /\ tick + 1 + ScanHorizon \in Int
        BY HorizonAssumption DEF SchedulerInv, TypeOK
      <3>2. (tick + 1) % TickMod \in 0..(TickMod - 1)
            /\ (tick + 1 + ScanHorizon) % TickMod \in 0..(TickMod - 1)
        BY <3>1, TickRange
      <3> QED BY <1>1, <3>2 DEF mrb_tick, SchedulerInv, TypeOK
    <2>4. timeslice' \in [Tasks -> 0..TimesliceTicks]
      <3> DEFINE h == HeadOrNull(Ready)
      <3>1. timeslice \in [Tasks -> 0..TimesliceTicks]
        BY DEF SchedulerInv, TypeOK
      <3>2. CASE h # NoTask /\ timeslice[h] > 0
        <4>1. h \in Tasks
          <5>1. Ready # <<>>
            BY <3>2 DEF HeadOrNull
          <5> QED BY <5>1, ReadyHead DEF SchedulerInv, Created
        <4>2. timeslice' = [timeslice EXCEPT ![h] = timeslice[h] - 1]
          BY <1>1, <3>2 DEF mrb_tick, Charged
        <4>3. timeslice[h] - 1 \in 0..TimesliceTicks
          <5> HIDE DEF h
          <5> QED BY <3>1, <3>2, <4>1, SliceAssumption
        <4> HIDE DEF h
        <4> QED BY <3>1, <4>2, <4>3
      <3>3. CASE ~(h # NoTask /\ timeslice[h] > 0)
        BY <1>1, <3>1, <3>3 DEF mrb_tick, Charged
      <3> QED BY <3>2, <3>3
    <2>3. QueueIntegrity'
      BY <1>1, QuietFacts DEF SchedulerInv, mrb_tick
    <2>5. switching' \in BOOLEAN
      BY <1>1 DEF mrb_tick, SchedulerInv, TypeOK
    <2>7. TypeOK'
      BY <1>1, <2>1, <2>2, <2>4, <2>5 DEF SchedulerInv, TypeOK, mrb_tick
    <2>8. ControlInv'
      BY <1>1, <2>1, <2>2, <2>4, <2>5
         DEF SchedulerInv, TypeOK, mrb_tick, ControlInv, RunningIsCurrent,
             ScanIsWaiting, CurrentIsCreated, ArgIsCreated, Created
    <2> QED BY <2>3, <2>7, <2>8 DEF SchedulerInv, ControlInv
  <1>2. CASE TickScan /\ reason[scan] = "SLEEP" /\ Before(wakeup[scan], tick)
    <2>1. scan \in Created /\ status[scan] = "WAITING" /\ scan \in Tasks
      BY <1>2 DEF SchedulerInv, ScanIsWaiting, Created, TypeOK, TickScan
    <2>2. MoveTask(scan, "READY")
      BY <1>2 DEF TickScan
    <2>3. /\ queues' \in [QueueNames -> Seq(Tasks)]
          /\ status' = [status EXCEPT ![scan] = "READY"]
          /\ status' \in [Tasks -> Statuses]
          /\ QueueIntegrity'
      BY <2>1, <2>2, MoveTaskFacts DEF SchedulerInv, Targetable
    <2>4. /\ NextIn(Waiting, scan) \in Tasks \cup {NoTask}
          /\ NextIn(Waiting, scan) # NoTask =>
                NextIn(Waiting, scan) # scan /\ status[NextIn(Waiting, scan)] = "WAITING"
      BY <2>1, WaitingNext DEF SchedulerInv
    <2>7. TypeOK'
      <3>1. /\ reason' \in [Tasks -> {"NONE", "SLEEP", "JOIN"}]
            /\ scan' \in Tasks \cup {NoTask} /\ woke' \in BOOLEAN
            /\ wakeupTick' = wakeupTick
        BY <1>2, <2>1, <2>4 DEF SchedulerInv, TypeOK, TickScan
      <3>2. UNCHANGED <<timeslice, wakeup, tick, switching, tcb, pc, arg, irq>>
            /\ UNCHANGED taskVars
        BY <1>2 DEF TickScan
      <3>3. queues' \in [QueueNames -> Seq(Tasks)] /\ status' \in [Tasks -> Statuses]
        BY <2>3
      <3>4. TypeOK
        BY DEF SchedulerInv
      <3> QED BY <3>1, <3>2, <3>3, <3>4 DEF TypeOK, taskVars
    <2>5. RunningIsCurrent'
      BY <1>2, <2>1, <2>3 DEF SchedulerInv, TypeOK, TickScan, RunningIsCurrent
    <2>6. ScanIsWaiting'
      BY <1>2, <2>1, <2>3, <2>4 DEF SchedulerInv, TypeOK, TickScan, ScanIsWaiting
    <2>8. CurrentIsCreated' /\ ArgIsCreated'
      BY <1>2, <2>1, <2>3
         DEF SchedulerInv, TypeOK, TickScan, CurrentIsCreated, ArgIsCreated, Created
    <2> QED BY <2>3, <2>5, <2>6, <2>7, <2>8 DEF SchedulerInv, ControlInv
  <1>3. CASE TickScan /\ ~(reason[scan] = "SLEEP" /\ Before(wakeup[scan], tick))
    <2>1. scan \in Created /\ status[scan] = "WAITING" /\ scan \in Tasks
      BY <1>3 DEF SchedulerInv, ScanIsWaiting, Created, TypeOK, TickScan
    <2>3. QueueIntegrity'
      BY <1>3, QuietFacts DEF SchedulerInv, TickScan
    <2>4. /\ NextIn(Waiting, scan) \in Tasks \cup {NoTask}
          /\ NextIn(Waiting, scan) # NoTask =>
                NextIn(Waiting, scan) # scan /\ status[NextIn(Waiting, scan)] = "WAITING"
      BY <2>1, WaitingNext DEF SchedulerInv
    <2>5. wakeup[scan] \in 0..(TickMod - 1) /\ wakeupTick \in 0..(TickMod - 1)
      BY <2>1 DEF SchedulerInv, TypeOK
    <2>6. wakeupTick' \in 0..(TickMod - 1) /\ UNCHANGED <<queues, status, reason, woke>>
      BY <1>3, <2>5 DEF TickScan, LaterScan
    <2>7. TypeOK'
      BY <1>3, <2>1, <2>4, <2>6 DEF SchedulerInv, TypeOK, TickScan
    <2>8. ControlInv'
      BY <1>3, <2>1, <2>4, <2>6
         DEF SchedulerInv, TypeOK, TickScan, ControlInv, RunningIsCurrent,
             ScanIsWaiting, CurrentIsCreated, ArgIsCreated, Created
    <2> QED BY <2>3, <2>7, <2>8 DEF SchedulerInv, ControlInv
  <1>4. CASE TickEnd
    <2>1. TypeOK'
      BY <1>4 DEF SchedulerInv, TypeOK, TickEnd
    <2>2. QueueIntegrity'
      BY <1>4, QuietFacts DEF SchedulerInv, TickEnd
    <2>3. ControlInv'
      BY <1>4
         DEF SchedulerInv, TickEnd, ControlInv, RunningIsCurrent,
             ScanIsWaiting, CurrentIsCreated, ArgIsCreated, Created
    <2> QED BY <2>1, <2>2, <2>3 DEF SchedulerInv, ControlInv
  <1> QED BY <1>1, <1>2, <1>3, <1>4

(* The walk over the waiting queue when a task ends.                       *)
LEMMA JoinersInv ==
    ASSUME SchedulerInv, WakeJoinersScan
    PROVE  SchedulerInv'
  <1> USE DEF At, Goto, Return, Pcs, OpPcs, taskVars, tickVars, loopVars
  <1>1. CASE WakeJoinersScan /\ JoinsDone(scan)
    <2>1. scan \in Created /\ status[scan] = "WAITING" /\ scan \in Tasks
      BY <1>1 DEF SchedulerInv, ScanIsWaiting, Created, TypeOK, WakeJoinersScan
    <2>2. MoveTask(scan, "READY")
      BY <1>1 DEF WakeJoinersScan
    <2>3. /\ queues' \in [QueueNames -> Seq(Tasks)]
          /\ status' = [status EXCEPT ![scan] = "READY"]
          /\ status' \in [Tasks -> Statuses]
          /\ QueueIntegrity'
      BY <2>1, <2>2, MoveTaskFacts DEF SchedulerInv, Targetable
    <2>4. /\ NextIn(Waiting, scan) \in Tasks \cup {NoTask}
          /\ NextIn(Waiting, scan) # NoTask =>
                NextIn(Waiting, scan) # scan /\ status[NextIn(Waiting, scan)] = "WAITING"
      BY <2>1, WaitingNext DEF SchedulerInv
    <2>5. reason' = [reason EXCEPT ![scan] = "NONE"]
      BY <1>1 DEF WakeJoinersScan
    <2>7. TypeOK'
      BY <1>1, <2>1, <2>3, <2>4, <2>5 DEF SchedulerInv, TypeOK, WakeJoinersScan
    <2>8. ControlInv'
      BY <1>1, <2>1, <2>3, <2>4, <2>5
         DEF SchedulerInv, TypeOK, WakeJoinersScan, ControlInv,
             RunningIsCurrent, ScanIsWaiting, CurrentIsCreated, ArgIsCreated,
             Created
    <2> QED BY <2>3, <2>7, <2>8 DEF SchedulerInv, ControlInv
  <1>2. CASE WakeJoinersScan /\ ~JoinsDone(scan)
    <2>1. scan \in Created /\ status[scan] = "WAITING" /\ scan \in Tasks
      BY <1>2 DEF SchedulerInv, ScanIsWaiting, Created, TypeOK, WakeJoinersScan
    <2>3. QueueIntegrity'
      BY <1>2, QuietFacts DEF SchedulerInv, WakeJoinersScan
    <2>4. /\ NextIn(Waiting, scan) \in Tasks \cup {NoTask}
          /\ NextIn(Waiting, scan) # NoTask =>
                NextIn(Waiting, scan) # scan /\ status[NextIn(Waiting, scan)] = "WAITING"
      BY <2>1, WaitingNext DEF SchedulerInv
    <2>7. TypeOK'
      BY <1>2, <2>1, <2>4 DEF SchedulerInv, TypeOK, WakeJoinersScan
    <2>8. ControlInv'
      BY <1>2, <2>1, <2>4
         DEF SchedulerInv, TypeOK, WakeJoinersScan, ControlInv,
             RunningIsCurrent, ScanIsWaiting, CurrentIsCreated, ArgIsCreated,
             Created
    <2> QED BY <2>3, <2>7, <2>8 DEF SchedulerInv, ControlInv
  <1> QED BY <1>1, <1>2

(* Every step of either thread of control preserves it.                    *)
LEMMA NextInv == SchedulerInv /\ [Next]_vars => SchedulerInv'
  <1> SUFFICES ASSUME SchedulerInv, [Next]_vars PROVE SchedulerInv'
    OBVIOUS
  <1>1. CASE Interrupt
    BY <1>1, TickInv DEF Interrupt
  <1>2. CASE Progress
    BY <1>2, LoopQuietInv, MethodQuietInv, MoveInv, WaitInv, CreateInv,
           JoinersInv
       DEF Progress
  <1>3. CASE Script
    BY <1>3, LoopQuietInv, MethodQuietInv, CreateInv DEF Script
  <1>4. CASE UNCHANGED vars
    <2>1. QueueIntegrity'
      BY <1>4, QuietFacts DEF vars, SchedulerInv
    <2> QED BY <1>4, <2>1
            DEF vars, SchedulerInv, TypeOK, RunningIsCurrent, ScanIsWaiting,
                CurrentIsCreated, ArgIsCreated, Created
  <1> QED BY <1>1, <1>2, <1>3, <1>4 DEF Next

----------------------------------------------------------------------------
(* The inductive invariant holds in every reachable state of task.c.       *)
THEOREM SchedulerInvariance == Spec => []SchedulerInv
  BY InitInv, NextInv, PTL DEF Spec

(* Every field keeps its type; the effective priority, in particular,      *)
(* stays within its byte whatever integer a script asks for.               *)
THEOREM TypeCorrect == Spec => []TypeOK
  <1>1. SchedulerInv => TypeOK
    BY DEF SchedulerInv
  <1> QED BY <1>1, SchedulerInvariance, PTL

(* A TCB is always linked once, in the queue its status selects, so the    *)
(* assertion in q_delete_task is never reached.                            *)
THEOREM QueuesConsistent == Spec => []QueueIntegrity
  <1>1. SchedulerInv => QueueIntegrity
    BY DEF SchedulerInv
  <1> QED BY <1>1, SchedulerInvariance, PTL

(* Only the task that mrb_tasks_run has picked is ever RUNNING.            *)
THEOREM OneRunningTask == Spec => []RunningIsCurrent
  <1>1. SchedulerInv => RunningIsCurrent
    BY DEF SchedulerInv
  <1> QED BY <1>1, SchedulerInvariance, PTL

----------------------------------------------------------------------------
(* The queues are sorted, as long as no script calls Task.pass.            *)

SortedBy(f, q) == \A i, j \in 1..Len(q) : i < j => f[q[i]] <= f[q[j]]

(* Unlinking a TCB keeps the order of the others.                          *)
LEMMA DeletedSorted ==
    ASSUME NEW q \in Seq(Tasks), NEW f, SortedBy(f, q), NEW i \in 1..Len(q)
    PROVE  SortedBy(f, DeletedAt(q, i))
  <1> DEFINE n == Len(q)
             d == DeletedAt(q, i)
  <1>1. n \in Nat /\ q \in [1..n -> Tasks] /\ i \in 1..n
    BY LenProperties
  <1>2. d \in [1..(n - 1) -> Tasks] /\ n - 1 \in Nat
    BY <1>1 DEF DeletedAt
  <1>3. Len(d) = n - 1
    BY <1>2, FunctionIsSeq
  <1>4. \A j \in 1..(n - 1) : d[j] = IF j < i THEN q[j] ELSE q[j + 1]
    BY DEF DeletedAt
  <1>5. \A a, b \in 1..n : a < b => f[q[a]] <= f[q[b]]
    BY DEF SortedBy
  <1> HIDE DEF n, d
  <1>6. ASSUME NEW j \in 1..(n - 1), NEW k \in 1..(n - 1), j < k
        PROVE  f[d[j]] <= f[d[k]]
    <2> DEFINE a == IF j < i THEN j ELSE j + 1
               b == IF k < i THEN k ELSE k + 1
    <2>1. a \in 1..n /\ b \in 1..n /\ a < b
      BY <1>1, <1>6
    <2>2. d[j] = q[a] /\ d[k] = q[b]
      BY <1>4
    <2> HIDE DEF a, b
    <2> QED BY <1>5, <2>1, <2>2
  <1>7. SortedBy(f, d)
    BY <1>3, <1>6 DEF SortedBy
  <1> QED BY <1>7 DEF d

(* So q_delete_task does.                                                  *)
LEMMA UnlinkedSorted ==
    ASSUME NEW q \in Seq(Tasks), NEW f, SortedBy(f, q), Distinct(q), NEW t \in Elems(q)
    PROVE  /\ Without(q, t) \in Seq(Tasks)
           /\ SortedBy(f, Without(q, t))
           /\ Elems(Without(q, t)) = Elems(q) \ {t}
  <1>1. \E j \in 1..Len(q) : q[j] = t
    BY DEF Elems
  <1>2. IndexIn(q, t) \in 1..Len(q)
    BY <1>1 DEF IndexIn
  <1>3. SortedBy(f, DeletedAt(q, IndexIn(q, t)))
    BY <1>2, DeletedSorted
  <1> QED BY <1>3, WithoutFacts DEF Without

(* A place that q_insert_task may choose for t.                            *)
PlaceFor(f, q, i, t) ==
    /\ i \in 1..(Len(q) + 1)
    /\ \A j \in 1..(i - 1) : ~(f[t] < f[q[j]])
    /\ i <= Len(q) => f[t] < f[q[i]]

(* There t is in order.                                                    *)
LEMMA InsertedSorted ==
    ASSUME NEW q \in Seq(Tasks), NEW f \in [Tasks -> 0..255], SortedBy(f, q),
           NEW t \in Tasks, NEW i, PlaceFor(f, q, i, t)
    PROVE  SortedBy(f, InsertedAt(q, i, t))
  <1> DEFINE n == Len(q)
             d == InsertedAt(q, i, t)
  <1>1. n \in Nat /\ q \in [1..n -> Tasks] /\ i \in 1..(n + 1)
    BY LenProperties DEF PlaceFor
  <1>2. d \in [1..(n + 1) -> Tasks] /\ n + 1 \in Nat
    BY <1>1 DEF InsertedAt
  <1>3. Len(d) = n + 1
    BY <1>2, FunctionIsSeq
  <1>4. \A j \in 1..(n + 1) :
           d[j] = IF j < i THEN q[j] ELSE IF j = i THEN t ELSE q[j - 1]
    BY DEF InsertedAt
  <1>5. \A a, b \in 1..n : a < b => f[q[a]] <= f[q[b]]
    BY DEF SortedBy
  <1>6. /\ \A j \in 1..(i - 1) : ~(f[t] < f[q[j]])
        /\ i <= n => f[t] < f[q[i]]
    BY DEF PlaceFor
  <1> HIDE DEF n, d
  <1>7. \A j \in 1..n : f[q[j]] \in 0..255
    BY <1>1
  <1>8. f[t] \in 0..255
    OBVIOUS
  <1>9. ASSUME NEW j \in 1..n, j < i PROVE f[q[j]] <= f[t]
    <2> DEFINE x == f[t]
               y == f[q[j]]
    <2>1. ~(x < y) /\ x \in 0..255 /\ y \in 0..255
      BY <1>1, <1>6, <1>7, <1>8, <1>9
    <2> HIDE DEF x, y
    <2>2. y <= x
      BY <2>1
    <2> QED BY <2>2 DEF x, y
  <1>10. ASSUME NEW j \in 1..n, i <= j PROVE f[t] <= f[q[j]]
    <2> DEFINE x == f[t]
               y == f[q[i]]
               z == f[q[j]]
    <2>1. i \in 1..n /\ x < y /\ x \in 0..255 /\ y \in 0..255 /\ z \in 0..255
      BY <1>1, <1>6, <1>7, <1>8, <1>10
    <2>2. i < j => y <= z
      BY <1>5, <2>1
    <2>3. i = j => y = z
      OBVIOUS
    <2> HIDE DEF x, y, z
    <2>4. y <= z
      BY <1>10, <2>1, <2>2, <2>3
    <2>5. x <= z
      BY <2>1, <2>4
    <2> QED BY <2>5 DEF x, z
  <1>11. ASSUME NEW j \in 1..(n + 1), NEW k \in 1..(n + 1), j < k
         PROVE  f[d[j]] <= f[d[k]]
    <2>1. CASE k < i
      <3>1. j \in 1..n /\ k \in 1..n /\ d[j] = q[j] /\ d[k] = q[k]
        BY <1>1, <1>4, <1>11, <2>1
      <3> QED BY <1>5, <1>11, <3>1
    <2>2. CASE k = i
      <3>1. j \in 1..n /\ j < i /\ d[j] = q[j] /\ d[k] = t
        BY <1>1, <1>4, <1>11, <2>2
      <3> QED BY <1>9, <3>1
    <2>3. CASE k > i /\ j < i
      <3>1. j \in 1..n /\ k - 1 \in 1..n /\ j < k - 1 /\ d[j] = q[j] /\ d[k] = q[k - 1]
        BY <1>1, <1>4, <1>11, <2>3
      <3> QED BY <1>5, <3>1
    <2>4. CASE k > i /\ j = i
      <3>1. k - 1 \in 1..n /\ i <= k - 1 /\ d[j] = t /\ d[k] = q[k - 1]
        BY <1>1, <1>4, <1>11, <2>4
      <3> QED BY <1>10, <3>1
    <2>5. CASE j > i
      <3>1. j - 1 \in 1..n /\ k - 1 \in 1..n /\ j - 1 < k - 1
            /\ d[j] = q[j - 1] /\ d[k] = q[k - 1]
        BY <1>1, <1>4, <1>11, <2>5
      <3> QED BY <1>5, <3>1
    <2> QED BY <1>1, <1>11, <2>1, <2>2, <2>3, <2>4, <2>5
  <1>12. SortedBy(f, d)
    BY <1>3, <1>11 DEF SortedBy
  <1> QED BY <1>12 DEF d

(* Moving a task keeps the queues sorted.                                  *)
LEMMA MoveSorted ==
    ASSUME SchedulerInv, SortedQueues, prio' = prio,
           NEW t \in Created, NEW s \in Targetable, MoveTask(t, s)
    PROVE  SortedQueues'
  <1> DEFINE a == conv_tbl(status[t])
             b == conv_tbl(s)
             mid == q_delete_task(queues, t, status[t])
             i == InsertPoint(mid[b], prio[t])
  <1>1. /\ t \in Tasks /\ status[t] \in Statuses /\ status[t] # "UNBORN"
        /\ s \in Statuses
    BY DEF Created, SchedulerInv, TypeOK, Targetable, Statuses
  <1>2. a \in QueueNames /\ b \in QueueNames
    BY <1>1, ConvTbl
  <1>3. /\ queues \in [QueueNames -> Seq(Tasks)] /\ prio \in [Tasks -> 0..255]
        /\ \A k \in QueueNames : SortedBy(prio, queues[k]) /\ Distinct(queues[k])
        /\ t \in Elems(queues[a])
    <2>1. /\ queues \in [QueueNames -> Seq(Tasks)] /\ prio \in [Tasks -> 0..255]
          /\ \A k \in QueueNames : SortedBy(prio, queues[k])
      BY DEF SchedulerInv, TypeOK, SortedQueues, SortedBy
    <2>2. \A k \in QueueNames : Distinct(queues[k])
      BY DEF SchedulerInv, QueueIntegrity, NoDuplicates, Distinct
    <2>3. t \in Elems(queues[a])
      BY <1>1, <1>2 DEF SchedulerInv, QueueIntegrity, QueueOfStatus
    <2> QED BY <2>1, <2>2, <2>3
  <1>4. mid = [queues EXCEPT ![a] = Without(queues[a], t)]
    BY DEF q_delete_task
  <1>5. Without(queues[a], t) \in Seq(Tasks) /\ SortedBy(prio, Without(queues[a], t))
    <2> HIDE DEF a
    <2> QED BY <1>2, <1>3, UnlinkedSorted
  <1> HIDE DEF a, mid
  <1>6. /\ mid \in [QueueNames -> Seq(Tasks)]
        /\ \A k \in QueueNames : SortedBy(prio, mid[k])
    BY <1>2, <1>3, <1>4, <1>5
  <1>7. queues' = [mid EXCEPT ![b] = InsertedAt(mid[b], i, t)]
    BY DEF MoveTask, q_insert_task, mid
  <1> HIDE DEF b
  <1>8. PlaceFor(prio, mid[b], i, t)
    <2>1. mid[b] \in Seq(Tasks) /\ prio[t] \in 0..255
      BY <1>1, <1>2, <1>3, <1>6
    <2> QED BY <1>3, <2>1, InsertPointFacts DEF PlaceFor
  <1> HIDE DEF i
  <1>9. SortedBy(prio, InsertedAt(mid[b], i, t))
    <2>1. mid[b] \in Seq(Tasks) /\ SortedBy(prio, mid[b])
      BY <1>2, <1>6
    <2> QED BY <1>1, <1>3, <1>8, <2>1, InsertedSorted
  <1>10. \A k \in QueueNames : SortedBy(prio, queues'[k])
    BY <1>2, <1>6, <1>7, <1>9
  <1> QED BY <1>10 DEF SortedQueues, SortedBy

(* So does creating one: its priority is new, and it was in no queue.      *)
LEMMA CreateSorted ==
    ASSUME SchedulerInv, SortedQueues, NEW t \in Tasks, NEW p \in Priorities,
           mrb_create_task(t, p)
    PROVE  SortedQueues'
  <1> DEFINE q == queues["ready"]
             i == InsertPoint(q, p % 256)
  <1>1. p % 256 \in 0..255
    BY PrioritiesAssumption
  <1>2. /\ queues \in [QueueNames -> Seq(Tasks)] /\ prio \in [Tasks -> 0..255]
        /\ \A k \in QueueNames : SortedBy(prio, queues[k])
        /\ "ready" \in QueueNames
    BY DEF SchedulerInv, TypeOK, SortedQueues, SortedBy, QueueNames
  <1>3. /\ prio' = [prio EXCEPT ![t] = p % 256] /\ status[t] = "UNBORN"
        /\ queues' = [queues EXCEPT !["ready"] = InsertedAt(q, i, t)]
    BY DEF mrb_create_task
  <1>4. prio' \in [Tasks -> 0..255] /\ prio'[t] = p % 256
        /\ \A u \in Tasks : u # t => prio'[u] = prio[u]
    BY <1>1, <1>2, <1>3
  <1>5. ASSUME NEW k \in QueueNames, NEW j \in 1..Len(queues[k])
        PROVE  queues[k][j] \in Tasks /\ queues[k][j] # t
    <2>1. queues[k][j] \in Tasks
      BY <1>2, ElementOfSeq
    <2>2. t \notin Elems(queues[k])
      BY <1>3 DEF SchedulerInv, QueueIntegrity, QueueOfStatus
    <2> QED BY <2>1, <2>2 DEF Elems
  <1>6. \A k \in QueueNames : SortedBy(prio', queues[k])
    BY <1>2, <1>4, <1>5 DEF SortedBy
  <1>7. PlaceFor(prio', q, i, t)
    <2>1. q \in Seq(Tasks)
      BY <1>2
    <2>2. \A j \in 1..Len(q) : prio'[q[j]] = prio[q[j]]
      BY <1>2, <1>4, <1>5
    <2>5. Len(q) \in Nat
      BY <2>1, LenProperties
    <2> HIDE DEF q
    <2>3. /\ i \in 1..(Len(q) + 1)
          /\ \A j \in 1..(i - 1) : ~(p % 256 < prio[q[j]])
          /\ i <= Len(q) => p % 256 < prio[q[i]]
      BY <1>1, <1>2, <2>1, InsertPointFacts
    <2> HIDE DEF i
    <2>4. \A j \in 1..(i - 1) : j \in 1..Len(q)
      BY <2>3, <2>5
    <2>6. i <= Len(q) => i \in 1..Len(q)
      BY <2>3, <2>5
    <2> QED BY <1>4, <2>2, <2>3, <2>4, <2>6 DEF PlaceFor
  <1> HIDE DEF i
  <1>8. SortedBy(prio', InsertedAt(q, i, t))
    <2>1. q \in Seq(Tasks) /\ SortedBy(prio', q)
      BY <1>2, <1>6
    <2> HIDE DEF q
    <2> QED BY <1>4, <1>7, <2>1, InsertedSorted
  <1>9. \A k \in QueueNames : SortedBy(prio', queues'[k])
    BY <1>2, <1>3, <1>6, <1>8
  <1> QED BY <1>9 DEF SortedQueues, SortedBy

(* No call of Task.pass is under way.                                      *)
NoPass == pc # "pass"

LEMMA NoPassStep ==
    ASSUME "pass" \notin Ops, NoPass, [Next]_vars
    PROVE  NoPass'
  <1> USE DEF At, Goto, Return, NoPass
  <1>1. CASE Interrupt \/ UNCHANGED vars
    BY <1>1 DEF Interrupt, mrb_tick, TickScan, TickEnd, vars
  <1>2. CASE BootRun \/ ExitTest \/ Pick \/ Mark \/ LoadTimeslice \/ VMYield
             \/ ClearSwitching \/ CheckStatus \/ Requeue \/ Retire
    BY <1>2 DEF BootRun, LoopStart, ExitTest, Pick, Mark, LoadTimeslice, VMYield,
                ClearSwitching, CheckStatus, Requeue, Retire
  <1>3. CASE WakeJoinersBegin \/ WakeJoinersScan \/ WakeJoinersEnd
    BY <1>3 DEF WakeJoinersBegin, WakeJoinersScan, WakeJoinersEnd, LoopStart
  <1>4. CASE SleepReadsHead \/ sleep_ms_impl \/ mrb_suspend_task \/ mrb_resume_task
             \/ ResumeCompare \/ ResumeStore \/ mrb_terminate_task \/ mrb_task_join
    BY <1>4 DEF SleepReadsHead, sleep_ms_impl, mrb_suspend_task, mrb_resume_task,
                ResumeCompare, ResumeStore, mrb_terminate_task, mrb_task_join
  <1>5. CASE mrb_task_s_pass \/ mrb_task_s_new \/ mrb_stop_task \/ mrb_task_reset_context
    BY <1>5 DEF mrb_task_s_pass, mrb_task_s_new, mrb_stop_task, mrb_task_reset_context
  <1>6. CASE BootCreate \/ VMFinish
    BY <1>6 DEF BootCreate, VMFinish
  <1>7. CASE Call
    BY <1>7 DEF Call
  <1> QED BY <1>1, <1>2, <1>3, <1>4, <1>5, <1>6, <1>7 DEF Next, Progress, Script

(* Steps that change neither the queues nor a priority.                    *)
LEMMA SortedKept ==
    ASSUME SortedQueues, UNCHANGED <<queues, prio>>
    PROVE  SortedQueues'
  BY DEF SortedQueues

LEMMA SortedStep ==
    ASSUME SchedulerInv, SortedQueues, NoPass, [Next]_vars
    PROVE  SortedQueues'
  <1> USE DEF taskVars, Targetable
  <1>1. CASE mrb_tick \/ TickEnd \/ UNCHANGED vars
    BY <1>1, SortedKept DEF mrb_tick, TickEnd, vars
  <1>2. CASE BootRun \/ ExitTest \/ Pick \/ Mark \/ LoadTimeslice \/ VMYield
             \/ ClearSwitching \/ CheckStatus \/ VMFinish \/ Call
    BY <1>2, SortedKept DEF BootRun, ExitTest, Pick, Mark, LoadTimeslice, VMYield,
                ClearSwitching, CheckStatus, VMFinish, Call
  <1>3. CASE WakeJoinersBegin \/ WakeJoinersEnd \/ SleepReadsHead \/ ResumeCompare
             \/ ResumeStore \/ mrb_stop_task \/ mrb_task_reset_context
    BY <1>3, SortedKept DEF WakeJoinersBegin, WakeJoinersEnd, SleepReadsHead, ResumeCompare,
                ResumeStore, mrb_stop_task, mrb_task_reset_context
  <1>4. CASE mrb_task_s_pass
    BY <1>4 DEF mrb_task_s_pass, At, NoPass
  <1>5. CASE TickScan
    <2>1. scan \in Created
      BY <1>5 DEF SchedulerInv, ScanIsWaiting, Created, TypeOK, TickScan
    <2>2. UNCHANGED <<queues, prio>> \/ (MoveTask(scan, "READY") /\ prio' = prio)
      BY <1>5 DEF TickScan
    <2> QED BY <2>1, <2>2, MoveSorted, SortedKept
  <1>6. CASE WakeJoinersScan
    <2>1. scan \in Created
      BY <1>6 DEF SchedulerInv, ScanIsWaiting, Created, TypeOK, WakeJoinersScan
    <2>2. UNCHANGED <<queues, prio>> \/ (MoveTask(scan, "READY") /\ prio' = prio)
      BY <1>6 DEF WakeJoinersScan
    <2> QED BY <2>1, <2>2, MoveSorted, SortedKept
  <1>7. CASE Retire \/ Requeue \/ mrb_task_join
    <2>1. tcb \in Created
      BY <1>7 DEF SchedulerInv, CurrentIsCreated, Retire, Requeue, mrb_task_join, At
    <2>2. \/ UNCHANGED <<queues, prio>>
          \/ prio' = prio /\ \E s \in Targetable : MoveTask(tcb, s)
      BY <1>7 DEF Retire, Requeue, mrb_task_join
    <2> QED BY <2>1, <2>2, MoveSorted, SortedKept
  <1>8. CASE sleep_ms_impl \/ mrb_suspend_task \/ mrb_resume_task \/ mrb_terminate_task
    <2>1. arg \in Created
      BY <1>8 DEF SchedulerInv, ArgIsCreated, OpPcs, sleep_ms_impl, mrb_suspend_task,
                  mrb_resume_task, mrb_terminate_task, At
    <2>2. \/ UNCHANGED <<queues, prio>>
          \/ prio' = prio /\ \E s \in Targetable : MoveTask(arg, s)
      <3>1. CASE sleep_ms_impl
        BY <3>1 DEF sleep_ms_impl
      <3>2. CASE mrb_suspend_task
        BY <3>2 DEF mrb_suspend_task
      <3>3. CASE mrb_resume_task
        BY <3>3 DEF mrb_resume_task
      <3>4. CASE mrb_terminate_task
        BY <3>4 DEF mrb_terminate_task
      <3> QED BY <1>8, <3>1, <3>2, <3>3, <3>4
    <2> QED BY <2>1, <2>2, MoveSorted, SortedKept
  <1>9. CASE BootCreate \/ mrb_task_s_new
    <2>1. \E t \in Tasks, p \in Priorities : mrb_create_task(t, p)
      BY <1>9 DEF BootCreate, mrb_task_s_new, SchedulerInv, ArgIsCreated, At
    <2> QED BY <2>1, CreateSorted
  <1> QED BY <1>1, <1>2, <1>3, <1>4, <1>5, <1>6, <1>7, <1>8, <1>9
       DEF Next, Interrupt, Progress, Script

(* As long as no script calls Task.pass, every queue is in the order of    *)
(* the priorities, as the comment of q_insert_task says: the head of the   *)
(* ready queue is a most urgent task, wherever the tick falls.             *)
THEOREM QueuesSorted ==
    ASSUME "pass" \notin Ops
    PROVE  Spec => []SortedQueues
  <1> DEFINE I == SortedQueues /\ NoPass
  <1>1. Init => I
    <2> SUFFICES ASSUME Init PROVE I
      OBVIOUS
    <2>1. \A k \in QueueNames : queues[k] = <<>>
      BY DEF Init
    <2>2. Len(<<>>) = 0
      BY EmptySeq
    <2> QED BY <2>1, <2>2 DEF Init, SortedQueues, NoPass
  <1>2. SchedulerInv /\ I /\ [Next]_vars => I'
    BY SortedStep, NoPassStep
  <1>3. I => SortedQueues
    OBVIOUS
  <1> HIDE DEF I
  <1> QED BY <1>1, <1>2, <1>3, SchedulerInvariance, PTL DEF Spec

----------------------------------------------------------------------------
(* Tasks of one priority take turns, as long as no script calls Task.pass. *)

(* Of two TCBs in a queue one is ahead of the other.                       *)
LEMMA AheadTotal ==
    ASSUME NEW q \in Seq(Tasks), NEW t \in Elems(q), NEW u \in Elems(q), t # u
    PROVE  Ahead(q, t, u) \/ Ahead(q, u, t)
  <1>1. PICK i \in 1..Len(q), j \in 1..Len(q) : q[i] = t /\ q[j] = u
    BY DEF Elems
  <1>2. i < j \/ j < i
    BY <1>1, LenProperties
  <1> QED BY <1>1, <1>2 DEF Ahead

(* Unlinking a third TCB leaves it so, ...                                 *)
LEMMA WithoutAhead ==
    ASSUME NEW q \in Seq(Tasks), NEW t, NEW u, Ahead(q, t, u),
           NEW x, x # t, x # u
    PROVE  Ahead(Without(q, x), t, u)
  <1>1. CASE x \notin Elems(q)
    BY <1>1 DEF Without
  <1>2. CASE x \in Elems(q)
    <2> DEFINE n == Len(q)
               i == IndexIn(q, x)
               d == DeletedAt(q, i)
    <2>1. i \in 1..n /\ q[i] = x
      BY <1>2 DEF Elems, IndexIn
    <2>2. n \in Nat /\ q \in [1..n -> Tasks]
      BY LenProperties
    <2>3. PICK a \in 1..n, b \in 1..n : a < b /\ q[a] = t /\ q[b] = u
      BY DEF Ahead
    <2>4. \A j \in 1..(n - 1) : d[j] = IF j < i THEN q[j] ELSE q[j + 1]
      BY DEF DeletedAt
    <2>5. d \in [1..(n - 1) -> Tasks] /\ n - 1 \in Nat
      BY <2>1, <2>2 DEF DeletedAt
    <2>6. Len(d) = n - 1
      BY <2>5, FunctionIsSeq
    <2>7. a # i /\ b # i
      BY <2>1, <2>3
    <2>8. Without(q, x) = d
      BY <1>2 DEF Without
    <2> HIDE DEF n, i, d
    <2> DEFINE c == IF a < i THEN a ELSE a - 1
               e == IF b < i THEN b ELSE b - 1
    <2>9. c \in 1..(n - 1) /\ e \in 1..(n - 1) /\ c < e
      BY <2>1, <2>2, <2>3, <2>7
    <2>10. d[c] = q[a]
      <3>1. c < i => c = a
        BY <2>1, <2>2, <2>3, <2>7
      <3>2. ~(c < i) => c + 1 = a
        BY <2>1, <2>2, <2>3, <2>7
      <3> HIDE DEF c
      <3> QED BY <2>4, <2>9, <3>1, <3>2
    <2>11. d[e] = q[b]
      <3>1. e < i => e = b
        BY <2>1, <2>2, <2>3, <2>7
      <3>2. ~(e < i) => e + 1 = b
        BY <2>1, <2>2, <2>3, <2>7
      <3> HIDE DEF e
      <3> QED BY <2>4, <2>9, <3>1, <3>2
    <2> HIDE DEF c, e
    <2> QED BY <2>3, <2>6, <2>8, <2>9, <2>10, <2>11 DEF Ahead
  <1> QED BY <1>1, <1>2

(* ... and so does linking one.                                            *)
LEMMA InsertedAhead ==
    ASSUME NEW q \in Seq(Tasks), NEW t, NEW u, Ahead(q, t, u),
           NEW x \in Tasks, NEW i \in 1..(Len(q) + 1)
    PROVE  Ahead(InsertedAt(q, i, x), t, u)
  <1> DEFINE n == Len(q)
             d == InsertedAt(q, i, x)
  <1>1. n \in Nat /\ q \in [1..n -> Tasks] /\ i \in 1..(n + 1)
    BY LenProperties
  <1>2. PICK a \in 1..n, b \in 1..n : a < b /\ q[a] = t /\ q[b] = u
    BY DEF Ahead
  <1>3. \A j \in 1..(n + 1) :
           d[j] = IF j < i THEN q[j] ELSE IF j = i THEN x ELSE q[j - 1]
    BY DEF InsertedAt
  <1>4. d \in [1..(n + 1) -> Tasks] /\ n + 1 \in Nat
    BY <1>1 DEF InsertedAt
  <1>5. Len(d) = n + 1
    BY <1>4, FunctionIsSeq
  <1> HIDE DEF n, d
  <1> DEFINE c == IF a < i THEN a ELSE a + 1
             e == IF b < i THEN b ELSE b + 1
  <1>6. c \in 1..(n + 1) /\ e \in 1..(n + 1) /\ c < e
    BY <1>1, <1>2
  <1>7. d[c] = q[a]
    <2>1. (c < i => c = a) /\ c # i /\ (~(c < i) => c - 1 = a)
      BY <1>1, <1>2
    <2> HIDE DEF c
    <2> QED BY <1>3, <1>6, <2>1
  <1>8. d[e] = q[b]
    <2>1. (e < i => e = b) /\ e # i /\ (~(e < i) => e - 1 = b)
      BY <1>1, <1>2
    <2> HIDE DEF e
    <2> QED BY <1>3, <1>6, <2>1
  <1> HIDE DEF c, e
  <1>9. Ahead(d, t, u)
    BY <1>2, <1>5, <1>6, <1>7, <1>8 DEF Ahead
  <1> QED BY <1>9 DEF d

(* q_insert_task puts u behind every task of a sorted queue that is at     *)
(* least as urgent.                                                        *)
LEMMA InsertedBehind ==
    ASSUME NEW q \in Seq(Tasks), NEW f \in [Tasks -> 0..255], SortedBy(f, q),
           NEW u \in Tasks, NEW i, PlaceFor(f, q, i, u),
           NEW t \in Elems(q), f[t] <= f[u]
    PROVE  Ahead(InsertedAt(q, i, u), t, u)
  <1> DEFINE n == Len(q)
             d == InsertedAt(q, i, u)
  <1>1. n \in Nat /\ q \in [1..n -> Tasks] /\ i \in 1..(n + 1)
    BY LenProperties DEF PlaceFor
  <1>2. PICK k \in 1..n : q[k] = t
    BY DEF Elems
  <1>3. \A j \in 1..(n + 1) :
           d[j] = IF j < i THEN q[j] ELSE IF j = i THEN u ELSE q[j - 1]
    BY DEF InsertedAt
  <1>4. d \in [1..(n + 1) -> Tasks] /\ n + 1 \in Nat
    BY <1>1 DEF InsertedAt
  <1>5. Len(d) = n + 1
    BY <1>4, FunctionIsSeq
  <1>6. ASSUME i <= k PROVE FALSE
    <2> DEFINE w == f[u]
               y == f[q[i]]
               z == f[t]
    <2>1. i \in 1..n /\ w < y
      BY <1>1, <1>2, <1>6 DEF PlaceFor
    <2>2. y <= z
      <3>1. i < k => y <= z
        BY <1>2, <2>1 DEF SortedBy
      <3>2. i = k => y = z
        BY <1>2
      <3>3. y \in 0..255 /\ z \in 0..255
        BY <1>1, <1>2, <2>1
      <3>4. i < k \/ i = k
        BY <1>1, <1>2, <1>6
      <3> HIDE DEF y, z
      <3> QED BY <3>1, <3>2, <3>3, <3>4
    <2>3. w \in 0..255 /\ y \in 0..255 /\ z \in 0..255 /\ z <= w
      BY <1>1, <1>2, <2>1
    <2> HIDE DEF w, y, z
    <2> QED BY <2>1, <2>2, <2>3
  <1>7. k < i
    BY <1>1, <1>2, <1>6
  <1>8. k \in 1..(n + 1) /\ i \in 1..(n + 1) /\ d[k] = t /\ d[i] = u
    BY <1>1, <1>2, <1>3, <1>7
  <1> HIDE DEF d, n
  <1>9. Ahead(d, t, u)
    BY <1>5, <1>7, <1>8 DEF Ahead
  <1> QED BY <1>9 DEF d

(* Moving a task keeps the turns, unless it moves within the ready queue.  *)
LEMMA MoveKeepsTurns ==
    ASSUME SchedulerInv, SortedQueues, prio' = prio,
           NEW m \in Created, NEW s \in Targetable, MoveTask(m, s),
           \/ s # "READY"
           \/ status[m] \notin {"READY", "RUNNING"}
           \/ pc = "requeue" /\ m = tcb
    PROVE  KeepsTurns
  <1> DEFINE a == conv_tbl(status[m])
             b == conv_tbl(s)
             mid == q_delete_task(queues, m, status[m])
             i == InsertPoint(mid["ready"], prio[m])
  <1>1. /\ m \in Tasks /\ status[m] \in Statuses /\ status[m] # "UNBORN"
        /\ s \in Statuses /\ "ready" \in QueueNames
    BY DEF Created, SchedulerInv, TypeOK, Targetable, Statuses, QueueNames
  <1>2. a \in QueueNames /\ b \in QueueNames /\ (b = "ready" => s = "READY")
    BY <1>1, ConvTbl DEF conv_tbl, Targetable
  <1>3. /\ queues \in [QueueNames -> Seq(Tasks)] /\ prio \in [Tasks -> 0..255]
        /\ \A k \in QueueNames : SortedBy(prio, queues[k]) /\ Distinct(queues[k])
        /\ \A k \in QueueNames : m \in Elems(queues[k]) <=> k = a
    BY <1>1 DEF SchedulerInv, TypeOK, SortedQueues, SortedBy, QueueIntegrity,
                NoDuplicates, QueueOfStatus, Distinct
  <1>4. mid = [queues EXCEPT ![a] = Without(queues[a], m)]
    BY DEF q_delete_task
  <1>5. queues' = [mid EXCEPT ![b] = InsertedAt(mid[b], InsertPoint(mid[b], prio[m]), m)]
    BY DEF MoveTask, q_insert_task
  <1>6. a # "ready" \/ s # "READY" \/ (pc = "requeue" /\ m = tcb)
    BY <1>1 DEF conv_tbl
  <1> HIDE DEF a, b, mid
  <1>7. /\ Without(queues[a], m) \in Seq(Tasks)
        /\ SortedBy(prio, Without(queues[a], m))
        /\ Elems(Without(queues[a], m)) = Elems(queues[a]) \ {m}
    BY <1>2, <1>3, UnlinkedSorted
  <1>8. /\ mid \in [QueueNames -> Seq(Tasks)]
        /\ mid["ready"] \in Seq(Tasks) /\ SortedBy(prio, mid["ready"])
        /\ Elems(mid["ready"]) = Elems(Ready) \ {m}
        /\ mid["ready"] = IF a = "ready" THEN Without(Ready, m) ELSE Ready
    BY <1>1, <1>2, <1>3, <1>4, <1>7 DEF Ready
  <1>9. Ready' = IF b = "ready" THEN InsertedAt(mid["ready"], i, m) ELSE mid["ready"]
    BY <1>1, <1>2, <1>5, <1>8 DEF Ready
  <1>10. PlaceFor(prio, mid["ready"], i, m)
    BY <1>1, <1>3, <1>8, InsertPointFacts DEF PlaceFor
  <1> HIDE DEF i
  <1>11. i \in 1..(Len(mid["ready"]) + 1)
    BY <1>10 DEF PlaceFor
  <1> SUFFICES ASSUME NEW t \in Elems(Ready'), NEW u \in Elems(Ready'),
                      t # u, t \in Elems(Ready), ~Ahead(Ready, u, t),
                      prio[t] <= prio'[u], ~(pc = "requeue" /\ t = tcb)
               PROVE  Ahead(Ready', t, u)
    BY DEF KeepsTurns
  <1>12. /\ Elems(Ready') = IF b = "ready" THEN Elems(mid["ready"]) \cup {m}
                            ELSE Elems(mid["ready"])
    <2>1. Distinct(mid["ready"])
      BY <1>1, <1>2, <1>3, <1>8, WithoutFacts DEF Ready
    <2>2. m \notin Elems(mid["ready"])
      BY <1>8
    <2> DEFINE q == mid["ready"]
    <2>3. q \in Seq(Tasks) /\ Distinct(q) /\ m \notin Elems(q) /\ i \in 1..(Len(q) + 1)
      BY <1>8, <1>11, <2>1, <2>2
    <2> HIDE DEF q
    <2>4. Elems(InsertedAt(q, i, m)) = Elems(q) \cup {m}
      BY <1>1, <2>3, InsertedAtFacts
    <2> QED BY <1>9, <2>4 DEF q
  <1>13. t # m
    <2> SUFFICES ASSUME t = m PROVE FALSE
      OBVIOUS
    <2>1. b = "ready"
      BY <1>8, <1>12
    <2>2. a = "ready"
      BY <1>1, <1>3 DEF Ready
    <2> QED BY <1>2, <1>6, <2>1, <2>2
  <1>14. t \in Elems(mid["ready"])
    BY <1>8, <1>13
  <1>15. CASE u = m
    <2>1. b = "ready"
      BY <1>8, <1>12, <1>15
    <2>2. Ahead(InsertedAt(mid["ready"], i, m), t, m)
      <3>1. prio[t] <= prio[m]
        BY <1>15
      <3> QED BY <1>1, <1>3, <1>8, <1>10, <1>14, <3>1, InsertedBehind
    <2> QED BY <1>9, <1>15, <2>1, <2>2
  <1>16. CASE u # m
    <2>1. u \in Elems(Ready) /\ Ready \in Seq(Tasks)
      BY <1>1, <1>3, <1>8, <1>12, <1>16 DEF Ready
    <2>2. Ahead(Ready, t, u)
      BY <2>1, AheadTotal
    <2>3. Ahead(mid["ready"], t, u)
      BY <1>8, <1>13, <1>16, <2>1, <2>2, WithoutAhead
    <2>4. Ahead(InsertedAt(mid["ready"], i, m), t, u)
      BY <1>1, <1>8, <1>11, <2>3, InsertedAhead
    <2> QED BY <1>9, <2>3, <2>4
  <1> QED BY <1>15, <1>16

(* Creating a task keeps the turns: it goes behind those of its priority.  *)
LEMMA CreateKeepsTurns ==
    ASSUME SchedulerInv, SortedQueues, NEW m \in Tasks, NEW p \in Priorities,
           mrb_create_task(m, p)
    PROVE  KeepsTurns
  <1> DEFINE q == queues["ready"]
             i == InsertPoint(q, p % 256)
  <1>1. p % 256 \in 0..255
    BY PrioritiesAssumption
  <1>2. /\ q \in Seq(Tasks) /\ prio \in [Tasks -> 0..255]
        /\ SortedBy(prio, q) /\ Distinct(q) /\ Ready = q
    BY DEF SchedulerInv, TypeOK, SortedQueues, SortedBy, QueueNames, QueueIntegrity,
           NoDuplicates, Distinct, Ready
  <1>3. /\ prio' = [prio EXCEPT ![m] = p % 256] /\ status[m] = "UNBORN"
        /\ Ready' = InsertedAt(q, i, m)
    BY DEF mrb_create_task, Ready, SchedulerInv, TypeOK, QueueNames
  <1>4. m \notin Elems(q)
    BY <1>3 DEF SchedulerInv, QueueIntegrity, QueueOfStatus, QueueNames
  <1> HIDE DEF q
  <1>5. /\ prio' \in [Tasks -> 0..255] /\ prio'[m] = p % 256
        /\ \A j \in 1..Len(q) : prio'[q[j]] = prio[q[j]]
        /\ \A t \in Elems(q) : t \in Tasks /\ prio'[t] = prio[t]
    <2>1. \A j \in 1..Len(q) : q[j] \in Tasks /\ q[j] # m
      BY <1>2, <1>4, ElementOfSeq DEF Elems
    <2> QED BY <1>1, <1>2, <1>3, <2>1 DEF Elems
  <1>6. SortedBy(prio', q)
    BY <1>2, <1>5 DEF SortedBy
  <1>7. /\ i \in 1..(Len(q) + 1)
        /\ \A j \in 1..(i - 1) : ~(p % 256 < prio[q[j]])
        /\ i <= Len(q) => p % 256 < prio[q[i]]
    <2> DEFINE v == p % 256
    <2>1. v \in 0..255
      BY <1>1
    <2> HIDE DEF v
    <2>2. /\ InsertPoint(q, v) \in 1..(Len(q) + 1)
          /\ \A j \in 1..(InsertPoint(q, v) - 1) : ~(v < prio[q[j]])
          /\ InsertPoint(q, v) <= Len(q) => v < prio[q[InsertPoint(q, v)]]
      BY <1>2, <2>1, InsertPointFacts
    <2> QED BY <2>2 DEF v
  <1> HIDE DEF i
  <1>8. PlaceFor(prio', q, i, m)
    <2>1. Len(q) \in Nat
      BY <1>2, LenProperties
    <2>2. /\ \A j \in 1..(i - 1) : j \in 1..Len(q)
          /\ i <= Len(q) => i \in 1..Len(q)
      BY <1>7, <2>1
    <2> QED BY <1>5, <1>7, <2>2 DEF PlaceFor
  <1>9. Elems(Ready') = Elems(q) \cup {m}
    BY <1>2, <1>3, <1>4, <1>7, InsertedAtFacts
  <1> SUFFICES ASSUME NEW t \in Elems(Ready'), NEW u \in Elems(Ready'),
                      t # u, t \in Elems(Ready), ~Ahead(Ready, u, t),
                      prio[t] <= prio'[u]
               PROVE  Ahead(Ready', t, u)
    BY DEF KeepsTurns
  <1>10. CASE u = m
    <2>1. t \in Elems(q) /\ prio'[t] <= prio'[m]
      BY <1>2, <1>5, <1>10
    <2>2. Ahead(InsertedAt(q, i, m), t, m)
      BY <1>2, <1>5, <1>6, <1>8, <2>1, InsertedBehind
    <2> QED BY <1>3, <1>10, <2>2
  <1>11. CASE u # m
    <2>1. t \in Elems(q) /\ u \in Elems(q)
      BY <1>2, <1>9, <1>11
    <2>2. Ahead(q, t, u)
      BY <1>2, <2>1, AheadTotal
    <2> QED BY <1>2, <1>3, <1>7, <2>2, InsertedAhead
  <1> QED BY <1>10, <1>11

(* So does a step that leaves the queues alone.                            *)
LEMMA TurnsKept ==
    ASSUME SchedulerInv, UNCHANGED queues
    PROVE  KeepsTurns
  <1>1. Ready \in Seq(Tasks) /\ Ready' = Ready
    BY DEF SchedulerInv, TypeOK, QueueNames, Ready
  <1> QED BY <1>1, AheadTotal DEF KeepsTurns

LEMMA TurnsStep ==
    ASSUME SchedulerInv, SortedQueues, [Next]_vars
    PROVE  [KeepsTurns]_vars
  <1> USE DEF taskVars, Targetable
  <1>1. CASE mrb_tick \/ TickEnd \/ UNCHANGED vars
    BY <1>1, TurnsKept DEF mrb_tick, TickEnd, vars
  <1>2. CASE BootRun \/ ExitTest \/ Pick \/ Mark \/ LoadTimeslice \/ VMYield
             \/ ClearSwitching \/ CheckStatus \/ VMFinish \/ Call
    BY <1>2, TurnsKept DEF BootRun, ExitTest, Pick, Mark, LoadTimeslice, VMYield,
                ClearSwitching, CheckStatus, VMFinish, Call
  <1>3. CASE WakeJoinersBegin \/ WakeJoinersEnd \/ SleepReadsHead \/ ResumeCompare
             \/ ResumeStore \/ mrb_task_s_pass \/ mrb_stop_task \/ mrb_task_reset_context
    BY <1>3, TurnsKept DEF WakeJoinersBegin, WakeJoinersEnd, SleepReadsHead, ResumeCompare,
                ResumeStore, mrb_task_s_pass, mrb_stop_task, mrb_task_reset_context
  <1>4. CASE TickScan \/ WakeJoinersScan
    <2>1. scan \in Created /\ status[scan] = "WAITING"
      BY <1>4 DEF SchedulerInv, ScanIsWaiting, Created, TypeOK, TickScan, WakeJoinersScan
    <2>2. UNCHANGED queues \/ (MoveTask(scan, "READY") /\ prio' = prio)
      BY <1>4 DEF TickScan, WakeJoinersScan
    <2> QED BY <2>1, <2>2, MoveKeepsTurns, TurnsKept
  <1>5. CASE Requeue
    <2>1. tcb \in Created /\ pc = "requeue"
      BY <1>5 DEF SchedulerInv, CurrentIsCreated, Requeue, At
    <2>2. MoveTask(tcb, "READY") /\ prio' = prio
      BY <1>5 DEF Requeue
    <2> QED BY <2>1, <2>2, MoveKeepsTurns
  <1>6. CASE Retire \/ mrb_task_join
    <2>1. tcb \in Created
      BY <1>6 DEF SchedulerInv, CurrentIsCreated, Retire, mrb_task_join, At
    <2>2. \/ UNCHANGED queues
          \/ prio' = prio /\ \E s \in Targetable : s # "READY" /\ MoveTask(tcb, s)
      BY <1>6 DEF Retire, mrb_task_join
    <2> QED BY <2>1, <2>2, MoveKeepsTurns, TurnsKept
  <1>7. CASE sleep_ms_impl \/ mrb_suspend_task \/ mrb_resume_task \/ mrb_terminate_task
    <2>1. arg \in Created
      BY <1>7 DEF SchedulerInv, ArgIsCreated, OpPcs, sleep_ms_impl, mrb_suspend_task,
                  mrb_resume_task, mrb_terminate_task, At
    <2>2. \/ UNCHANGED queues
          \/ /\ prio' = prio
             /\ \E s \in Targetable :
                   (s # "READY" \/ status[arg] = "SUSPENDED") /\ MoveTask(arg, s)
      <3>1. CASE sleep_ms_impl
        BY <3>1 DEF sleep_ms_impl
      <3>2. CASE mrb_suspend_task
        BY <3>2 DEF mrb_suspend_task
      <3>3. CASE mrb_resume_task
        BY <3>3 DEF mrb_resume_task
      <3>4. CASE mrb_terminate_task
        BY <3>4 DEF mrb_terminate_task
      <3> QED BY <1>7, <3>1, <3>2, <3>3, <3>4
    <2> QED BY <2>1, <2>2, MoveKeepsTurns, TurnsKept
  <1>8. CASE BootCreate \/ mrb_task_s_new
    <2>1. \E t \in Tasks, p \in Priorities : mrb_create_task(t, p)
      BY <1>8 DEF BootCreate, mrb_task_s_new, SchedulerInv, ArgIsCreated, At
    <2> QED BY <2>1, CreateKeepsTurns
  <1> QED BY <1>1, <1>2, <1>3, <1>4, <1>5, <1>6, <1>7, <1>8
       DEF Next, Interrupt, Progress, Script

(* As long as no script calls Task.pass, no task in the ready queue is     *)
(* overtaken by one that is not more urgent: a task that is woken, resumed *)
(* or created is put behind all those of its priority, wherever the tick   *)
(* falls, and only the task that has had the CPU goes back to their end.   *)
THEOREM TasksTakeTurns ==
    ASSUME "pass" \notin Ops
    PROVE  Spec => NoOvertaking
  <1>1. SchedulerInv /\ SortedQueues /\ [Next]_vars => [KeepsTurns]_vars
    BY TurnsStep
  <1> QED BY <1>1, SchedulerInvariance, QueuesSorted, PTL DEF Spec, NoOvertaking

----------------------------------------------------------------------------
(* What the exit test has found is still so when it has read the last of   *)
(* the three queues: the tick takes tasks out of the waiting queue and     *)
(* puts them into the ready queue, never the other way, and it moves       *)
(* sleepers only.                                                          *)

NoSleepers ==
    /\ \A t \in Tasks : reason[t] # "SLEEP"
    /\ pc \notin {"sleep", "sleep_commit"}
    /\ pc \in {"exit_waiting", "exit_suspended", "exit"} =>
          \A t \in Tasks : status[t] # "READY"

ExitInv ==
    /\ pc \in {"exit_suspended", "exit"} => \A t \in Tasks : status[t] # "WAITING"
    /\ pc = "exit" => \A t \in Tasks : status[t] # "SUSPENDED"
    /\ "sleep" \notin Ops => NoSleepers

(* An empty queue means that no task has its status.                       *)
LEMMA EmptyQueue ==
    ASSUME QueueIntegrity, NEW t \in Tasks, NEW s \in {"READY", "WAITING", "SUSPENDED"},
           queues[conv_tbl(s)] = <<>>
    PROVE  status[t] # s
  <1>1. Elems(<<>>) = {}
    BY EmptySeq DEF Elems
  <1>2. conv_tbl(s) \in QueueNames
    BY DEF conv_tbl, QueueNames
  <1> QED BY <1>1, <1>2 DEF QueueIntegrity, QueueOfStatus

LEMMA ExitTestStep ==
    ASSUME SchedulerInv, ExitInv, ExitTest
    PROVE  ExitInv'
  <1> USE DEF At, Goto
  <1>0. UNCHANGED <<status, reason>> /\ QueueIntegrity
    BY DEF ExitTest, SchedulerInv
  <1>1. CASE pc = "exit_ready"
    <2>1. pc' = "exit_waiting" => \A t \in Tasks : status[t] # "READY"
      <3>1. pc' = "exit_waiting" => queues[conv_tbl("READY")] = <<>>
        BY <1>1 DEF ExitTest, Ready, conv_tbl
      <3> QED BY <1>0, <3>1, EmptyQueue
    <2>2. pc' \in {"pick", "exit_waiting"}
      BY <1>1 DEF ExitTest
    <2> QED BY <1>0, <2>1, <2>2 DEF ExitInv, NoSleepers
  <1>2. CASE pc = "exit_waiting"
    <2>1. pc' = "exit_suspended" => \A t \in Tasks : status[t] # "WAITING"
      <3>1. pc' = "exit_suspended" => queues[conv_tbl("WAITING")] = <<>>
        BY <1>2 DEF ExitTest, Waiting, conv_tbl
      <3> QED BY <1>0, <3>1, EmptyQueue
    <2>2. pc' \in {"pick", "exit_suspended"}
      BY <1>2 DEF ExitTest
    <2> QED BY <1>0, <1>2, <2>1, <2>2 DEF ExitInv, NoSleepers
  <1>3. CASE pc = "exit_suspended"
    <2>1. pc' = "exit" => \A t \in Tasks : status[t] # "SUSPENDED"
      <3>1. pc' = "exit" => queues[conv_tbl("SUSPENDED")] = <<>>
        BY <1>3 DEF ExitTest, SuspendedLeft, Suspended, conv_tbl
      <3> QED BY <1>0, <3>1, EmptyQueue
    <2>2. pc' \in {"pick", "exit"}
      BY <1>3 DEF ExitTest
    <2> QED BY <1>0, <1>3, <2>1, <2>2 DEF ExitInv, NoSleepers
  <1> QED BY <1>1, <1>2, <1>3 DEF ExitTest

LEMMA ExitInterruptStep ==
    ASSUME SchedulerInv, ExitInv, Interrupt \/ UNCHANGED vars
    PROVE  ExitInv'
  <1>1. CASE mrb_tick \/ TickEnd \/ UNCHANGED vars
    <2>1. UNCHANGED <<status, reason, pc>>
      BY <1>1 DEF mrb_tick, TickEnd, vars
    <2> QED BY <2>1 DEF ExitInv, NoSleepers
  <1>2. CASE TickScan
    <2>1. scan \in Tasks /\ status[scan] = "WAITING" /\ status \in [Tasks -> Statuses]
          /\ reason \in [Tasks -> {"NONE", "SLEEP", "JOIN"}]
      BY <1>2 DEF SchedulerInv, ScanIsWaiting, TypeOK, TickScan
    <2>2. pc' = pc /\ pc \notin {"exit_suspended", "exit"}
      BY <1>2, <2>1 DEF TickScan, ExitInv
    <2>3. ASSUME "sleep" \notin Ops PROVE UNCHANGED <<status, reason>>
      BY <1>2, <2>1, <2>3 DEF TickScan, ExitInv, NoSleepers
    <2> QED BY <2>2, <2>3 DEF ExitInv, NoSleepers
  <1> QED BY <1>1, <1>2 DEF Interrupt

(* The other steps lead nowhere near the exit.                             *)
LEMMA ExitMainStep ==
    ASSUME SchedulerInv, ExitInv, Next, ~Interrupt, ~ExitTest
    PROVE  ExitInv'
  <1> USE DEF At, Goto, Return
  <1>1. ASSUME pc' \notin {"exit_waiting", "exit_suspended", "exit"},
               "sleep" \notin Ops =>
                  /\ \A t \in Tasks : reason'[t] # "SLEEP"
                  /\ pc' \notin {"sleep", "sleep_commit"}
        PROVE  ExitInv'
    BY <1>1 DEF ExitInv, NoSleepers
  <1>2. CASE BootRun \/ Pick \/ Mark \/ LoadTimeslice \/ VMYield \/ VMFinish
             \/ ClearSwitching \/ CheckStatus \/ Requeue \/ Retire
             \/ WakeJoinersBegin
    <2>1. pc' \notin {"exit_waiting", "exit_suspended", "exit", "sleep", "sleep_commit"}
          /\ reason' = reason
      BY <1>2 DEF BootRun, LoopStart, Pick, Mark, LoadTimeslice, VMYield, VMFinish,
                  ClearSwitching, CheckStatus, Requeue, Retire, WakeJoinersBegin
    <2> QED BY <1>1, <2>1 DEF ExitInv, NoSleepers
  <1>3. CASE WakeJoinersScan \/ WakeJoinersEnd
    <2>1. pc' \notin {"exit_waiting", "exit_suspended", "exit", "sleep", "sleep_commit"}
      BY <1>3 DEF WakeJoinersScan, WakeJoinersEnd, LoopStart, SchedulerInv, ScanIsWaiting
    <2>2. \A t \in Tasks : reason'[t] \in {reason[t], "NONE"}
      <3>1. scan # NoTask => scan \in Tasks
        BY DEF SchedulerInv, TypeOK
      <3> QED BY <1>3, <3>1 DEF WakeJoinersScan, WakeJoinersEnd, SchedulerInv, TypeOK
    <2> QED BY <1>1, <2>1, <2>2 DEF ExitInv, NoSleepers
  <1>4. CASE mrb_suspend_task \/ mrb_resume_task \/ ResumeCompare \/ ResumeStore
             \/ mrb_terminate_task \/ mrb_task_s_pass \/ mrb_task_s_new
             \/ mrb_stop_task \/ mrb_task_reset_context
    <2>1. pc' \notin {"exit_waiting", "exit_suspended", "exit", "sleep", "sleep_commit"}
          /\ reason' = reason
      BY <1>4 DEF mrb_suspend_task, mrb_resume_task, ResumeCompare, ResumeStore,
                  mrb_terminate_task, mrb_task_s_pass, mrb_task_s_new, mrb_create_task,
                  mrb_stop_task, mrb_task_reset_context
    <2> QED BY <1>1, <2>1 DEF ExitInv, NoSleepers
  <1>5. CASE SleepReadsHead
    <2>1. pc' \notin {"exit_waiting", "exit_suspended", "exit", "sleep"}
          /\ (pc' = "sleep_commit" => pc = "sleep") /\ reason' = reason
      BY <1>5 DEF SleepReadsHead
    <2> QED BY <1>1, <2>1 DEF ExitInv, NoSleepers
  <1>6. CASE sleep_ms_impl
    <2>1. pc = "sleep_commit" /\ pc' = "exec"
      BY <1>6 DEF sleep_ms_impl
    <2> QED BY <1>1, <2>1 DEF ExitInv, NoSleepers
  <1>7. CASE mrb_task_join
    <2>1. pc' = "exec" /\ \A t \in Tasks : reason'[t] \in {reason[t], "JOIN"}
      BY <1>7 DEF mrb_task_join, SchedulerInv, TypeOK
    <2> QED BY <1>1, <2>1 DEF ExitInv, NoSleepers
  <1>8. CASE BootCreate
    <2>1. pc' = "boot" /\ reason' = reason
      BY <1>8 DEF BootCreate, mrb_create_task
    <2> QED BY <1>1, <2>1 DEF ExitInv, NoSleepers
  <1>9. CASE Call
    <2>1. pc' \in Ops \cup {"terminate"} /\ reason' = reason
      BY <1>9 DEF Call
    <2>2. pc' \in AllOps /\ ("sleep" \notin Ops => pc' # "sleep")
      BY <2>1, OpsAssumption DEF AllOps
    <2> QED BY <1>1, <2>1, <2>2 DEF ExitInv, NoSleepers, AllOps
  <1> QED BY <1>2, <1>3, <1>4, <1>5, <1>6, <1>7, <1>8, <1>9 DEF Next, Progress, Script

(* When mrb_tasks_run returns every task has ended; only a sleeper that    *)
(* the tick woke after the ready queue was found empty may be left over,   *)
(* and where no script sleeps there is none.                               *)
THEOREM ReturnsWhenDone == Spec => []ExitIsLast
  <1>1. Init => ExitInv
    BY DEF Init, ExitInv, NoSleepers
  <1>2. SchedulerInv /\ ExitInv /\ [Next]_vars => ExitInv'
    BY ExitTestStep, ExitInterruptStep, ExitMainStep
  <1>3. SchedulerInv /\ ExitInv => ExitIsLast
    <2> SUFFICES ASSUME SchedulerInv, ExitInv, pc = "exit", NEW t \in Created
                 PROVE  status[t] = "DORMANT" \/ (status[t] = "READY" /\ "sleep" \in Ops)
      BY DEF ExitIsLast
    <2>1. t \in Tasks /\ status[t] \in Statuses \ {"UNBORN"}
      BY DEF Created, SchedulerInv, TypeOK
    <2>2. status[t] # "RUNNING"
      BY <2>1 DEF SchedulerInv, RunningIsCurrent, OpPcs
    <2> QED BY <2>1, <2>2 DEF ExitInv, NoSleepers, Statuses
  <1> QED BY <1>1, <1>2, <1>3, SchedulerInvariance, PTL DEF Spec

----------------------------------------------------------------------------
(* A task that makes a call is RUNNING, as long as no task terminates      *)
(* itself: suspend, sleep and join request a switch, and the VM then makes *)
(* no further call.                                                        *)

CallerRuns ==
    /\ pc \in {"load"} \cup OpPcs => status[tcb] = "RUNNING"
    /\ pc = "exec" /\ ~switching => status[tcb] = "RUNNING"
    /\ pc = "terminate" => arg # tcb
    /\ NoFault

LEMMA CallerLoopStep ==
    ASSUME SchedulerInv, CallerRuns,
           \/ BootRun \/ ExitTest \/ Pick \/ Mark \/ LoadTimeslice \/ VMYield
           \/ VMFinish \/ ClearSwitching \/ CheckStatus \/ Requeue \/ Retire
           \/ WakeJoinersBegin \/ WakeJoinersEnd \/ BootCreate
    PROVE  CallerRuns'
  <1> USE DEF At, Goto, OpPcs, CallerRuns, NoFault
  <1>1. CASE BootRun \/ ExitTest \/ WakeJoinersEnd
    BY <1>1 DEF BootRun, LoopStart, ExitTest, WakeJoinersEnd
  <1>2. CASE Pick \/ VMYield \/ VMFinish \/ ClearSwitching
    BY <1>2 DEF Pick, VMYield, VMFinish, ClearSwitching
  <1>3. CASE CheckStatus \/ Requeue \/ Retire
    BY <1>3 DEF CheckStatus, Requeue, Retire
  <1>4. CASE Mark
    BY <1>4 DEF Mark, SchedulerInv, CurrentIsCreated, Created, TypeOK
  <1>5. CASE LoadTimeslice
    BY <1>5 DEF LoadTimeslice
  <1>6. CASE WakeJoinersBegin \/ BootCreate
    BY <1>6 DEF WakeJoinersBegin, BootCreate
  <1> QED BY <1>1, <1>2, <1>3, <1>4, <1>5, <1>6

LEMMA CallerInterruptStep ==
    ASSUME SchedulerInv, CallerRuns, Interrupt \/ WakeJoinersScan \/ UNCHANGED vars
    PROVE  CallerRuns'
  <1> USE DEF CallerRuns, NoFault
  <1>1. CASE mrb_tick
    BY <1>1 DEF mrb_tick
  <1>2. CASE TickScan
    <2>1. scan \in Tasks /\ status[scan] = "WAITING"
      BY <1>2 DEF SchedulerInv, ScanIsWaiting, TypeOK, TickScan
    <2>2. status' = status \/ status' = [status EXCEPT ![scan] = "READY"]
      BY <1>2 DEF TickScan, MoveTask
    <2>3. tcb \in Tasks /\ status[tcb] = "RUNNING" => status'[tcb] = "RUNNING"
      BY <2>1, <2>2 DEF SchedulerInv, TypeOK
    <2>4. pc \in {"load", "exec"} \cup OpPcs => tcb \in Tasks
      BY DEF SchedulerInv, CurrentIsCreated, Created, OpPcs
    <2> QED BY <1>2, <2>3, <2>4 DEF TickScan
  <1>3. CASE TickEnd
    BY <1>3 DEF TickEnd
  <1>4. CASE WakeJoinersScan
    BY <1>4 DEF WakeJoinersScan, SchedulerInv, ScanIsWaiting, OpPcs
  <1>5. CASE UNCHANGED vars
    BY <1>5 DEF vars
  <1> QED BY <1>1, <1>2, <1>3, <1>4, <1>5 DEF Interrupt

LEMMA CallerCallStep ==
    ASSUME "terminate_self" \notin Ops, SchedulerInv, CallerRuns, Call
    PROVE  CallerRuns'
  <1>1. PICK op \in Ops : \E t \in Targets(op) :
          /\ arg' = t
          /\ Goto(IF op = "terminate_self" THEN "terminate" ELSE op)
    BY DEF Call
  <1>2. op # "terminate_self" /\ pc' = op /\ arg' \in Targets(op) /\ op \in AllOps
    BY <1>1, OpsAssumption DEF Goto
  <1>3. op = "terminate" => arg' # tcb
    BY <1>2 DEF Targets
  <1>4. status[tcb] = "RUNNING" /\ UNCHANGED <<status, tcb>>
    BY DEF Call, CallerRuns, At
  <1>5. pc' # "fault" /\ pc' # "exec"
    BY <1>2 DEF AllOps
  <1> QED BY <1>2, <1>3, <1>4, <1>5 DEF CallerRuns, NoFault

LEMMA CallerMethodStep ==
    ASSUME SchedulerInv, CallerRuns,
           \/ SleepReadsHead \/ sleep_ms_impl \/ mrb_suspend_task \/ mrb_resume_task
           \/ ResumeCompare \/ ResumeStore \/ mrb_terminate_task \/ mrb_task_join
           \/ mrb_task_s_pass \/ mrb_task_s_new \/ mrb_stop_task \/ mrb_task_reset_context
    PROVE  CallerRuns'
  <1> USE DEF At, Goto, Return, NoFault
  <1>0. tcb \in Tasks /\ status[tcb] = "RUNNING" /\ status \in [Tasks -> Statuses]
    <2>1. pc \in OpPcs
      BY DEF OpPcs, SleepReadsHead, sleep_ms_impl, mrb_suspend_task, mrb_resume_task,
             ResumeCompare, ResumeStore, mrb_terminate_task, mrb_task_join, mrb_task_s_pass,
             mrb_task_s_new, mrb_stop_task, mrb_task_reset_context
    <2>2. tcb \in Created
      BY <2>1 DEF SchedulerInv, CurrentIsCreated, OpPcs
    <2> QED BY <2>1, <2>2 DEF CallerRuns, Created, SchedulerInv, TypeOK
  <1>1. CASE SleepReadsHead
    <2>1. Ready # <<>>
      <3>1. tcb \in Elems(queues["ready"])
        BY <1>0 DEF SchedulerInv, QueueIntegrity, QueueOfStatus, conv_tbl, QueueNames
      <3> QED BY <3>1, EmptySeq DEF Elems, Ready
    <2> QED BY <1>0, <1>1, <2>1 DEF SleepReadsHead, CallerRuns
  <1>2. CASE sleep_ms_impl
    BY <1>2 DEF sleep_ms_impl, SwitchRequest, CallerRuns, OpPcs
  <1>3. CASE mrb_suspend_task
    BY <1>0, <1>3 DEF mrb_suspend_task, SwitchRequest, CallerRuns, OpPcs
  <1>4. CASE mrb_resume_task
    <2>1. status[arg] = "SUSPENDED" => arg # tcb
      BY <1>0
    <2>2. status' = status \/ (arg # tcb /\ \E s \in Targetable : status' = [status EXCEPT ![arg] = s])
      BY <1>4, <2>1 DEF mrb_resume_task, MoveTask, Targetable
    <2>3. status'[tcb] = "RUNNING"
      BY <1>0, <2>2
    <2> QED BY <1>4, <2>3 DEF mrb_resume_task, CallerRuns
  <1>5. CASE ResumeCompare \/ ResumeStore
    BY <1>0, <1>5 DEF ResumeCompare, ResumeStore, CallerRuns, OpPcs
  <1>6. CASE mrb_terminate_task
    <2>1. arg # tcb
      BY <1>6 DEF mrb_terminate_task, CallerRuns
    <2>2. status'[tcb] = "RUNNING"
      BY <1>0, <1>6, <2>1 DEF mrb_terminate_task, MoveTask
    <2> QED BY <1>6, <2>2 DEF mrb_terminate_task, CallerRuns, OpPcs
  <1>7. CASE mrb_task_join
    BY <1>0, <1>7 DEF mrb_task_join, SwitchRequest, CallerRuns, OpPcs
  <1>8. CASE mrb_task_s_new
    <2>1. PICK p \in Priorities : mrb_create_task(arg, p)
      BY <1>8 DEF mrb_task_s_new
    <2>2. status'[tcb] = "RUNNING"
      BY <1>0, <2>1 DEF mrb_create_task
    <2> QED BY <1>8, <2>2 DEF mrb_task_s_new, CallerRuns, OpPcs
  <1>9. CASE mrb_task_s_pass \/ mrb_stop_task \/ mrb_task_reset_context
    BY <1>0, <1>9 DEF mrb_task_s_pass, mrb_stop_task, mrb_task_reset_context, CallerRuns, OpPcs
  <1> QED BY <1>1, <1>2, <1>3, <1>4, <1>5, <1>6, <1>7, <1>8, <1>9

LEMMA CallerAlways ==
    ASSUME "terminate_self" \notin Ops
    PROVE  Spec => [](SchedulerInv /\ CallerRuns)
  <1>1. Init => CallerRuns
    BY DEF Init, CallerRuns, NoFault, OpPcs
  <1>2. SchedulerInv /\ CallerRuns /\ [Next]_vars => CallerRuns'
    <2> SUFFICES ASSUME SchedulerInv, CallerRuns, [Next]_vars PROVE CallerRuns'
      OBVIOUS
    <2>1. CASE Interrupt \/ WakeJoinersScan \/ UNCHANGED vars
      BY <2>1, CallerInterruptStep
    <2>2. CASE Call
      BY <2>2, CallerCallStep
    <2> QED BY <2>1, <2>2, CallerLoopStep, CallerMethodStep DEF Next, Progress, Script
  <1> QED BY <1>1, <1>2, SchedulerInvariance, PTL DEF Spec

(* As long as no task terminates itself, sleep never dereferences the head *)
(* of an empty ready queue.                                                *)
THEOREM SleepFindsATask ==
    ASSUME "terminate_self" \notin Ops
    PROVE  Spec => []NoFault
  <1>1. CallerRuns => NoFault
    BY DEF CallerRuns
  <1> QED BY <1>1, CallerAlways, PTL

----------------------------------------------------------------------------
(* Nobody is left waiting for a task that has ended, as long as no task is *)
(* terminated: mrb_terminate_task does not look for joiners.               *)

(* A joiner is waiting or suspended, and the task it waits for has not     *)
(* ended or is the one whose joiners are being woken.                      *)
JoinersWait ==
    \A t \in Tasks : reason[t] = "JOIN" =>
        /\ status[t] \in {"WAITING", "SUSPENDED"}
        /\ joinOn[t] \in Tasks
        /\ status[joinOn[t]] # "DORMANT" \/ (pc = "wake_joiners" /\ joinOn[t] = tcb)

(* The current task does not wait for another if its context is stopped: a *)
(* stopped context makes no call, and a caller that stops itself does not  *)
(* call join any more.                                                     *)
StoppedIsFree ==
    /\ pc \in OpPcs => cstat[tcb] # "STOPPED"
    /\ pc \in {"exec", "ret"} /\ cstat[tcb] = "STOPPED" => reason[tcb] # "JOIN"
    /\ pc = "retire" => reason[tcb] # "JOIN"

(* x is y or comes before it in queue q.                                   *)
Precedes(q, x, y) ==
    \E i, j \in 1..Len(q) : i <= j /\ q[i] = x /\ q[j] = y

(* The walk over the joiners still has every joiner in front of it.        *)
JoinersAhead ==
    irq = "join" => \A t \in Tasks :
        status[t] = "WAITING" /\ JoinsDone(t)
            => scan # NoTask /\ Precedes(Waiting, scan, t)

JoinInv ==
    /\ CallerRuns
    /\ JoinersWait
    /\ StoppedIsFree
    /\ JoinersAhead
    /\ pc # "terminate"

(* Steps that change one task's status or reason.                          *)
LEMMA MovedJoiner ==
    ASSUME JoinersWait, NEW u \in Tasks, joinOn' = joinOn,
           \A t \in Tasks \ {u} : status'[t] = status[t] /\ reason'[t] = reason[t],
           reason'[u] = "JOIN" =>
               reason[u] = "JOIN" /\ status'[u] \in {"WAITING", "SUSPENDED"},
           status'[u] # "DORMANT" \/ (pc' = "wake_joiners" /\ u = tcb'),
           pc # "wake_joiners" \/ UNCHANGED <<pc, tcb>>
    PROVE  JoinersWait'
  BY DEF JoinersWait

(* Steps that change no task's.                                            *)
LEMMA QuietJoiners ==
    ASSUME JoinersWait, UNCHANGED <<status, reason, joinOn>>,
           pc # "wake_joiners" \/ UNCHANGED <<pc, tcb>>
    PROVE  JoinersWait'
  BY DEF JoinersWait

(* The tick interrupt.                                                     *)
LEMMA JoinInterruptStep ==
    ASSUME SchedulerInv, JoinInv, Interrupt \/ UNCHANGED vars
    PROVE  JoinersWait' /\ StoppedIsFree' /\ pc' # "terminate"
  <1>1. CASE mrb_tick \/ TickEnd \/ UNCHANGED vars
    <2>1. UNCHANGED <<status, reason, joinOn, cstat, pc, tcb>>
      BY <1>1 DEF mrb_tick, TickEnd, vars, taskVars
    <2> QED BY <2>1, QuietJoiners DEF JoinInv, StoppedIsFree
  <1>2. CASE TickScan
    <2>1. /\ scan \in Tasks
          /\ status \in [Tasks -> Statuses]
          /\ reason \in [Tasks -> {"NONE", "SLEEP", "JOIN"}]
      BY <1>2 DEF SchedulerInv, TypeOK, TickScan
    <2>2. UNCHANGED <<joinOn, cstat, pc, tcb>>
      BY <1>2 DEF TickScan, taskVars
    <2>3. \/ UNCHANGED <<status, reason>>
          \/ status' = [status EXCEPT ![scan] = "READY"]
             /\ reason' = [reason EXCEPT ![scan] = "NONE"]
      BY <1>2 DEF TickScan, MoveTask
    <2>4. JoinersWait'
      <3>1. CASE UNCHANGED <<status, reason>>
        BY <2>2, <3>1, QuietJoiners DEF JoinInv
      <3>2. CASE status' = [status EXCEPT ![scan] = "READY"]
                 /\ reason' = [reason EXCEPT ![scan] = "NONE"]
        BY <2>1, <2>2, <3>2, MovedJoiner DEF JoinInv
      <3> QED BY <2>3, <3>1, <3>2
    <2>5. pc \in {"exec", "ret", "retire"} => tcb \in Tasks
      BY DEF SchedulerInv, CurrentIsCreated, Created
    <2>6. tcb \in Tasks /\ reason[tcb] # "JOIN" => reason'[tcb] # "JOIN"
      BY <2>1, <2>3
    <2> QED BY <2>2, <2>4, <2>5, <2>6 DEF JoinInv, StoppedIsFree
  <1> QED BY <1>1, <1>2 DEF Interrupt

(* The run loop up to the end of a task.                                   *)
LEMMA JoinLoopStep ==
    ASSUME SchedulerInv, JoinInv,
           \/ BootRun \/ ExitTest \/ Pick \/ Mark \/ LoadTimeslice \/ VMYield
           \/ VMFinish \/ ClearSwitching \/ CheckStatus \/ Requeue \/ Retire
           \/ WakeJoinersBegin \/ BootCreate
    PROVE  JoinersWait' /\ StoppedIsFree' /\ pc' # "terminate"
  <1> USE DEF At, Goto, taskVars
  <1>0. /\ status \in [Tasks -> Statuses]
        /\ cstat \in [Tasks -> {"CREATED", "STOPPED"}]
    BY DEF SchedulerInv, TypeOK
  <1>1. CASE BootRun \/ ExitTest \/ Pick \/ WakeJoinersBegin
    <2>1. /\ UNCHANGED <<status, reason, joinOn>>
          /\ pc # "wake_joiners" \/ UNCHANGED <<pc, tcb>>
      BY <1>1 DEF BootRun, ExitTest, Pick, WakeJoinersBegin
    <2>2. pc' \notin {"exec", "ret", "retire", "terminate"} \cup OpPcs
      BY <1>1 DEF BootRun, LoopStart, ExitTest, Pick, WakeJoinersBegin, OpPcs
    <2> QED BY <2>1, <2>2, QuietJoiners DEF JoinInv, StoppedIsFree
  <1>2. CASE VMYield \/ ClearSwitching
    <2>1. UNCHANGED <<status, reason, joinOn>> /\ pc # "wake_joiners"
      BY <1>2 DEF VMYield, ClearSwitching
    <2>2. JoinersWait'
      BY <2>1, QuietJoiners DEF JoinInv
    <2>3. StoppedIsFree'
      BY <1>2 DEF VMYield, ClearSwitching, JoinInv, StoppedIsFree, OpPcs
    <2> QED BY <1>2, <2>2, <2>3 DEF VMYield, ClearSwitching
  <1>3. CASE LoadTimeslice \/ VMFinish
    <2>1. UNCHANGED <<status, reason, joinOn, tcb>> /\ pc # "wake_joiners"
      BY <1>3 DEF LoadTimeslice, VMFinish
    <2>2. JoinersWait'
      BY <2>1, QuietJoiners DEF JoinInv
    <2>3. tcb \in Tasks /\ status[tcb] = "RUNNING"
      BY <1>3 DEF LoadTimeslice, VMFinish, SchedulerInv, CurrentIsCreated, Created,
                  JoinInv, CallerRuns
    <2>4. reason[tcb] # "JOIN"
      BY <2>3 DEF JoinInv, JoinersWait
    <2>5. pc' \in {"exec", "ret"}
      BY <1>3 DEF LoadTimeslice, VMFinish
    <2> QED BY <2>1, <2>2, <2>4, <2>5 DEF StoppedIsFree, OpPcs
  <1>4. CASE Mark \/ CheckStatus \/ Requeue \/ Retire
    <2>1. tcb \in Tasks /\ UNCHANGED <<reason, joinOn, tcb>> /\ pc # "wake_joiners"
      BY <1>4 DEF Mark, CheckStatus, Requeue, Retire, SchedulerInv, CurrentIsCreated, Created
    <2>2. \/ status' = status /\ CheckStatus
          \/ reason[tcb] # "JOIN" /\ \E s \in {"RUNNING", "READY"} :
                status' = [status EXCEPT ![tcb] = s]
          \/ /\ reason[tcb] # "JOIN" /\ pc' = "wake_joiners"
             /\ status' = [status EXCEPT ![tcb] = "DORMANT"]
      <3>1. status[tcb] \in {"READY", "RUNNING"} => reason[tcb] # "JOIN"
        BY <2>1 DEF JoinInv, JoinersWait
      <3>2. CASE Mark
        BY <3>1, <3>2 DEF Mark, SchedulerInv, CurrentIsCreated
      <3>3. CASE CheckStatus
        BY <3>1, <3>3 DEF CheckStatus
      <3>4. CASE Requeue
        BY <3>1, <3>4 DEF Requeue, MoveTask, SchedulerInv, CurrentIsCreated
      <3>5. CASE Retire
        BY <3>5 DEF Retire, MoveTask, JoinInv, StoppedIsFree
      <3> QED BY <1>4, <3>2, <3>3, <3>4, <3>5
    <2>3. JoinersWait'
      <3>1. CASE status' = status
        BY <2>1, <3>1, QuietJoiners DEF JoinInv
      <3>2. CASE reason[tcb] # "JOIN" /\ \E s \in {"RUNNING", "READY"} :
                   status' = [status EXCEPT ![tcb] = s]
        BY <1>0, <2>1, <3>2, MovedJoiner DEF JoinInv
      <3>3. CASE /\ reason[tcb] # "JOIN" /\ pc' = "wake_joiners"
                 /\ status' = [status EXCEPT ![tcb] = "DORMANT"]
        BY <1>0, <2>1, <3>3, MovedJoiner DEF JoinInv
      <3> QED BY <2>2, <3>1, <3>2, <3>3
    <2>4. pc' \notin {"exec", "ret", "retire", "terminate"} \cup OpPcs
      BY <1>4 DEF Mark, CheckStatus, Requeue, Retire, OpPcs
    <2> QED BY <2>3, <2>4 DEF StoppedIsFree
  <1>5. CASE BootCreate
    <2>1. PICK t \in Tasks, p \in Priorities : mrb_create_task(t, p)
      BY <1>5 DEF BootCreate
    <2>2. /\ UNCHANGED <<reason, joinOn>> /\ status[t] = "UNBORN"
          /\ status' = [status EXCEPT ![t] = "READY"] /\ pc' = "boot" /\ pc = "boot"
      BY <1>5, <2>1 DEF mrb_create_task, BootCreate
    <2>3. reason[t] # "JOIN"
      BY <2>2 DEF JoinInv, JoinersWait
    <2>4. JoinersWait'
      BY <1>0, <2>2, <2>3, MovedJoiner DEF JoinInv
    <2> QED BY <2>2, <2>4 DEF StoppedIsFree, OpPcs
  <1> QED BY <1>1, <1>2, <1>3, <1>4, <1>5

(* A script makes a call.                                                  *)
LEMMA JoinCallStep ==
    ASSUME "terminate" \notin Ops, "terminate_self" \notin Ops,
           SchedulerInv, JoinInv, Call
    PROVE  JoinersWait' /\ StoppedIsFree' /\ pc' # "terminate"
  <1>1. pc' \in Ops
    BY DEF Call, Goto
  <1>2. pc' \in AllOps \ {"terminate", "terminate_self"}
    BY <1>1, OpsAssumption
  <1>3. UNCHANGED <<status, reason, joinOn, cstat, tcb>> /\ pc = "exec"
    BY DEF Call, At, taskVars
  <1>4. cstat[tcb] # "STOPPED"
    BY DEF Call
  <1> QED BY <1>2, <1>3, <1>4, QuietJoiners DEF JoinInv, StoppedIsFree, AllOps, OpPcs

(* The methods scripts call.                                               *)
LEMMA JoinMethodStep ==
    ASSUME SchedulerInv, JoinInv,
           \/ SleepReadsHead \/ sleep_ms_impl \/ mrb_suspend_task \/ mrb_resume_task
           \/ ResumeCompare \/ ResumeStore \/ mrb_task_join
           \/ mrb_task_s_pass \/ mrb_task_s_new \/ mrb_stop_task \/ mrb_task_reset_context
    PROVE  JoinersWait' /\ StoppedIsFree' /\ pc' # "terminate"
  <1> USE DEF At, Goto, Return, taskVars
  <1>0. /\ status \in [Tasks -> Statuses]
        /\ reason \in [Tasks -> {"NONE", "SLEEP", "JOIN"}]
        /\ joinOn \in [Tasks -> Tasks \cup {NoTask}]
        /\ cstat \in [Tasks -> {"CREATED", "STOPPED"}]
    BY DEF SchedulerInv, TypeOK
  <1>1. /\ pc \in OpPcs /\ pc # "wake_joiners" /\ tcb' = tcb
        /\ pc' \in {"exec", "fault"} \cup (OpPcs \ {"terminate"})
    <2>1. CASE SleepReadsHead
      BY <2>1 DEF SleepReadsHead, OpPcs
    <2>2. CASE sleep_ms_impl \/ mrb_suspend_task \/ mrb_task_join \/ mrb_task_s_pass
      BY <2>2 DEF sleep_ms_impl, mrb_suspend_task, mrb_task_join, mrb_task_s_pass, OpPcs
    <2>3. CASE mrb_resume_task \/ ResumeCompare \/ ResumeStore
      BY <2>3 DEF mrb_resume_task, ResumeCompare, ResumeStore, OpPcs
    <2>4. CASE mrb_task_s_new \/ mrb_stop_task \/ mrb_task_reset_context
      BY <2>4 DEF mrb_task_s_new, mrb_stop_task, mrb_task_reset_context, OpPcs
    <2> QED BY <2>1, <2>2, <2>3, <2>4
  <1>2. /\ tcb \in Tasks /\ status[tcb] = "RUNNING" /\ cstat[tcb] = "CREATED"
        /\ reason[tcb] # "JOIN"
    <2>1. tcb \in Tasks /\ status[tcb] = "RUNNING"
      BY <1>1 DEF SchedulerInv, CurrentIsCreated, Created, JoinInv, CallerRuns, OpPcs
    <2>2. cstat[tcb] # "STOPPED"
      BY <1>1 DEF JoinInv, StoppedIsFree
    <2> QED BY <1>0, <2>1, <2>2 DEF JoinInv, JoinersWait
  <1>3. pc' # "terminate" /\ pc' \notin {"ret", "retire"}
    BY <1>1 DEF OpPcs
  <1>4. CASE mrb_stop_task
    <2>1. UNCHANGED <<status, reason, joinOn>> /\ pc' = "exec"
      BY <1>4 DEF mrb_stop_task
    <2>2. JoinersWait'
      BY <1>1, <2>1, QuietJoiners DEF JoinInv
    <2> QED BY <1>1, <1>2, <1>3, <2>1, <2>2 DEF StoppedIsFree, OpPcs
  <1>5. ASSUME cstat'[tcb] = "CREATED" PROVE StoppedIsFree'
    BY <1>1, <1>3, <1>5 DEF StoppedIsFree
  <1>6. CASE SleepReadsHead \/ ResumeCompare \/ ResumeStore \/ mrb_task_s_pass
    <2>1. UNCHANGED <<status, reason, joinOn, cstat>>
      BY <1>6 DEF SleepReadsHead, ResumeCompare, ResumeStore, mrb_task_s_pass
    <2> QED BY <1>1, <1>2, <1>3, <1>5, <2>1, QuietJoiners DEF JoinInv
  <1>7. CASE mrb_task_reset_context
    <2>1. UNCHANGED <<status, reason, joinOn>>
      BY <1>7 DEF mrb_task_reset_context
    <2>2. cstat'[tcb] = "CREATED"
      BY <1>0, <1>2, <1>7 DEF mrb_task_reset_context
    <2> QED BY <1>1, <1>3, <1>5, <2>1, <2>2, QuietJoiners DEF JoinInv
  <1>8. CASE sleep_ms_impl \/ mrb_suspend_task \/ mrb_resume_task
    <2>1. arg \in Tasks /\ UNCHANGED <<joinOn, cstat>>
      BY <1>8 DEF sleep_ms_impl, mrb_suspend_task, mrb_resume_task, SchedulerInv,
                  ArgIsCreated, Created, OpPcs
    <2>2. \/ UNCHANGED <<status, reason>>
          \/ /\ \A t \in Tasks \ {arg} : status'[t] = status[t] /\ reason'[t] = reason[t]
             /\ reason'[arg] = "JOIN" =>
                   reason[arg] = "JOIN" /\ status'[arg] \in {"WAITING", "SUSPENDED"}
             /\ status'[arg] # "DORMANT"
      <3>1. CASE sleep_ms_impl
        BY <1>0, <2>1, <3>1 DEF sleep_ms_impl, MoveTask
      <3>2. CASE mrb_suspend_task
        BY <1>0, <2>1, <3>2 DEF mrb_suspend_task, MoveTask
      <3>3. CASE mrb_resume_task
        BY <1>0, <2>1, <3>3 DEF mrb_resume_task, MoveTask
      <3> QED BY <1>8, <3>1, <3>2, <3>3
    <2>3. JoinersWait'
      BY <1>1, <2>1, <2>2, QuietJoiners, MovedJoiner DEF JoinInv
    <2> QED BY <1>2, <1>3, <1>5, <2>1, <2>3
  <1>9. CASE mrb_task_join
    <2>1. arg \in Tasks /\ cstat' = cstat
      BY <1>9 DEF mrb_task_join, SchedulerInv, ArgIsCreated, Created, OpPcs
    <2>2. CASE UNCHANGED <<status, reason, joinOn>>
      BY <1>1, <1>2, <1>3, <1>5, <2>1, <2>2, QuietJoiners DEF JoinInv
    <2>3. CASE /\ arg # tcb /\ status[arg] # "DORMANT"
               /\ status' = [status EXCEPT ![tcb] = "WAITING"]
               /\ reason' = [reason EXCEPT ![tcb] = "JOIN"]
               /\ joinOn' = [joinOn EXCEPT ![tcb] = arg]
      <3>1. \A t \in Tasks \ {tcb} :
               status'[t] = status[t] /\ reason'[t] = reason[t] /\ joinOn'[t] = joinOn[t]
        BY <1>0, <2>3
      <3>2. status'[tcb] = "WAITING" /\ joinOn'[tcb] = arg
        BY <1>0, <1>2, <2>3
      <3>3. \A t \in Tasks : status[t] # "DORMANT" => status'[t] # "DORMANT"
        BY <3>1, <3>2
      <3>4. \A t \in Tasks \ {tcb} : reason'[t] = "JOIN" =>
               /\ status'[t] \in {"WAITING", "SUSPENDED"}
               /\ joinOn'[t] \in Tasks
               /\ status'[joinOn'[t]] # "DORMANT"
        BY <1>1, <3>1, <3>3 DEF JoinInv, JoinersWait
      <3>5. status'[arg] # "DORMANT"
        BY <2>1, <2>3, <3>3
      <3>6. JoinersWait'
        BY <2>1, <3>2, <3>4, <3>5 DEF JoinersWait
      <3> QED BY <1>2, <1>3, <1>5, <2>1, <3>6
    <2> QED BY <1>9, <2>2, <2>3 DEF mrb_task_join, MoveTask
  <1>10. CASE mrb_task_s_new
    <2>1. PICK p \in Priorities : mrb_create_task(arg, p)
      BY <1>10 DEF mrb_task_s_new
    <2>2. arg \in Tasks
      BY <1>10 DEF mrb_task_s_new, SchedulerInv, ArgIsCreated
    <2>3. /\ UNCHANGED <<reason, joinOn, cstat>> /\ status[arg] = "UNBORN"
          /\ status' = [status EXCEPT ![arg] = "READY"]
      BY <2>1 DEF mrb_create_task
    <2>4. reason[arg] # "JOIN"
      BY <2>2, <2>3 DEF JoinInv, JoinersWait
    <2>5. JoinersWait'
      BY <1>0, <1>1, <2>2, <2>3, <2>4, MovedJoiner DEF JoinInv
    <2> QED BY <1>2, <1>3, <1>5, <2>3, <2>5
  <1> QED BY <1>4, <1>6, <1>7, <1>8, <1>9, <1>10

(* The walk over the joiners, one task at a time, ...                      *)
LEMMA JoinScanStep ==
    ASSUME SchedulerInv, JoinInv, WakeJoinersScan
    PROVE  JoinersWait' /\ StoppedIsFree' /\ pc' # "terminate"
  <1>1. /\ scan \in Tasks
        /\ status \in [Tasks -> Statuses]
        /\ reason \in [Tasks -> {"NONE", "SLEEP", "JOIN"}]
    BY DEF SchedulerInv, TypeOK, WakeJoinersScan
  <1>2. UNCHANGED <<joinOn, cstat, pc, tcb>> /\ pc = "wake_joiners"
    BY DEF WakeJoinersScan, taskVars, SchedulerInv, ScanIsWaiting
  <1>3. CASE UNCHANGED <<status, reason>>
    BY <1>2, <1>3, QuietJoiners DEF JoinInv, StoppedIsFree, OpPcs
  <1>4. CASE status' = [status EXCEPT ![scan] = "READY"]
             /\ reason' = [reason EXCEPT ![scan] = "NONE"]
    <2>1. JoinersWait'
      BY <1>1, <1>2, <1>4, MovedJoiner DEF JoinInv
    <2> QED BY <1>2, <2>1 DEF StoppedIsFree, OpPcs
  <1> QED BY <1>3, <1>4 DEF WakeJoinersScan, MoveTask

(* ... and its end: nobody it had to release is left.                      *)
LEMMA JoinEndStep ==
    ASSUME SchedulerInv, JoinInv, WakeJoinersEnd
    PROVE  JoinersWait' /\ StoppedIsFree' /\ pc' # "terminate"
  <1>1. /\ UNCHANGED <<status, joinOn, tcb>>
        /\ pc' \notin {"exec", "ret", "retire", "terminate"} \cup OpPcs
    BY DEF WakeJoinersEnd, Goto, LoopStart, OpPcs, taskVars
  <1>2. ASSUME NEW t \in Tasks, reason'[t] = "JOIN"
        PROVE  /\ status[t] \in {"WAITING", "SUSPENDED"}
               /\ joinOn[t] \in Tasks
               /\ status[joinOn[t]] # "DORMANT"
    <2>1. reason[t] = "JOIN" /\ ~(t \in Elems(Suspended) /\ JoinsDone(t))
      BY <1>2 DEF WakeJoinersEnd
    <2>2. /\ status[t] \in {"WAITING", "SUSPENDED"}
          /\ joinOn[t] \in Tasks
          /\ status[joinOn[t]] # "DORMANT" \/ joinOn[t] = tcb
      BY <2>1 DEF JoinInv, JoinersWait
    <2>3. status[t] = "SUSPENDED" => t \in Elems(Suspended)
      BY DEF SchedulerInv, QueueIntegrity, QueueOfStatus, conv_tbl, QueueNames, Suspended
    <2>4. ~(status[t] = "WAITING" /\ JoinsDone(t))
      BY DEF JoinInv, JoinersAhead, WakeJoinersEnd
    <2> QED BY <2>1, <2>2, <2>3, <2>4 DEF JoinsDone
  <1>3. JoinersWait'
    BY <1>1, <1>2 DEF JoinersWait
  <1> QED BY <1>1, <1>3 DEF StoppedIsFree

(* Where the walk starts, everyone who waits is still ahead.               *)
LEMMA HeadPrecedes ==
    ASSUME NEW q \in Seq(Tasks), NEW t \in Elems(q)
    PROVE  HeadOrNull(q) # NoTask /\ Precedes(q, HeadOrNull(q), t)
  <1>1. PICK j \in 1..Len(q) : q[j] = t
    BY DEF Elems
  <1>2. Len(q) \in Nat /\ 1 \in 1..Len(q) /\ 1 <= j
    BY <1>1, LenProperties
  <1>3. q # <<>>
    BY <1>2, EmptySeq
  <1>4. HeadOrNull(q) = q[1] /\ q[1] \in Tasks
    BY <1>2, <1>3, ElementOfSeq DEF HeadOrNull
  <1> QED BY <1>1, <1>2, <1>4, TasksAssumption DEF Precedes

(* One step of it leaves everyone ahead but the task it looked at, whether *)
(* that task stays in the queue or not.                                    *)
LEMMA NextPrecedes ==
    ASSUME NEW q \in Seq(Tasks), Distinct(q), NEW x, NEW y, x # y, Precedes(q, x, y)
    PROVE  /\ NextIn(q, x) # NoTask
           /\ Precedes(q, NextIn(q, x), y)
           /\ Precedes(Without(q, x), NextIn(q, x), y)
  <1> DEFINE n == Len(q)
             d == Without(q, x)
  <1>1. n \in Nat
    BY LenProperties
  <1>2. PICK i \in 1..n, j \in 1..n : i <= j /\ q[i] = x /\ q[j] = y
    BY DEF Precedes
  <1>3. i < j /\ i < n /\ i + 1 \in 1..n /\ i + 1 <= j
    BY <1>1, <1>2
  <1>4. IndexIn(q, x) = i
    BY <1>2 DEF IndexIn, Distinct
  <1>5. NextIn(q, x) = q[i + 1] /\ q[i + 1] \in Tasks
    BY <1>3, <1>4, ElementOfSeq DEF NextIn
  <1>6. Precedes(q, NextIn(q, x), y)
    BY <1>2, <1>3, <1>5 DEF Precedes
  <1>7. d = [k \in 1..(n - 1) |-> IF k < i THEN q[k] ELSE q[k + 1]]
    BY <1>2, <1>4 DEF Without, DeletedAt, Elems
  <1>8. n - 1 \in Nat /\ d \in [1..(n - 1) -> Tasks]
    <2>1. \A k \in 1..(n - 1) : k \in 1..n /\ k + 1 \in 1..n
      BY <1>1
    <2>2. \A k \in 1..n : q[k] \in Tasks
      BY ElementOfSeq
    <2> QED BY <1>1, <1>3, <1>7, <2>1, <2>2
  <1>9. Len(d) = n - 1
    BY <1>8, FunctionIsSeq
  <1>10. i \in 1..(n - 1) /\ j - 1 \in 1..(n - 1) /\ i <= j - 1 /\ ~(j - 1 < i)
         /\ (j - 1) + 1 = j
    BY <1>1, <1>2, <1>3
  <1>11. d[i] = q[i + 1] /\ d[j - 1] = y
    BY <1>2, <1>7, <1>10
  <1>12. Precedes(d, NextIn(q, x), y)
    BY <1>5, <1>9, <1>10, <1>11 DEF Precedes
  <1> QED BY <1>5, <1>6, <1>12, TasksAssumption

(* What a walk over the waiting queue does to it when it moves a task.     *)
LEMMA WaitingAfterMove ==
    ASSUME TypeOK, NEW t \in Tasks, status[t] = "WAITING", MoveTask(t, "READY")
    PROVE  Waiting' = Without(Waiting, t)
  BY DEF TypeOK, MoveTask, q_insert_task, q_delete_task, conv_tbl, Waiting, QueueNames

(* The walk over the joiners passes nobody by.                             *)
LEMMA AheadStep ==
    ASSUME SchedulerInv, JoinInv, [Next]_vars
    PROVE  JoinersAhead'
  <1>0. /\ Waiting \in Seq(Tasks) /\ Distinct(Waiting)
        /\ \A t \in Tasks : status[t] = "WAITING" => t \in Elems(Waiting)
    BY DEF SchedulerInv, TypeOK, QueueIntegrity, NoDuplicates, QueueOfStatus, conv_tbl,
           Waiting, QueueNames, Distinct
  <1>1. CASE UNCHANGED vars
    BY <1>1 DEF vars, JoinInv, JoinersAhead, JoinsDone, Waiting
  <1>2. CASE WakeJoinersBegin
    <2>1. scan' = HeadOrNull(Waiting) /\ UNCHANGED <<queues, status>>
      BY <1>2 DEF WakeJoinersBegin
    <2>2. ASSUME NEW t \in Tasks, status[t] = "WAITING"
          PROVE  scan' # NoTask /\ Precedes(Waiting, scan', t)
      BY <1>0, <2>1, <2>2, HeadPrecedes
    <2>3. Waiting' = Waiting
      BY <2>1 DEF Waiting
    <2>4. \A t \in Tasks : status'[t] = "WAITING"
              => scan' # NoTask /\ Precedes(Waiting', scan', t)
      BY <2>1, <2>2, <2>3
    <2> QED BY <2>4 DEF JoinersAhead, Precedes
  <1>3. CASE WakeJoinersScan
    <2>1. scan \in Created /\ status[scan] = "WAITING" /\ scan \in Tasks
      BY <1>3 DEF SchedulerInv, ScanIsWaiting, Created, TypeOK, WakeJoinersScan
    <2>2. /\ scan' = NextIn(Waiting, scan) /\ irq = "join"
          /\ UNCHANGED <<joinOn, tcb>>
      BY <1>3 DEF WakeJoinersScan, taskVars
    <2>3. /\ status \in [Tasks -> Statuses]
          /\ reason \in [Tasks -> {"NONE", "SLEEP", "JOIN"}]
          /\ queues \in [QueueNames -> Seq(Tasks)]
      BY DEF SchedulerInv, TypeOK
    <2>4. \/ ~JoinsDone(scan) /\ UNCHANGED <<queues, status, reason>>
          \/ /\ MoveTask(scan, "READY")
             /\ reason' = [reason EXCEPT ![scan] = "NONE"]
      BY <1>3 DEF WakeJoinersScan
    <2>5. Waiting' \in {Waiting, Without(Waiting, scan)}
      BY <2>1, <2>4, WaitingAfterMove DEF SchedulerInv, Waiting
    <2>6. ASSUME NEW t \in Tasks, status'[t] = "WAITING", JoinsDone(t)'
          PROVE  t # scan /\ status[t] = "WAITING" /\ JoinsDone(t)
      <3>1. reason'[t] = "JOIN" /\ joinOn'[t] = tcb'
        BY <2>6 DEF JoinsDone
      <3>2. CASE ~JoinsDone(scan) /\ UNCHANGED <<queues, status, reason>>
        BY <2>2, <2>6, <3>1, <3>2 DEF JoinsDone
      <3>3. CASE /\ status' = [status EXCEPT ![scan] = "READY"]
                 /\ reason' = [reason EXCEPT ![scan] = "NONE"]
        BY <2>1, <2>2, <2>3, <2>6, <3>1, <3>3 DEF JoinsDone
      <3> QED BY <2>4, <3>2, <3>3 DEF MoveTask
    <2>7. ASSUME NEW t \in Tasks, status'[t] = "WAITING", JoinsDone(t)'
          PROVE  scan' # NoTask /\ Precedes(Waiting', scan', t)
      <3>1. t # scan /\ Precedes(Waiting, scan, t)
        BY <2>2, <2>6, <2>7 DEF JoinInv, JoinersAhead
      <3>2. /\ NextIn(Waiting, scan) # NoTask
            /\ Precedes(Waiting, NextIn(Waiting, scan), t)
            /\ Precedes(Without(Waiting, scan), NextIn(Waiting, scan), t)
        BY <1>0, <3>1, NextPrecedes
      <3> QED BY <2>2, <2>5, <3>2
    <2> QED BY <2>7 DEF JoinersAhead, Precedes
  <1>4. CASE Interrupt \/ WakeJoinersEnd
    <2>1. irq' # "join"
      BY <1>4 DEF Interrupt, mrb_tick, TickScan, TickEnd, WakeJoinersEnd
    <2> QED BY <2>1 DEF JoinersAhead
  <1>5. CASE BootRun \/ ExitTest \/ Pick \/ Mark \/ LoadTimeslice \/ VMYield
             \/ VMFinish \/ ClearSwitching \/ CheckStatus \/ Requeue \/ Retire
             \/ Call \/ BootCreate
    <2>1. irq' = "on"
      BY <1>5 DEF BootRun, ExitTest, Pick, Mark, LoadTimeslice, VMYield, VMFinish,
                  ClearSwitching, CheckStatus, Requeue, Retire, Call, BootCreate,
                  At, loopVars
    <2> QED BY <2>1 DEF JoinersAhead
  <1>6. CASE SleepReadsHead \/ sleep_ms_impl \/ mrb_suspend_task \/ mrb_resume_task
             \/ ResumeCompare \/ ResumeStore \/ mrb_terminate_task \/ mrb_task_join
             \/ mrb_task_s_pass \/ mrb_task_s_new \/ mrb_stop_task \/ mrb_task_reset_context
    <2>1. irq' = "on"
      BY <1>6 DEF SleepReadsHead, sleep_ms_impl, mrb_suspend_task, mrb_resume_task,
                  ResumeCompare, ResumeStore, mrb_terminate_task, mrb_task_join,
                  mrb_task_s_pass, mrb_task_s_new, mrb_stop_task, mrb_task_reset_context,
                  At, loopVars
    <2> QED BY <2>1 DEF JoinersAhead
  <1> QED BY <1>1, <1>2, <1>3, <1>4, <1>5, <1>6 DEF Next, Progress, Script

(* Every step preserves the joiners' invariant.                            *)
LEMMA JoinStep ==
    ASSUME "terminate" \notin Ops, "terminate_self" \notin Ops,
           SchedulerInv, JoinInv, [Next]_vars
    PROVE  JoinersWait' /\ StoppedIsFree' /\ pc' # "terminate"
  <1>1. ~mrb_terminate_task
    BY DEF mrb_terminate_task, At, JoinInv
  <1>2. CASE Interrupt \/ UNCHANGED vars
    BY <1>2, JoinInterruptStep
  <1>3. CASE Progress
    BY <1>1, <1>3, JoinLoopStep, JoinMethodStep, JoinScanStep, JoinEndStep DEF Progress
  <1>4. CASE Script
    BY <1>4, JoinLoopStep, JoinCallStep DEF Script
  <1> QED BY <1>2, <1>3, <1>4 DEF Next

(* As long as no task is terminated, nobody waits, or will wait once       *)
(* resumed, for a task that has ended, however the end of the task, the    *)
(* tick, and calls of join, suspend, resume and stop interleave.           *)
THEOREM EveryJoinerReleased ==
    ASSUME "terminate" \notin Ops, "terminate_self" \notin Ops
    PROVE  Spec => []JoinersReleased
  <1> DEFINE I == JoinersWait /\ StoppedIsFree /\ JoinersAhead /\ pc # "terminate"
  <1>1. Init => I
    BY DEF Init, JoinersWait, StoppedIsFree, JoinersAhead, OpPcs
  <1>2. SchedulerInv /\ CallerRuns /\ I /\ [Next]_vars => I'
    BY JoinStep, AheadStep DEF JoinInv
  <1>3. I => JoinersReleased
    BY DEF JoinersWait, JoinersReleased
  <1> HIDE DEF I
  <1> QED BY <1>1, <1>2, <1>3, CallerAlways, PTL DEF Spec

----------------------------------------------------------------------------
(* The next scan of the waiting queue is never later than a sleeper's      *)
(* wakeup tick.  The argument is about signed distances from the current   *)
(* tick: between them, the comparison (int32_t)(a - b) < 0 is an order as  *)
(* long as they lie less than half the range apart.                        *)


Half == TickMod \div 2
TickValues == 0..(TickMod - 1)

(* How far w lies ahead of now, negative when it is behind.                *)
Dist(w, now) ==
    IF w - now >= Half THEN w - now - TickMod
    ELSE IF w - now < -Half THEN w - now + TickMod ELSE w - now

LEMMA HalfFacts ==
    /\ Half \in Nat \ {0} /\ TickMod = Half + Half
    /\ MaxOverdue + ScanHorizon + 1 < Half
    /\ \A ms \in SleepMs : TicksOf(ms) \in Nat /\ MaxOverdue + TicksOf(ms) + 1 < Half
  <1>1. Half \in Nat \ {0} /\ TickMod = Half + Half
    BY TickModAssumption DEF Half
  <1>2. MaxOverdue + ScanHorizon + 1 < Half
    BY WindowAssumption DEF Half
  <1>3. ASSUME NEW ms \in SleepMs
        PROVE  TicksOf(ms) \in Nat /\ MaxOverdue + TicksOf(ms) + 1 < Half
    <2> DEFINE d == ms \div TickUnit
    <2>1. d \in Nat
      BY SleepAssumption, TickUnitAssumption
    <2>2. MaxOverdue + d + 2 < Half
      BY WindowAssumption, Zenon DEF Half
    <2>3. TicksOf(ms) \in {d + 0, d + 1}
      BY Zenon DEF TicksOf
    <2> HIDE DEF d
    <2> QED BY <1>1, <2>1, <2>2, <2>3, HorizonAssumption
  <1> QED BY <1>1, <1>2, <1>3

(* What % is for sums and differences of ticks.                            *)
LEMMA TickModulus ==
    ASSUME NEW a \in (-TickMod)..(2 * TickMod - 1)
    PROVE  /\ a % TickMod \in TickValues
           /\ a < 0 => a % TickMod = a + TickMod
           /\ a \in TickValues => a % TickMod = a
           /\ a >= TickMod => a % TickMod = a - TickMod
  BY TickModAssumption DEF TickValues

(* Distances lie between -Half and Half.                                   *)
LEMMA DistRange ==
    ASSUME NEW w \in TickValues, NEW now \in TickValues
    PROVE  /\ Dist(w, now) \in (-Half)..(Half - 1)
           /\ Dist(now, now) = 0
  BY HalfFacts DEF Dist, TickValues

(* The comparison of the code is that of the distances.                    *)
LEMMA BeforeDist ==
    ASSUME NEW a \in TickValues, NEW b \in TickValues, NEW now \in TickValues,
           Dist(a, now) - Dist(b, now) >= -Half, Dist(a, now) - Dist(b, now) < Half
    PROVE  Before(a, b) <=> Dist(a, now) < Dist(b, now)
  <1> DEFINE x == a - b
             r == x % TickMod
  <1>1. x \in (-TickMod)..(2 * TickMod - 1) /\ (x >= 0 => x \in TickValues)
    BY HalfFacts DEF TickValues
  <1> HIDE DEF x
  <1>2. r = IF x < 0 THEN x + TickMod ELSE x
    BY <1>1, TickModulus
  <1>3. Before(a, b) <=> r >= Half
    BY DEF Before, Half, x
  <1> HIDE DEF r
  <1>4. x = a - b
    BY DEF x
  <1>5. Before(a, b) <=> (IF a - b < 0 THEN a - b + TickMod >= Half ELSE a - b >= Half)
    BY <1>2, <1>3, <1>4
  <1>6. /\ a \in Int /\ b \in Int /\ now \in Int /\ Half \in Int
        /\ a >= 0 /\ a < Half + Half /\ b >= 0 /\ b < Half + Half
        /\ now >= 0 /\ now < Half + Half /\ TickMod = Half + Half
    BY HalfFacts DEF TickValues
  <1> HIDE DEF Half
  <1> QED BY <1>5, <1>6 DEF Dist

(* One tick later.                                                         *)
LEMMA DistTick ==
    ASSUME NEW w \in TickValues, NEW now \in TickValues, Dist(w, now) > -Half
    PROVE  /\ (now + 1) % TickMod \in TickValues
           /\ Dist(w, (now + 1) % TickMod) = Dist(w, now) - 1
  <1> DEFINE x == now + 1
             r == x % TickMod
  <1>1. x \in (-TickMod)..(2 * TickMod - 1) /\ (x < TickMod => x \in TickValues)
    BY HalfFacts DEF TickValues
  <1> HIDE DEF x
  <1>2. r \in TickValues /\ r = IF x < TickMod THEN x ELSE x - TickMod
    <2>1. x < TickMod \/ x >= TickMod
      BY <1>1, TickModAssumption
    <2> QED BY <1>1, <2>1, TickModulus
  <1> HIDE DEF r
  <1>3. r = IF now + 1 < TickMod THEN now + 1 ELSE now + 1 - TickMod
    <2>1. x = now + 1
      BY DEF x
    <2> QED BY <1>2, <2>1, TickModAssumption DEF TickValues
  <1>4. Dist(w, r) = Dist(w, now) - 1
    BY <1>2, <1>3, HalfFacts DEF Dist, TickValues
  <1> QED BY <1>2, <1>4 DEF r, x

(* k ticks ahead.                                                          *)
LEMMA DistAhead ==
    ASSUME NEW now \in TickValues, NEW k \in Nat, k < Half
    PROVE  /\ (now + k) % TickMod \in TickValues
           /\ Dist((now + k) % TickMod, now) = k
  <1> DEFINE x == now + k
             r == x % TickMod
  <1>1. x \in (-TickMod)..(2 * TickMod - 1) /\ (x < TickMod => x \in TickValues)
    BY HalfFacts DEF TickValues
  <1> HIDE DEF x
  <1>2. r \in TickValues /\ r = IF x < TickMod THEN x ELSE x - TickMod
    <2>1. x < TickMod \/ x >= TickMod
      BY <1>1, TickModAssumption
    <2> QED BY <1>1, <2>1, TickModulus
  <1> HIDE DEF r
  <1>3. r = IF now + k < TickMod THEN now + k ELSE now + k - TickMod
    <2>1. x = now + k
      BY DEF x
    <2> QED BY <1>2, <2>1, TickModAssumption DEF TickValues
  <1>4. Dist(r, now) = k
    BY <1>2, <1>3, HalfFacts DEF Dist, TickValues
  <1> QED BY <1>2, <1>4 DEF r, x

(* What the environment assumption says of a wakeup tick.                  *)
LEMMA OverdueDist ==
    ASSUME NEW w \in TickValues, tick \in TickValues, Overdue(w) < MaxOverdue
    PROVE  Dist(w, tick) > -MaxOverdue
  <1> DEFINE x == tick - w
             r == x % TickMod
  <1>1. x \in (-TickMod)..(2 * TickMod - 1) /\ (x >= 0 => x \in TickValues)
    BY HalfFacts DEF TickValues
  <1> HIDE DEF x
  <1>2. r = IF x < 0 THEN x + TickMod ELSE x
    BY <1>1, TickModulus
  <1>3. Overdue(w) = IF Before(w, tick) THEN r ELSE 0
    BY DEF Overdue, x
  <1> HIDE DEF r
  <1>4. r = IF tick - w < 0 THEN tick - w + TickMod ELSE tick - w
    BY <1>2 DEF x
  <1>5. Dist(w, tick) \in (-Half)..(Half - 1) /\ Dist(tick, tick) = 0
    BY DistRange
  <1>6. Before(w, tick) <=> Dist(w, tick) < 0
    BY <1>5, BeforeDist, HalfFacts
  <1>7. CASE ~Before(w, tick)
    BY <1>3, <1>5, <1>6, <1>7, HorizonAssumption, HalfFacts
  <1>8. CASE Before(w, tick)
    <2>1. r < MaxOverdue
      BY <1>3, <1>8
    <2>2. Dist(w, tick) = -r
      BY <1>4, <1>6, <1>8, HalfFacts DEF Dist, TickValues
    <2> QED BY <1>4, <2>1, <2>2, HorizonAssumption, HalfFacts DEF TickValues
  <1> QED BY <1>7, <1>8

(* The distances of the next scan and of the sleepers.                     *)
ScanIn == Dist(wakeupTick, tick)
Due(t) == Dist(wakeup[t], tick)
Sleeping(t) == reason[t] = "SLEEP"

(* The next scan is near.                                                  *)
ScanNear ==
    /\ ScanIn \in (-MaxOverdue)..ScanHorizon
    /\ irq = "tick" => ScanIn >= 0

(* So is every wakeup tick that is still to be used; one that is overdue   *)
(* by a tick more than a suspension allows is about to be scanned.         *)
SleepersNear ==
    \A t \in Tasks : Sleeping(t) =>
        /\ Due(t) \in (-MaxOverdue - 1)..(Half - MaxOverdue - 2)
        /\ (irq # "tick" \/ status[t] # "WAITING") => Due(t) >= -MaxOverdue

(* Outside a scan the next one is not later than any sleeper, ...          *)
SleepersArmed ==
    irq # "tick" => \A t \in Tasks :
        Sleeping(t) /\ status[t] = "WAITING" /\ ~BeingResumed(t) => ScanIn <= Due(t)

(* ... and during a scan not later than any that is not ahead of it.       *)
ScanArms ==
    irq = "tick" => \A t \in Tasks :
        Sleeping(t) /\ status[t] = "WAITING"
            => ScanIn <= Due(t) \/ (scan # NoTask /\ Precedes(Waiting, scan, t))

(* The tick that mrb_resume_task is about to store is earlier than the one *)
(* it replaces, even if an interrupt has changed that since the two were   *)
(* compared.                                                               *)
StoreIsEarlier ==
    pc = "resume_store" =>
        /\ Due(arg) >= -MaxOverdue /\ Due(arg) < ScanIn
        /\ irq = "tick" => Due(arg) < 0

ArmedInv == ScanNear /\ SleepersNear /\ SleepersArmed /\ ScanArms /\ StoreIsEarlier

(* The comparisons the code makes with a sleeper's wakeup tick.            *)
LEMMA SleeperBefore ==
    ASSUME TypeOK, ScanNear, SleepersNear, NEW t \in Tasks, Sleeping(t)
    PROVE  /\ Before(wakeup[t], wakeupTick) <=> Due(t) < ScanIn
           /\ Before(wakeup[t], tick) <=> Due(t) < 0
           /\ Due(t) \in Int /\ ScanIn \in Int
  <1>1. wakeup[t] \in TickValues /\ wakeupTick \in TickValues /\ tick \in TickValues
    BY DEF TypeOK, TickValues
  <1>2. /\ Due(t) \in (-MaxOverdue - 1)..(Half - MaxOverdue - 2)
        /\ ScanIn \in (-MaxOverdue)..ScanHorizon
    BY DEF ScanNear, SleepersNear
  <1>3. Dist(tick, tick) = 0
    BY <1>1, DistRange
  <1>4. /\ Due(t) - ScanIn >= -Half /\ Due(t) - ScanIn < Half
        /\ Due(t) - 0 >= -Half /\ Due(t) - 0 < Half
        /\ Due(t) \in Int /\ ScanIn \in Int
    BY <1>2, HalfFacts, HorizonAssumption
  <1>5. Before(wakeup[t], wakeupTick) <=> Due(t) < ScanIn
    BY <1>1, <1>4, BeforeDist DEF Due, ScanIn
  <1>6. Before(wakeup[t], tick) <=> Due(t) < 0
    BY <1>1, <1>3, <1>4, BeforeDist DEF Due
  <1> QED BY <1>4, <1>5, <1>6

(* Steps that leave the ticks alone and add no sleeper.                    *)
LEMMA QuietArmed ==
    ASSUME ArmedInv, UNCHANGED <<wakeup, tick, wakeupTick>>,
           irq # "tick", irq' # "tick",
           pc \notin {"resume_compare", "resume_store"}, pc' # "resume_store",
           \A t \in Tasks : reason'[t] = "SLEEP" =>
               /\ reason[t] = "SLEEP"
               /\ status'[t] = "WAITING" => status[t] = "WAITING" \/ BeingResumed(t)'
    PROVE  ArmedInv'
  <1>1. ScanIn' = ScanIn /\ \A t \in Tasks : Due(t)' = Due(t)
    BY DEF ScanIn, Due
  <1>2. ScanNear' /\ ScanArms' /\ StoreIsEarlier'
    BY <1>1 DEF ArmedInv, ScanNear, ScanArms, StoreIsEarlier
  <1>3. SleepersNear'
    BY <1>1 DEF ArmedInv, SleepersNear, Sleeping
  <1>4. \A t \in Tasks : ~BeingResumed(t)
    BY DEF BeingResumed
  <1>5. SleepersArmed'
    <2> SUFFICES ASSUME NEW t \in Tasks, Sleeping(t)', status'[t] = "WAITING",
                        ~BeingResumed(t)'
                 PROVE  ScanIn' <= Due(t)'
      BY DEF SleepersArmed
    <2>1. Sleeping(t) /\ status[t] = "WAITING"
      BY DEF Sleeping
    <2>2. ScanIn <= Due(t)
      BY <1>4, <2>1 DEF ArmedInv, SleepersArmed
    <2> QED BY <1>1, <2>2
  <1> QED BY <1>2, <1>3, <1>5 DEF ArmedInv

(* sleep_ms_impl brings the next scan forward when it has to.              *)
LEMMA SleepArms ==
    ASSUME SchedulerInv, ArmedInv, sleep_ms_impl
    PROVE  ArmedInv'
  <1>1. PICK ms \in SleepMs :
          /\ wakeup' = [wakeup EXCEPT ![arg] = (tick + TicksOf(ms)) % TickMod]
          /\ wakeupTick' = ArmedFor((tick + TicksOf(ms)) % TickMod)
    BY DEF sleep_ms_impl
  <1> DEFINE k == TicksOf(ms)
             w == (tick + k) % TickMod
  <1>2. /\ arg \in Tasks /\ pc = "sleep_commit" /\ irq = "on" /\ irq' = "on"
        /\ pc' = "exec" /\ tick' = tick
    BY DEF sleep_ms_impl, At, Return, Goto, SchedulerInv, ArgIsCreated, Created, OpPcs, loopVars
  <1>3. /\ status' = [status EXCEPT ![arg] = "WAITING"]
        /\ reason' = [reason EXCEPT ![arg] = "SLEEP"]
    BY DEF sleep_ms_impl, MoveTask
  <1>4. /\ wakeup \in [Tasks -> TickValues] /\ wakeupTick \in TickValues
        /\ tick \in TickValues
        /\ status \in [Tasks -> Statuses]
        /\ reason \in [Tasks -> {"NONE", "SLEEP", "JOIN"}]
    BY DEF SchedulerInv, TypeOK, TickValues
  <1>5. k \in Nat /\ MaxOverdue + k + 1 < Half /\ k < Half
    BY HalfFacts, HorizonAssumption
  <1>6. w \in TickValues /\ Dist(w, tick) = k
    BY <1>4, <1>5, DistAhead
  <1> HIDE DEF k, w
  <1>7. ScanIn \in (-MaxOverdue)..ScanHorizon
    BY DEF ArmedInv, ScanNear
  <1>8. Before(w, wakeupTick) <=> k < ScanIn
    <2>1. k - ScanIn >= -Half /\ k - ScanIn < Half
      BY <1>5, <1>7, HalfFacts, HorizonAssumption
    <2> QED BY <1>4, <1>6, <2>1, BeforeDist DEF ScanIn
  <1>9. wakeupTick' = IF k < ScanIn THEN w ELSE wakeupTick
    BY <1>1, <1>8 DEF ArmedFor, w, k
  <1>10. ScanIn' = IF k < ScanIn THEN k ELSE ScanIn
    BY <1>2, <1>6, <1>9 DEF ScanIn
  <1>0. PICK a \in Tasks : a = arg
    BY <1>2
  <1>11. Due(a)' = k /\ \A t \in Tasks \ {a} : Due(t)' = Due(t)
    <2>1. wakeup'[a] = w /\ \A t \in Tasks \ {a} : wakeup'[t] = wakeup[t]
      BY <1>0, <1>1, <1>4 DEF w, k
    <2> QED BY <1>2, <1>6, <2>1 DEF Due
  <1>12. ScanNear' /\ ScanIn' <= ScanIn /\ ScanIn' <= k
    BY <1>2, <1>5, <1>7, <1>10, HorizonAssumption DEF ScanNear
  <1>13. \A t \in Tasks \ {a} : status'[t] = status[t] /\ reason'[t] = reason[t]
    BY <1>0, <1>3, <1>4
  <1>14. SleepersNear'
    <2>1. k \in (-MaxOverdue - 1)..(Half - MaxOverdue - 2) /\ k >= -MaxOverdue
      BY <1>5, HalfFacts, HorizonAssumption
    <2> QED BY <1>2, <1>11, <1>13, <2>1 DEF ArmedInv, SleepersNear, Sleeping
  <1>15. SleepersArmed'
    <2> SUFFICES ASSUME NEW t \in Tasks, Sleeping(t)', status'[t] = "WAITING"
                 PROVE  ScanIn' <= Due(t)'
      BY DEF SleepersArmed
    <2>1. CASE t = a
      BY <1>11, <1>12, <2>1
    <2>2. CASE t # a
      <3>1. Sleeping(t) /\ status[t] = "WAITING" /\ ~BeingResumed(t)
        BY <1>2, <1>13, <2>2 DEF Sleeping, BeingResumed
      <3>2. ScanIn <= Due(t) /\ Due(t) \in Int
        BY <1>2, <3>1, HalfFacts, HorizonAssumption
           DEF ArmedInv, SleepersArmed, SleepersNear
      <3>3. ScanIn \in Int /\ ScanIn' \in Int
        BY <1>5, <1>7, <1>10, HorizonAssumption
      <3>4. Due(t)' = Due(t)
        BY <1>11, <2>2
      <3> QED BY <1>12, <3>2, <3>3, <3>4
    <2> QED BY <2>1, <2>2
  <1> QED BY <1>2, <1>12, <1>14, <1>15 DEF ArmedInv, ScanArms, StoreIsEarlier

(* mrb_resume_task compares, ...                                           *)
LEMMA CompareArms ==
    ASSUME SchedulerInv, ArmedInv, ResumeCompare
    PROVE  ArmedInv'
  <1>1. /\ pc = "resume_compare" /\ irq = "on" /\ irq' = "on" /\ arg \in Tasks
        /\ UNCHANGED <<status, reason, wakeup, tick, wakeupTick>>
    BY DEF ResumeCompare, At, loopVars, tickVars, SchedulerInv, ArgIsCreated, Created, OpPcs
  <1>2. ScanIn' = ScanIn /\ \A t \in Tasks : Due(t)' = Due(t) /\ (Sleeping(t)' <=> Sleeping(t))
    BY <1>1 DEF ScanIn, Due, Sleeping
  <1>3. ScanNear' /\ SleepersNear' /\ ScanArms'
    BY <1>1, <1>2 DEF ArmedInv, ScanNear, SleepersNear, ScanArms
  <1>4. Sleeping(arg) => (Before(wakeup[arg], wakeupTick) <=> Due(arg) < ScanIn)
                         /\ Due(arg) \in Int /\ ScanIn \in Int
    BY <1>1, SleeperBefore DEF SchedulerInv, ArmedInv
  <1>5. CASE ResumeNeedsRearm
    <2>1. pc' = "resume_store" /\ arg' = arg /\ Sleeping(arg) /\ Due(arg) < ScanIn
      BY <1>4, <1>5 DEF ResumeCompare, ResumeNeedsRearm, Goto, Sleeping
    <2>2. Due(arg)' = Due(arg)
      BY <1>1, <2>1 DEF Due
    <2>3. StoreIsEarlier'
      BY <1>1, <1>2, <2>1, <2>2 DEF StoreIsEarlier, ArmedInv, SleepersNear
    <2>4. \A t \in Tasks : BeingResumed(t)' <=> BeingResumed(t)
      BY <1>1, <2>1 DEF BeingResumed
    <2>5. SleepersArmed'
      BY <1>1, <1>2, <2>4 DEF ArmedInv, SleepersArmed
    <2> QED BY <1>3, <2>3, <2>5 DEF ArmedInv
  <1>6. CASE ~ResumeNeedsRearm
    <2>1. pc' = "exec"
      BY <1>6 DEF ResumeCompare, Return, Goto
    <2>2. Sleeping(arg) => ScanIn <= Due(arg)
      BY <1>4, <1>6 DEF ResumeNeedsRearm, Sleeping
    <2>3. SleepersArmed'
      BY <1>1, <1>2, <2>2 DEF ArmedInv, SleepersArmed, BeingResumed
    <2> QED BY <1>3, <2>1, <2>3 DEF ArmedInv, StoreIsEarlier
  <1> QED BY <1>5, <1>6

(* ... and stores.                                                         *)
LEMMA StoreArms ==
    ASSUME SchedulerInv, ArmedInv, ResumeStore
    PROVE  ArmedInv'
  <1>1. /\ pc = "resume_store" /\ pc' = "exec" /\ irq = "on" /\ irq' = "on"
        /\ arg \in Tasks /\ wakeupTick' = wakeup[arg]
        /\ UNCHANGED <<status, reason, wakeup, tick>>
    BY DEF ResumeStore, At, Return, Goto, loopVars, SchedulerInv, ArgIsCreated, Created, OpPcs
  <1>2. ScanIn' = Due(arg) /\ \A t \in Tasks : Due(t)' = Due(t) /\ (Sleeping(t)' <=> Sleeping(t))
    BY <1>1 DEF ScanIn, Due, Sleeping
  <1>3. Due(arg) >= -MaxOverdue /\ Due(arg) < ScanIn /\ ScanIn \in (-MaxOverdue)..ScanHorizon
    BY <1>1 DEF ArmedInv, StoreIsEarlier, ScanNear
  <1>4. Due(arg) \in Int
    <2>1. wakeup[arg] \in TickValues /\ tick \in TickValues
      BY <1>1 DEF SchedulerInv, TypeOK, TickValues
    <2> QED BY <2>1, DistRange, HalfFacts DEF Due
  <1>5. ScanNear'
    BY <1>1, <1>2, <1>3, <1>4, HorizonAssumption DEF ScanNear
  <1>6. SleepersNear'
    BY <1>1, <1>2 DEF ArmedInv, SleepersNear
  <1>7. ASSUME NEW t \in Tasks, Sleeping(t), status[t] = "WAITING"
        PROVE  Due(arg) <= Due(t)
    <2>1. CASE t = arg
      BY <1>4, <2>1
    <2>2. CASE t # arg
      <3>1. ~BeingResumed(t)
        BY <2>2 DEF BeingResumed
      <3>2. ScanIn <= Due(t) /\ Due(t) \in Int
        BY <1>1, <1>7, <3>1, HalfFacts, HorizonAssumption
           DEF ArmedInv, SleepersArmed, SleepersNear
      <3> QED BY <1>3, <1>4, <3>2, HorizonAssumption
    <2> QED BY <2>1, <2>2
  <1>8. SleepersArmed'
    BY <1>1, <1>2, <1>7 DEF SleepersArmed
  <1> QED BY <1>1, <1>5, <1>6, <1>8 DEF ArmedInv, ScanArms, StoreIsEarlier

(* A tick: what is near stays near, and a scan is due before a sleeper is. *)
LEMMA TickArms ==
    ASSUME SchedulerInv, ArmedInv, mrb_tick
    PROVE  ArmedInv'
  <1>1. /\ irq = "on" /\ SuspensionIsShort /\ tick' = (tick + 1) % TickMod
        /\ UNCHANGED <<queues, status, reason, wakeup, pc, arg>>
    BY DEF mrb_tick
  <1>2. /\ wakeup \in [Tasks -> TickValues] /\ wakeupTick \in TickValues
        /\ tick \in TickValues
        /\ pc = "resume_store" => arg \in Tasks
    BY DEF SchedulerInv, TypeOK, TickValues, ArgIsCreated, Created, OpPcs
  <1>3. ScanIn \in (-MaxOverdue)..ScanHorizon
    BY DEF ArmedInv, ScanNear
  <1>4. tick' \in TickValues /\ Dist(wakeupTick, tick') = ScanIn - 1
    <2>1. ScanIn > -Half
      BY <1>3, HalfFacts, HorizonAssumption
    <2> QED BY <1>1, <1>2, <2>1, DistTick DEF ScanIn
  <1>5. ASSUME NEW t \in Tasks, Due(t) > -Half
        PROVE  Due(t)' = Due(t) - 1
    BY <1>1, <1>2, <1>5, DistTick DEF Due
  <1>6. ASSUME NEW t \in Tasks, Sleeping(t)
        PROVE  /\ Due(t) \in (-MaxOverdue)..(Half - MaxOverdue - 2)
               /\ Due(t)' = Due(t) - 1
    <2>1. Due(t) \in (-MaxOverdue - 1)..(Half - MaxOverdue - 2) /\ Due(t) >= -MaxOverdue
      BY <1>1, <1>6 DEF ArmedInv, SleepersNear
    <2>2. Due(t) > -Half
      BY <2>1, HalfFacts, HorizonAssumption
    <2> QED BY <1>5, <2>1, <2>2, HalfFacts, HorizonAssumption
  <1>7. ASSUME NEW t \in Tasks, Overdue(wakeup[t]) < MaxOverdue
        PROVE  Due(t) > -MaxOverdue
    BY <1>2, <1>7, OverdueDist DEF Due
  <1>8. \A t \in Tasks : Sleeping(t) /\ (status[t] # "WAITING" \/ BeingResumed(t))
           => Due(t) > -MaxOverdue
    BY <1>1, <1>7 DEF SuspensionIsShort, Sleeping
  <1>9. pc = "resume_store" =>
           /\ Due(arg) > -MaxOverdue /\ Due(arg) < ScanIn
           /\ Due(arg)' = Due(arg) - 1 /\ Due(arg) \in Int
    <2> SUFFICES ASSUME pc = "resume_store"
                 PROVE  /\ Due(arg) > -MaxOverdue /\ Due(arg) < ScanIn
                        /\ Due(arg)' = Due(arg) - 1 /\ Due(arg) \in Int
      OBVIOUS
    <2>1. PICK a \in Tasks : a = arg
      BY <1>2
    <2>2. Due(a) > -MaxOverdue
      BY <1>1, <1>7, <2>1 DEF SuspensionIsShort
    <2>3. Due(a) \in (-Half)..(Half - 1)
      BY <1>2, DistRange DEF Due
    <2>4. Due(a) > -Half /\ Due(a) \in Int
      BY <2>2, <2>3, HalfFacts, HorizonAssumption
    <2>5. Due(a)' = Due(a) - 1
      BY <1>5, <2>4
    <2>6. Due(arg)' = Due(a)'
      BY <1>1, <2>1 DEF Due
    <2> QED BY <2>1, <2>2, <2>4, <2>5, <2>6 DEF ArmedInv, StoreIsEarlier
  <1>10. ScanDue <=> ScanIn < 1
    <2>1. Dist(tick', tick') = 0
      BY <1>4, DistRange
    <2>2. (ScanIn - 1) - 0 >= -Half /\ (ScanIn - 1) - 0 < Half
      BY <1>3, HalfFacts, HorizonAssumption
    <2>3. Before(wakeupTick, tick') <=> ScanIn - 1 < 0
      BY <1>2, <1>4, <2>1, <2>2, BeforeDist
    <2> QED BY <1>1, <1>3, <2>3, HorizonAssumption DEF ScanDue
  <1>11. \A t \in Tasks : Sleeping(t)' <=> Sleeping(t)
    BY <1>1 DEF Sleeping
  <1>12. CASE ScanDue
    <2>1. /\ wakeupTick' = (tick + 1 + ScanHorizon) % TickMod
          /\ irq' = "tick" /\ scan' = HeadOrNull(Waiting)
      BY <1>12 DEF mrb_tick
    <2>2. ScanIn' = ScanHorizon
      <3> DEFINE k == ScanHorizon + 1
      <3>1. k \in Nat /\ k < Half /\ tick + k = tick + 1 + ScanHorizon /\ k > -Half
            /\ k - 1 = ScanHorizon
        BY <1>2, HalfFacts, HorizonAssumption DEF TickValues
      <3> HIDE DEF k
      <3>2. wakeupTick' \in TickValues /\ Dist(wakeupTick', tick) = k
        BY <1>2, <2>1, <3>1, DistAhead
      <3>3. Dist(wakeupTick', tick') = k - 1
        BY <1>1, <1>2, <3>1, <3>2, DistTick
      <3> QED BY <3>1, <3>3 DEF ScanIn
    <2>3. ScanNear'
      BY <2>1, <2>2, HorizonAssumption DEF ScanNear
    <2>4. SleepersNear'
      <3> SUFFICES ASSUME NEW t \in Tasks, Sleeping(t)
                   PROVE  /\ Due(t)' \in (-MaxOverdue - 1)..(Half - MaxOverdue - 2)
                          /\ status[t] # "WAITING" => Due(t)' >= -MaxOverdue
        BY <1>1, <1>11, <2>1 DEF SleepersNear
      <3>1. /\ Due(t) \in (-MaxOverdue)..(Half - MaxOverdue - 2)
            /\ Due(t)' = Due(t) - 1
            /\ status[t] # "WAITING" => Due(t) > -MaxOverdue
        BY <1>6, <1>8
      <3> QED BY <3>1, HalfFacts, HorizonAssumption
    <2>5. ScanArms'
      <3>1. /\ Waiting \in Seq(Tasks)
            /\ \A t \in Tasks : status[t] = "WAITING" => t \in Elems(Waiting)
        BY DEF SchedulerInv, TypeOK, QueueIntegrity, QueueOfStatus, conv_tbl,
               Waiting, QueueNames
      <3>2. Waiting' = Waiting
        BY <1>1 DEF Waiting
      <3>3. \A t \in Tasks : status[t] = "WAITING" =>
               scan' # NoTask /\ Precedes(Waiting, scan', t)
        BY <2>1, <3>1, HeadPrecedes
      <3>4. \A t \in Tasks : status'[t] = "WAITING" =>
               scan' # NoTask /\ Precedes(Waiting', scan', t)
        BY <1>1, <3>2, <3>3
      <3> QED BY <3>4 DEF ScanArms, Precedes
    <2>6. StoreIsEarlier'
      <3> SUFFICES ASSUME pc = "resume_store"
                   PROVE  /\ Due(arg)' >= -MaxOverdue /\ Due(arg)' < ScanIn'
                          /\ Due(arg)' < 0
        BY <1>1 DEF StoreIsEarlier
      <3> QED BY <1>3, <1>9, <1>10, <1>12, <2>2, HorizonAssumption
    <2> QED BY <2>1, <2>3, <2>4, <2>5, <2>6 DEF ArmedInv, SleepersArmed
  <1>13. CASE ~ScanDue
    <2>1. wakeupTick' = wakeupTick /\ irq' = "on"
      BY <1>1, <1>13 DEF mrb_tick
    <2>2. ScanIn' = ScanIn - 1 /\ ScanIn >= 1 /\ ScanIn \in Int
      BY <1>3, <1>4, <1>10, <1>13, <2>1, HorizonAssumption DEF ScanIn
    <2>3. ScanNear'
      BY <1>3, <2>1, <2>2, HorizonAssumption DEF ScanNear
    <2>4. ASSUME NEW t \in Tasks, Sleeping(t), status[t] = "WAITING", ~BeingResumed(t)
          PROVE  ScanIn <= Due(t)
      BY <1>1, <2>4 DEF ArmedInv, SleepersArmed
    <2>5. SleepersNear'
      <3> SUFFICES ASSUME NEW t \in Tasks, Sleeping(t)
                   PROVE  /\ Due(t)' \in (-MaxOverdue - 1)..(Half - MaxOverdue - 2)
                          /\ Due(t)' >= -MaxOverdue
        BY <1>11 DEF SleepersNear
      <3>1. /\ Due(t) \in (-MaxOverdue)..(Half - MaxOverdue - 2)
            /\ Due(t)' = Due(t) - 1
        BY <1>6
      <3>2. Due(t) > -MaxOverdue \/ ScanIn <= Due(t)
        BY <1>8, <2>4
      <3> QED BY <2>2, <3>1, <3>2, HalfFacts, HorizonAssumption
    <2>6. SleepersArmed'
      <3> SUFFICES ASSUME NEW t \in Tasks, Sleeping(t), status[t] = "WAITING",
                          ~BeingResumed(t)
                   PROVE  ScanIn' <= Due(t)'
        BY <1>1, <1>11 DEF SleepersArmed, BeingResumed
      <3>1. Due(t) \in Int /\ Due(t)' = Due(t) - 1
        BY <1>6, HalfFacts, HorizonAssumption
      <3>2. ScanIn <= Due(t)
        BY <2>4
      <3> QED BY <2>2, <3>1, <3>2
    <2>7. StoreIsEarlier'
      <3> SUFFICES ASSUME pc = "resume_store"
                   PROVE  Due(arg)' >= -MaxOverdue /\ Due(arg)' < ScanIn'
        BY <1>1, <2>1 DEF StoreIsEarlier
      <3> QED BY <1>9, <2>2, HorizonAssumption
    <2> QED BY <2>1, <2>3, <2>5, <2>6, <2>7 DEF ArmedInv, ScanArms
  <1> QED BY <1>12, <1>13

(* One task scanned: it is woken, or the next scan is not later than it.   *)
LEMMA ScanArmsStep ==
    ASSUME SchedulerInv, ArmedInv, TickScan
    PROVE  ArmedInv'
  <1>1. /\ irq = "tick" /\ irq' = "tick" /\ scan # NoTask
        /\ scan' = NextIn(Waiting, scan)
        /\ UNCHANGED <<wakeup, tick, pc, arg>>
    BY DEF TickScan
  <1>2. PICK x \in Tasks : x = scan /\ status[x] = "WAITING"
    BY <1>1 DEF SchedulerInv, ScanIsWaiting, TypeOK
  <1>3. /\ Waiting \in Seq(Tasks) /\ Distinct(Waiting)
        /\ status \in [Tasks -> Statuses]
        /\ reason \in [Tasks -> {"NONE", "SLEEP", "JOIN"}]
    BY DEF SchedulerInv, TypeOK, QueueIntegrity, NoDuplicates, Waiting, QueueNames, Distinct
  <1>4. Sleeping(x) => /\ Before(wakeup[x], wakeupTick) <=> Due(x) < ScanIn
                       /\ Before(wakeup[x], tick) <=> Due(x) < 0
                       /\ Due(x) \in Int /\ ScanIn \in Int
    BY <1>2, SleeperBefore DEF SchedulerInv, ArmedInv
  <1>5. \A t \in Tasks : Due(t)' = Due(t)
    BY <1>1 DEF Due
  <1>6. ScanIn \in (-MaxOverdue)..ScanHorizon /\ ScanIn >= 0
    BY <1>1 DEF ArmedInv, ScanNear
  <1>7. ASSUME NEW t \in Tasks, reason'[t] = "SLEEP"
        PROVE  Sleeping(t) /\ status'[t] = status[t]
    BY <1>2, <1>3, <1>7 DEF TickScan, MoveTask, Sleeping
  <1>8. ScanIn' \in 0..ScanHorizon /\ ScanIn' <= ScanIn
    <2>1. CASE wakeupTick' = wakeupTick
      <3>1. ScanIn' = ScanIn
        BY <1>1, <2>1 DEF ScanIn
      <3> QED BY <1>6, <3>1, HorizonAssumption
    <2>2. CASE Sleeping(x) /\ ~Before(wakeup[x], tick) /\ wakeupTick' = LaterScan(x)
      <3>1. ScanIn' = IF Due(x) < ScanIn THEN Due(x) ELSE ScanIn
        BY <1>1, <1>4, <2>2 DEF ScanIn, Due, LaterScan
      <3>2. ~(Due(x) < 0) /\ Due(x) \in Int
        BY <1>4, <2>2
      <3> QED BY <1>6, <3>1, <3>2, HorizonAssumption
    <2> QED BY <1>2, <2>1, <2>2 DEF TickScan, Sleeping
  <1>9. reason'[x] = "SLEEP" => ScanIn' <= Due(x)
    <2> SUFFICES ASSUME reason'[x] = "SLEEP" PROVE ScanIn' <= Due(x)
      OBVIOUS
    <2>1. Sleeping(x) /\ wakeupTick' = LaterScan(x)
      BY <1>2, <1>3 DEF TickScan, Sleeping
    <2>2. ScanIn' = IF Due(x) < ScanIn THEN Due(x) ELSE ScanIn
      BY <1>1, <1>4, <2>1 DEF ScanIn, Due, LaterScan
    <2> QED BY <1>4, <2>1, <2>2
  <1>10. Waiting' \in {Waiting, Without(Waiting, x)}
    <2>1. UNCHANGED queues \/ MoveTask(x, "READY")
      BY <1>2 DEF TickScan
    <2> QED BY <1>2, <2>1, WaitingAfterMove DEF SchedulerInv, Waiting
  <1>11. ScanNear'
    BY <1>8, HorizonAssumption DEF ScanNear
  <1>12. SleepersNear'
    BY <1>1, <1>5, <1>7 DEF ArmedInv, SleepersNear, Sleeping
  <1>13. ScanArms'
    <2> SUFFICES ASSUME NEW t \in Tasks, reason'[t] = "SLEEP", status'[t] = "WAITING"
                 PROVE  ScanIn' <= Due(t) \/ (scan' # NoTask /\ Precedes(Waiting', scan', t))
      BY <1>5 DEF ScanArms, Sleeping, Precedes
    <2>1. Sleeping(t) /\ status[t] = "WAITING"
      BY <1>7
    <2>2. ScanIn <= Due(t) \/ Precedes(Waiting, x, t)
      BY <1>1, <1>2, <2>1 DEF ArmedInv, ScanArms
    <2>3. CASE ScanIn <= Due(t)
      <3>1. Due(t) \in Int
        BY <2>1, HalfFacts, HorizonAssumption DEF ArmedInv, SleepersNear
      <3> QED BY <1>6, <1>8, <2>3, <3>1, HorizonAssumption
    <2>4. CASE t = x
      BY <1>9, <2>4
    <2>5. CASE t # x /\ Precedes(Waiting, x, t)
      <3>1. /\ NextIn(Waiting, x) # NoTask
            /\ Precedes(Waiting, NextIn(Waiting, x), t)
            /\ Precedes(Without(Waiting, x), NextIn(Waiting, x), t)
        BY <1>3, <2>5, NextPrecedes
      <3> QED BY <1>1, <1>2, <1>10, <3>1
    <2> QED BY <2>2, <2>3, <2>4, <2>5
  <1>14. StoreIsEarlier'
    <2> SUFFICES ASSUME pc = "resume_store"
                 PROVE  /\ Due(arg)' >= -MaxOverdue /\ Due(arg)' < ScanIn'
                        /\ Due(arg)' < 0
      BY <1>1 DEF StoreIsEarlier
    <2>1. Due(arg) >= -MaxOverdue /\ Due(arg) < 0
      BY <1>1 DEF ArmedInv, StoreIsEarlier
    <2>2. arg \in Tasks
      BY DEF SchedulerInv, ArgIsCreated, Created, OpPcs
    <2>3. Due(arg)' = Due(arg) /\ Due(arg) \in Int
      <3>1. wakeup[arg] \in TickValues /\ tick \in TickValues
        BY <2>2 DEF SchedulerInv, TypeOK, TickValues
      <3> QED BY <1>1, <3>1, DistRange, HalfFacts DEF Due
    <2> QED BY <1>8, <2>1, <2>3
  <1> QED BY <1>1, <1>11, <1>12, <1>13, <1>14 DEF ArmedInv, SleepersArmed

(* The end of a scan.                                                      *)
LEMMA ScanEndArms ==
    ASSUME SchedulerInv, ArmedInv, TickEnd
    PROVE  ArmedInv'
  <1>1. /\ irq = "tick" /\ irq' = "on" /\ scan = NoTask
        /\ UNCHANGED <<status, reason, wakeup, pc, arg, tick, wakeupTick>>
    BY DEF TickEnd, tickVars
  <1>2. ScanIn' = ScanIn /\ \A t \in Tasks : Due(t)' = Due(t) /\ (Sleeping(t)' <=> Sleeping(t))
    BY <1>1 DEF ScanIn, Due, Sleeping
  <1>3. ScanIn \in (-MaxOverdue)..ScanHorizon /\ ScanIn >= 0
    BY <1>1 DEF ArmedInv, ScanNear
  <1>4. \A t \in Tasks : Sleeping(t) /\ status[t] = "WAITING" => ScanIn <= Due(t)
    BY <1>1 DEF ArmedInv, ScanArms
  <1>5. SleepersNear'
    <2> SUFFICES ASSUME NEW t \in Tasks, Sleeping(t)
                 PROVE  /\ Due(t) \in (-MaxOverdue - 1)..(Half - MaxOverdue - 2)
                        /\ Due(t) >= -MaxOverdue
      BY <1>2 DEF SleepersNear
    <2>1. /\ Due(t) \in (-MaxOverdue - 1)..(Half - MaxOverdue - 2)
          /\ status[t] # "WAITING" => Due(t) >= -MaxOverdue
      BY DEF ArmedInv, SleepersNear
    <2> QED BY <1>3, <1>4, <2>1, HalfFacts, HorizonAssumption
  <1>6. ScanNear' /\ SleepersArmed' /\ ScanArms'
    BY <1>1, <1>2, <1>3, <1>4 DEF ScanNear, SleepersArmed, ScanArms
  <1>7. StoreIsEarlier'
    BY <1>1 DEF ArmedInv, StoreIsEarlier, Due, ScanIn
  <1> QED BY <1>5, <1>6, <1>7 DEF ArmedInv

(* The steps of the main program that add no sleeper: the run loop, ...    *)
LEMMA LoopArms ==
    ASSUME SchedulerInv, ArmedInv,
           \/ BootRun \/ ExitTest \/ Pick \/ Mark \/ LoadTimeslice \/ VMYield
           \/ VMFinish \/ ClearSwitching \/ CheckStatus \/ Requeue \/ Retire
           \/ WakeJoinersBegin \/ WakeJoinersScan \/ WakeJoinersEnd \/ BootCreate
    PROVE  ArmedInv'
  <1> USE DEF At, Goto, taskVars, tickVars, loopVars
  <1>0. /\ status \in [Tasks -> Statuses]
        /\ reason \in [Tasks -> {"NONE", "SLEEP", "JOIN"}]
        /\ scan # NoTask => scan \in Tasks
    BY DEF SchedulerInv, TypeOK
  <1>1. CASE BootRun \/ ExitTest \/ Pick \/ LoadTimeslice \/ VMYield \/ VMFinish
             \/ ClearSwitching
    <2>1. /\ UNCHANGED <<status, reason, wakeup, tick, wakeupTick>>
          /\ irq = "on" /\ irq' = "on"
          /\ pc \notin {"resume_compare", "resume_store"} /\ pc' # "resume_store"
      BY <1>1 DEF BootRun, LoopStart, ExitTest, Pick, LoadTimeslice, VMYield, VMFinish,
                  ClearSwitching
    <2> QED BY <2>1, QuietArmed
  <1>2. CASE Mark \/ CheckStatus \/ Requeue \/ Retire
    <2>1. /\ UNCHANGED <<reason, wakeup, tick, wakeupTick>>
          /\ irq = "on" /\ irq' = "on"
          /\ pc \notin {"resume_compare", "resume_store"} /\ pc' # "resume_store"
          /\ \/ status' = status
             \/ \E s \in {"RUNNING", "READY", "DORMANT"} :
                   status' = [status EXCEPT ![tcb] = s]
      BY <1>2 DEF Mark, CheckStatus, Requeue, Retire, MoveTask
    <2>2. \A t \in Tasks : status'[t] = "WAITING" => status[t] = "WAITING"
      BY <1>0, <2>1
    <2> QED BY <2>1, <2>2, QuietArmed
  <1>3. CASE WakeJoinersBegin \/ WakeJoinersScan \/ WakeJoinersEnd
    <2>1. /\ UNCHANGED <<wakeup, tick, wakeupTick>>
          /\ irq # "tick" /\ irq' # "tick"
          /\ pc \notin {"resume_compare", "resume_store"} /\ pc' # "resume_store"
      BY <1>3 DEF WakeJoinersBegin, WakeJoinersScan, WakeJoinersEnd, LoopStart,
                  SchedulerInv, ScanIsWaiting
    <2>2. \A t \in Tasks : /\ reason'[t] = "SLEEP" => reason[t] = "SLEEP"
                           /\ status'[t] = "WAITING" => status[t] = "WAITING"
      <3>1. CASE WakeJoinersBegin
        BY <3>1 DEF WakeJoinersBegin
      <3>2. CASE WakeJoinersScan
        BY <1>0, <3>2 DEF WakeJoinersScan, MoveTask
      <3>3. CASE WakeJoinersEnd
        BY <1>0, <3>3 DEF WakeJoinersEnd
      <3> QED BY <1>3, <3>1, <3>2, <3>3
    <2> QED BY <2>1, <2>2, QuietArmed
  <1>4. CASE BootCreate
    <2>1. PICK t \in Tasks, p \in Priorities : mrb_create_task(t, p)
      BY <1>4 DEF BootCreate
    <2>2. /\ UNCHANGED <<reason, wakeup, tick, wakeupTick>>
          /\ irq = "on" /\ irq' = "on" /\ pc = "boot" /\ pc' = "boot"
          /\ status' = [status EXCEPT ![t] = "READY"]
      BY <1>4, <2>1 DEF mrb_create_task, BootCreate
    <2>3. \A u \in Tasks : status'[u] = "WAITING" => status[u] = "WAITING"
      BY <1>0, <2>2
    <2> QED BY <2>2, <2>3, QuietArmed
  <1> QED BY <1>1, <1>2, <1>3, <1>4

(* ... a script's call and the methods other than sleep.                   *)
LEMMA MethodArms ==
    ASSUME SchedulerInv, ArmedInv,
           \/ Call \/ SleepReadsHead \/ mrb_suspend_task \/ mrb_resume_task
           \/ mrb_terminate_task \/ mrb_task_join \/ mrb_task_s_pass
           \/ mrb_task_s_new \/ mrb_stop_task \/ mrb_task_reset_context
    PROVE  ArmedInv'
  <1> USE DEF At, Goto, Return, taskVars, tickVars, loopVars
  <1>0. /\ status \in [Tasks -> Statuses]
        /\ reason \in [Tasks -> {"NONE", "SLEEP", "JOIN"}]
    BY DEF SchedulerInv, TypeOK
  <1>1. CASE Call
    <2>1. pc' \in AllOps \cup {"terminate"}
      BY <1>1, OpsAssumption DEF Call
    <2>2. pc' # "resume_store"
      BY <2>1 DEF AllOps
    <2>3. /\ UNCHANGED <<status, reason, wakeup, tick, wakeupTick>>
          /\ irq = "on" /\ irq' = "on" /\ pc = "exec"
      BY <1>1 DEF Call
    <2> QED BY <2>2, <2>3, QuietArmed
  <1>2. CASE SleepReadsHead \/ mrb_task_s_pass \/ mrb_stop_task \/ mrb_task_reset_context
    <2>1. /\ UNCHANGED <<status, reason, wakeup, tick, wakeupTick>>
          /\ irq = "on" /\ irq' = "on"
          /\ pc \notin {"resume_compare", "resume_store"} /\ pc' # "resume_store"
      BY <1>2 DEF SleepReadsHead, mrb_task_s_pass, mrb_stop_task, mrb_task_reset_context
    <2> QED BY <2>1, QuietArmed
  <1>3. CASE mrb_suspend_task \/ mrb_terminate_task \/ mrb_task_join
    <2>1. /\ UNCHANGED <<wakeup, tick, wakeupTick>>
          /\ irq = "on" /\ irq' = "on"
          /\ pc \notin {"resume_compare", "resume_store"} /\ pc' # "resume_store"
      BY <1>3 DEF mrb_suspend_task, mrb_terminate_task, mrb_task_join
    <2>2. \A t \in Tasks : reason'[t] = "SLEEP" =>
             reason[t] = "SLEEP" /\ (status'[t] = "WAITING" => status[t] = "WAITING")
      <3>1. CASE mrb_suspend_task
        BY <1>0, <3>1 DEF mrb_suspend_task, MoveTask
      <3>2. CASE mrb_terminate_task
        BY <1>0, <3>2 DEF mrb_terminate_task, MoveTask
      <3>3. CASE mrb_task_join
        BY <1>0, <3>3 DEF mrb_task_join, MoveTask
      <3> QED BY <1>3, <3>1, <3>2, <3>3
    <2> QED BY <2>1, <2>2, QuietArmed
  <1>4. CASE mrb_resume_task
    <2>1. /\ UNCHANGED <<reason, wakeup, tick, wakeupTick>>
          /\ irq = "on" /\ irq' = "on" /\ pc = "resume" /\ pc' # "resume_store"
      BY <1>4 DEF mrb_resume_task
    <2>2. \A t \in Tasks :
             status'[t] = "WAITING" => status[t] = "WAITING" \/ BeingResumed(t)'
      BY <1>0, <1>4 DEF mrb_resume_task, MoveTask, BeingResumed
    <2> QED BY <2>1, <2>2, QuietArmed
  <1>5. CASE mrb_task_s_new
    <2>1. PICK p \in Priorities : mrb_create_task(arg, p)
      BY <1>5 DEF mrb_task_s_new
    <2>2. /\ UNCHANGED <<reason, wakeup, tick, wakeupTick>>
          /\ irq = "on" /\ irq' = "on" /\ pc = "create" /\ pc' = "exec"
          /\ status' = [status EXCEPT ![arg] = "READY"]
      BY <1>5, <2>1 DEF mrb_create_task, mrb_task_s_new
    <2>3. \A u \in Tasks : status'[u] = "WAITING" => status[u] = "WAITING"
      BY <1>0, <2>2
    <2> QED BY <2>2, <2>3, QuietArmed
  <1> QED BY <1>1, <1>2, <1>3, <1>4, <1>5

(* Every step preserves the invariant of the wakeup ticks.                 *)
LEMMA ArmedStep ==
    ASSUME SchedulerInv, ArmedInv, [Next]_vars
    PROVE  ArmedInv'
  <1>1. CASE Interrupt
    BY <1>1, TickArms, ScanArmsStep, ScanEndArms DEF Interrupt
  <1>2. CASE Progress
    BY <1>2, LoopArms, MethodArms, SleepArms, CompareArms, StoreArms DEF Progress
  <1>3. CASE Script
    BY <1>3, LoopArms, MethodArms DEF Script
  <1>4. CASE UNCHANGED vars
    <2>1. ScanNear' /\ SleepersNear'
      BY <1>4 DEF vars, ArmedInv, ScanNear, SleepersNear, ScanIn, Due, Sleeping
    <2>2. SleepersArmed' /\ StoreIsEarlier'
      BY <1>4 DEF vars, ArmedInv, SleepersArmed, StoreIsEarlier, BeingResumed, ScanIn, Due,
                  Sleeping
    <2>3. ScanArms'
      BY <1>4 DEF vars, ArmedInv, ScanArms, ScanIn, Due, Sleeping, Precedes, Waiting
    <2> QED BY <2>1, <2>2, <2>3 DEF ArmedInv
  <1> QED BY <1>1, <1>2, <1>3, <1>4 DEF Next

(* The next scan of the waiting queue comes no later than any sleeper's    *)
(* wakeup tick: for any set of calls, and across every wrap-around of the  *)
(* tick counter, including the window of mrb_resume_task in which          *)
(* wakeup_tick_ is compared and stored with interrupts enabled.            *)
THEOREM NoSleeperForgotten == Spec => []WakeupArmed
  <1>1. Init => ArmedInv
    <2> SUFFICES ASSUME Init PROVE ArmedInv
      OBVIOUS
    <2>1. ScanIn = ScanHorizon
      BY HalfFacts, HorizonAssumption DEF Init, ScanIn, Dist
    <2>2. ScanNear
      BY <2>1, HorizonAssumption DEF Init, ScanNear
    <2>3. \A t \in Tasks : ~Sleeping(t)
      BY DEF Init, Sleeping
    <2> QED BY <2>2, <2>3 DEF Init, ArmedInv, SleepersNear, SleepersArmed, ScanArms,
                              StoreIsEarlier
  <1>2. SchedulerInv /\ ArmedInv /\ [Next]_vars => ArmedInv'
    BY ArmedStep
  <1>3. SchedulerInv /\ ArmedInv => WakeupArmed
    <2> SUFFICES ASSUME SchedulerInv, ArmedInv, NEW t \in Tasks, status[t] = "WAITING",
                        Sleeping(t), irq # "tick", ~BeingResumed(t)
                 PROVE  ~Before(wakeup[t], wakeupTick)
      BY DEF WakeupArmed, Sleeping
    <2>1. ScanIn <= Due(t)
      BY DEF ArmedInv, SleepersArmed
    <2>2. /\ Before(wakeup[t], wakeupTick) <=> Due(t) < ScanIn
          /\ Due(t) \in Int /\ ScanIn \in Int
      BY SleeperBefore DEF SchedulerInv, ArmedInv
    <2> QED BY <2>1, <2>2
  <1> QED BY <1>1, <1>2, <1>3, SchedulerInvariance, PTL DEF Spec
=============================================================================
