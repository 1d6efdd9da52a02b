---------------------------- MODULE QueueProofs ----------------------------
(***************************************************************************)
(* Machine-checked proofs about the two queues of the library and the      *)
(* arrays that they are kept in: about TaskQueue, for every set of threads *)
(* and every number of tasks; about DXArray, for arrays of every size; and *)
(* about ConnectionQueue, for any number of connections and of application *)
(* threads: no connection is freed twice, whatever listeners call; and as  *)
(* long as they only close connections, no close is lost.                  *)
(***************************************************************************)
EXTENDS TaskQueue, DXArray, ConnectionQueue, TLAPS

\* The identities of tasks are natural numbers.
LEMMA TaskType == \A t \in Tasks : t \in Nat
BY TaskQueueAssumption DEF Tasks

\* Deleting position k of an array keeps the order, shifts the tail by one and
\* removes exactly the element at k from an array without duplicates.
LEMMA WithoutFacts ==
  ASSUME NEW s \in Seq(Tasks), NEW k \in 1..Len(s),
         \A a, b \in 1..Len(s) : a < b => s[a] < s[b]
  PROVE  /\ Without(s, k) \in Seq(Tasks)
         /\ Len(Without(s, k)) = Len(s) - 1
         /\ \A j \in 1..(Len(s) - 1) :
              Without(s, k)[j] = IF j < k THEN s[j] ELSE s[j + 1]
         /\ Range(Without(s, k)) = Range(s) \ {s[k]}
         /\ \A a, b \in 1..(Len(s) - 1) :
              a < b => Without(s, k)[a] < Without(s, k)[b]
<1> DEFINE w == Without(s, k)
<1>1. /\ w \in Seq(Tasks)
      /\ Len(w) = Len(s) - 1
      /\ DOMAIN w = 1..(Len(s) - 1)
      /\ \A j \in 1..(Len(s) - 1) : w[j] = IF j < k THEN s[j] ELSE s[j + 1]
  <2>1. Len(s) - 1 \in Nat /\ Len(s) \in Nat
    OBVIOUS
  <2>2. \A j \in 1..(Len(s) - 1) : j \in 1..Len(s) /\ j + 1 \in 1..Len(s)
    BY <2>1
  <2>3. \A j \in 1..(Len(s) - 1) : (IF j < k THEN s[j] ELSE s[j + 1]) \in Tasks
    BY <2>2
  <2> QED
    BY <2>1, <2>3 DEF Without
<1>2. \A a, b \in 1..(Len(s) - 1) : a < b => w[a] < w[b]
  <2> SUFFICES ASSUME NEW a \in 1..(Len(s) - 1), NEW b \in 1..(Len(s) - 1), a < b
               PROVE  w[a] < w[b]
    OBVIOUS
  <2>1. a \in 1..Len(s) /\ a + 1 \in 1..Len(s) /\ b \in 1..Len(s) /\ b + 1 \in 1..Len(s)
    OBVIOUS
  <2> QED
    BY <1>1, <2>1, SMTT(30)
<1>3. Range(w) \subseteq Range(s) \ {s[k]}
  <2> SUFFICES ASSUME NEW j \in 1..(Len(s) - 1)
               PROVE  w[j] \in Range(s) \ {s[k]}
    BY <1>1 DEF Range
  <2>1. CASE j < k
    <3>1. w[j] = s[j] /\ j \in 1..Len(s) /\ s[j] < s[k]
      BY <1>1, <2>1
    <3>2. s[j] \in Tasks /\ s[k] \in Tasks
      BY <3>1
    <3>3. s[j] # s[k]
      BY <3>1, <3>2, TaskType
    <3> QED
      BY <3>1, <3>3 DEF Range
  <2>2. CASE ~(j < k)
    <3>1. w[j] = s[j + 1] /\ j + 1 \in 1..Len(s) /\ s[k] < s[j + 1]
      BY <1>1, <2>2
    <3>2. s[j + 1] \in Tasks /\ s[k] \in Tasks
      BY <3>1
    <3>3. s[j + 1] # s[k]
      BY <3>1, <3>2, TaskType
    <3> QED
      BY <3>1, <3>3 DEF Range
  <2> QED
    BY <2>1, <2>2
<1>4. Range(s) \ {s[k]} \subseteq Range(w)
  <2> SUFFICES ASSUME NEW j \in 1..Len(s), s[j] # s[k]
               PROVE  s[j] \in Range(w)
    BY DEF Range
  <2>1. CASE j < k
    <3>1. j \in DOMAIN w /\ w[j] = s[j]
      BY <1>1, <2>1
    <3> QED
      BY <3>1 DEF Range
  <2>2. CASE j > k
    <3>1. j - 1 \in DOMAIN w /\ w[j - 1] = s[j]
      BY <1>1, <2>2
    <3> QED
      BY <3>1 DEF Range
  <2> QED
    BY <2>1, <2>2
<1> QED
  BY <1>1, <1>2, <1>3, <1>4

\* Appending keeps the other elements and adds exactly the new one.
LEMMA AppendFacts ==
  ASSUME NEW s \in Seq(Tasks), NEW e \in Tasks
  PROVE  /\ Append(s, e) \in Seq(Tasks)
         /\ Len(Append(s, e)) = Len(s) + 1
         /\ \A j \in 1..Len(s) : Append(s, e)[j] = s[j]
         /\ Append(s, e)[Len(s) + 1] = e
         /\ Range(Append(s, e)) = Range(s) \cup {e}
<1>1. /\ Append(s, e) \in Seq(Tasks)
      /\ Len(Append(s, e)) = Len(s) + 1
      /\ DOMAIN Append(s, e) = 1..(Len(s) + 1)
      /\ \A j \in 1..Len(s) : Append(s, e)[j] = s[j]
      /\ Append(s, e)[Len(s) + 1] = e
  OBVIOUS
<1>2. Range(s) \cup {e} \subseteq Range(Append(s, e))
  BY <1>1 DEF Range
<1>3. Range(Append(s, e)) \subseteq Range(s) \cup {e}
  <2> SUFFICES ASSUME NEW j \in 1..(Len(s) + 1)
               PROVE  Append(s, e)[j] \in Range(s) \cup {e}
    BY <1>1 DEF Range
  <2>1. j \in 1..Len(s) \/ j = Len(s) + 1
    OBVIOUS
  <2> QED
    BY <1>1, <2>1 DEF Range
<1> QED
  BY <1>1, <1>2, <1>3

\* The elements of an array of tasks are the tasks at its positions.
LEMMA RangeOfSequence ==
  ASSUME NEW s \in Seq(Tasks)
  PROVE  /\ Range(s) = {s[j] : j \in 1..Len(s)}
         /\ Range(s) \subseteq Tasks
  BY DEF Range

-----------------------------------------------------------------------------
\* dx_create_task_queue makes a queue that satisfies the invariant.
LEMMA InitInv == Init => QueueInv
<1> SUFFICES ASSUME Init PROVE QueueInv
  OBVIOUS
<1> USE DEF Init
<1>1. Range(elements) = {} /\ Len(elements) = 0
  BY DEF Range
<1>2. TypeOK
  <2>1. elements \in Seq(Tasks) /\ next \in 1..(MaxTasks + 1)
    BY TaskQueueAssumption
  <2>2. res \in BOOLEAN /\ inPass \in BOOLEAN /\ alive \in BOOLEAN
    BY Zenon
  <2> QED
    BY <2>1, <2>2 DEF TypeOK
<1>3. TaskAccounting
  BY <1>1 DEF TaskAccounting
<1>4. FirstRunsInOrder /\ Ordered /\ PassPrefixBegun /\ GuardHeldInPass /\ ReleasedBegun
  BY <1>1 DEF FirstRunsInOrder, Ordered, PassPrefixBegun, GuardHeldInPass, ReleasedBegun
<1> QED
  BY <1>2, <1>3, <1>4 DEF QueueInv

\* dx_add_task_to_queue: the new task is the youngest, and goes last.
LEMMA AddInv == QueueInv /\ Add => QueueInv'
<1> SUFFICES ASSUME QueueInv, Add PROVE QueueInv'
  OBVIOUS
<1> USE DEF QueueInv, Add
<1>1. elements \in Seq(Tasks) /\ next \in Tasks /\ next \in Nat /\ 1 <= next
  BY TaskQueueAssumption DEF TypeOK, Tasks
<1>2. Range(elements') = Range(elements) \cup {next}
  BY <1>1, AppendFacts
<1>3. \A j \in 1..Len(elements) : elements[j] \in 1..(next - 1)
  BY <1>1, RangeOfSequence DEF TaskAccounting
<1>4. TypeOK'
  BY <1>1, AppendFacts, TaskQueueAssumption DEF TypeOK
<1>5. TaskAccounting'
  <2>1. 1..(next' - 1) = 1..(next - 1) \cup {next}
    BY <1>1
  <2>2. next \notin 1..(next - 1)
    BY <1>1
  <2> QED
    BY <1>2, <2>1, <2>2 DEF TaskAccounting
<1>6. Ordered'
  <2> SUFFICES ASSUME NEW j \in 1..Len(elements'), NEW k \in 1..Len(elements'), j < k
               PROVE  elements'[j] < elements'[k]
    BY DEF Ordered
  <2>1. j \in 1..Len(elements) /\ (k \in 1..Len(elements) \/ k = Len(elements) + 1)
    BY <1>1, AppendFacts
  <2> QED
    BY <1>1, <1>3, <2>1, AppendFacts DEF Ordered
<1>7. PassPrefixBegun'
  BY DEF GuardHeldInPass, PassPrefixBegun
<1>8. (FirstRunsInOrder /\ GuardHeldInPass)'
  BY DEF FirstRunsInOrder, GuardHeldInPass
<1>9. ReleasedBegun'
  BY <1>1 DEF ReleasedBegun
<1> QED
  BY <1>4, <1>5, <1>6, <1>7, <1>8, <1>9

\* One iteration of dx_execute_task_queue, with a reallocation that succeeds.
LEMMA RunInv ==
  ASSUME ~AllocMayFail, QueueInv, NEW out \in SUBSET Flags, NEW f \in BOOLEAN,
         RunTask(out, f)
  PROVE  QueueInv'
<1> USE DEF QueueInv
<1> DEFINE task == elements[i + 1]
<1>1. /\ inPass /\ i \in Nat /\ i < Len(elements) /\ ~f
      /\ elements \in Seq(Tasks)
      /\ begun' = begun \cup {task}
      /\ released' = IF "pop_me" \in out THEN released \cup {task} ELSE released
      /\ elements' = IF "pop_me" \in out THEN Without(elements, i + 1) ELSE elements
      /\ inPass' \in BOOLEAN /\ res' \in BOOLEAN
      /\ i' = i \/ (i' = i + 1 /\ "pop_me" \notin out)
      /\ UNCHANGED <<guard, alive, next, discarded>>
  BY DEF RunTask, TypeOK
<1>2. i + 1 \in 1..Len(elements) /\ Len(elements) \in Nat
  BY <1>1
<1>3. task \in Tasks /\ task \in Range(elements) /\ task \in 1..(next - 1)
  BY <1>1, <1>2, RangeOfSequence DEF TaskAccounting
<1>4. \A j \in 1..Len(elements) : \A k \in 1..Len(elements) : j < k => elements[j] < elements[k]
  BY DEF Ordered
<1>5. /\ Without(elements, i + 1) \in Seq(Tasks)
      /\ Len(Without(elements, i + 1)) = Len(elements) - 1
      /\ \A j \in 1..(Len(elements) - 1) :
           Without(elements, i + 1)[j] = IF j < i + 1 THEN elements[j] ELSE elements[j + 1]
      /\ Range(Without(elements, i + 1)) = Range(elements) \ {task}
      /\ \A a, b \in 1..(Len(elements) - 1) :
           a < b => Without(elements, i + 1)[a] < Without(elements, i + 1)[b]
  BY <1>1, <1>2, <1>4, WithoutFacts
<1>6. TypeOK'
  BY <1>1, <1>3, <1>5, TaskQueueAssumption DEF TypeOK
<1>7. TaskAccounting'
  BY <1>1, <1>3, <1>5 DEF TaskAccounting
<1>8. Ordered'
  BY <1>1, <1>5 DEF Ordered
<1>9. PassPrefixBegun'
  <2>1. i <= Len(elements) /\ \A j \in 1..i : elements[j] \in begun
    BY <1>1 DEF PassPrefixBegun
  <2>2. CASE "pop_me" \in out
    <3>1. i' = i /\ Len(elements') = Len(elements) - 1
      BY <1>1, <1>5, <2>2
    <3>2. \A j \in 1..i : elements'[j] = elements[j]
      BY <1>1, <1>2, <1>5, <2>2
    <3> QED
      BY <1>1, <1>2, <2>1, <3>1, <3>2 DEF PassPrefixBegun
  <2>3. CASE "pop_me" \notin out
    <3>1. elements' = elements
      BY <1>1, <2>3
    <3>2. \A j \in 1..(i + 1) : j \in 1..i \/ j = i + 1
      BY <1>1
    <3>3. \A j \in 1..(i + 1) : elements[j] \in begun'
      BY <1>1, <2>1, <3>2
    <3>4. i' <= Len(elements) /\ \A j \in 1..i' : j \in 1..(i + 1)
      BY <1>1, <1>2
    <3> QED
      BY <3>1, <3>3, <3>4 DEF PassPrefixBegun
  <2> QED
    BY <2>2, <2>3
<1>10. FirstRunsInOrder'
  \* Whatever was submitted before the task is over, thrown away, or stands
  \* in the part of the array the pass has already gone over.
  <2>1. 1..(task - 1) \subseteq begun' \cup discarded'
    <3> SUFFICES ASSUME NEW u \in 1..(task - 1) PROVE u \in begun' \cup discarded'
      OBVIOUS
    <3>1. task \in Nat /\ next \in Nat
      BY <1>3, TaskType DEF TypeOK
    <3>2. u \in 1..(next - 1) /\ u < task
      BY <1>3, <3>1
    <3>3. u \in Range(elements) \/ u \in released \/ u \in discarded
      BY <3>2 DEF TaskAccounting
    <3>4. CASE u \in Range(elements)
      <4>1. PICK j \in 1..Len(elements) : u = elements[j]
        BY <1>1, <3>4, RangeOfSequence
      <4>2. ~(i + 1 < j) /\ j # i + 1
        <5>1. CASE i + 1 < j
          <6>1. task < u
            BY <1>2, <1>4, <4>1, <5>1
          <6> QED
            BY <3>1, <3>2, <6>1
        <5>2. CASE j = i + 1
          BY <3>1, <3>2, <4>1, <5>2
        <5> QED
          BY <5>1, <5>2
      <4>3. j \in 1..i
        BY <1>1, <1>2, <4>2
      <4> QED
        BY <1>1, <4>1, <4>3 DEF PassPrefixBegun
    <3> QED
      BY <1>1, <3>3, <3>4 DEF ReleasedBegun
  <2> QED
    BY <1>1, <2>1 DEF FirstRunsInOrder
<1>11. GuardHeldInPass'
  BY <1>1 DEF GuardHeldInPass
<1>12. ReleasedBegun'
  BY <1>1, <1>3 DEF ReleasedBegun
<1> QED
  BY <1>6, <1>7, <1>8, <1>9, <1>10, <1>11, <1>12

\* The steps that only lock, unlock or empty the queue.
LEMMA GuardInv ==
  QueueInv /\ ((\E t \in Threads : BeginExecute(t)) \/ EndExecute) => QueueInv'
<1> SUFFICES ASSUME QueueInv, (\E t \in Threads : BeginExecute(t)) \/ EndExecute
             PROVE  QueueInv'
  OBVIOUS
<1>1. /\ UNCHANGED <<elements, alive, next, begun, released, discarded>>
      /\ guard' \in Threads \cup {NoThread} /\ i' \in Nat /\ res' \in BOOLEAN
      /\ inPass' \in BOOLEAN
      /\ inPass' => i' = 0 /\ guard' # NoThread /\ alive'
  <2>1. CASE EndExecute
    BY <2>1 DEF EndExecute, QueueInv, TypeOK
  <2>2. CASE \E t \in Threads : BeginExecute(t)
    <3>1. PICK t \in Threads : BeginExecute(t)
      BY <2>2
    <3>2. i' = 0 /\ i' \in Nat /\ guard' = t /\ t # NoThread
      BY <3>1, TaskQueueAssumption DEF BeginExecute
    <3>3. res' \in BOOLEAN /\ inPass' \in BOOLEAN
      BY <3>1, Zenon DEF BeginExecute
    <3> QED
      BY <3>1, <3>2, <3>3, Zenon DEF BeginExecute
  <2> QED
    BY <2>1, <2>2
<1>2. Len(elements) \in Nat
  BY DEF QueueInv, TypeOK
<1>3. TypeOK'
  BY <1>1 DEF QueueInv, TypeOK
<1>4. (TaskAccounting /\ FirstRunsInOrder /\ Ordered /\ ReleasedBegun)'
  BY <1>1 DEF QueueInv, TaskAccounting, FirstRunsInOrder, Ordered, ReleasedBegun
<1>5. PassPrefixBegun'
  BY <1>1, <1>2 DEF PassPrefixBegun
<1>6. GuardHeldInPass'
  BY <1>1 DEF GuardHeldInPass
<1> QED
  BY <1>3, <1>4, <1>5, <1>6 DEF QueueInv

LEMMA DiscardInv == QueueInv /\ (Cleanup \/ Destroy) => QueueInv'
<1> SUFFICES ASSUME QueueInv, Cleanup \/ Destroy PROVE QueueInv'
  OBVIOUS
<1>1. /\ elements' = <<>> /\ guard = NoThread
      /\ discarded' = discarded \cup Range(elements)
      /\ alive' \in BOOLEAN
      /\ UNCHANGED <<guard, i, res, inPass, next, begun, released>>
  BY DEF Cleanup, Destroy, DiscardAll, QueueInv, TypeOK
<1>2. ~inPass'
  BY <1>1 DEF QueueInv, GuardHeldInPass
<1>3. Range(elements') = {} /\ Len(elements') = 0
  BY <1>1 DEF Range
<1>4. TypeOK'
  <2>1. Range(elements) \subseteq Tasks
    BY RangeOfSequence DEF QueueInv, TypeOK
  <2> QED
    BY <1>1, <2>1 DEF QueueInv, TypeOK
<1>5. TaskAccounting'
  BY <1>1, <1>3 DEF QueueInv, TaskAccounting
<1>6. (FirstRunsInOrder /\ ReleasedBegun)'
  BY <1>1 DEF QueueInv, FirstRunsInOrder, ReleasedBegun
<1>7. (Ordered /\ PassPrefixBegun /\ GuardHeldInPass)'
  BY <1>2, <1>3 DEF Ordered, PassPrefixBegun, GuardHeldInPass
<1> QED
  BY <1>4, <1>5, <1>6, <1>7 DEF QueueInv

\* Every step of the queue preserves the invariant.
LEMMA NextInv == ASSUME ~AllocMayFail PROVE QueueInv /\ [Next]_vars => QueueInv'
<1> SUFFICES ASSUME QueueInv, [Next]_vars PROVE QueueInv'
  OBVIOUS
<1>1. CASE Add
  BY <1>1, AddInv
<1>2. CASE (\E t \in Threads : BeginExecute(t)) \/ EndExecute
  BY <1>2, GuardInv
<1>3. ASSUME NEW out \in SUBSET Flags, NEW f \in BOOLEAN, RunTask(out, f)
      PROVE  QueueInv'
  BY <1>3, RunInv
<1>4. CASE Cleanup \/ Destroy
  BY <1>4, DiscardInv
<1>5. CASE UNCHANGED vars
  BY <1>5 DEF vars, QueueInv, TypeOK, TaskAccounting, FirstRunsInOrder, Ordered,
     PassPrefixBegun, GuardHeldInPass, ReleasedBegun
<1> QED
  BY <1>1, <1>2, <1>3, <1>4, <1>5 DEF Next

\* As long as allocations succeed, every task added to the queue is at any time
\* in exactly one place: queued, popped after running, or thrown away.
THEOREM TaskAccountingHolds == ASSUME ~AllocMayFail PROVE Spec => []TaskAccounting
<1>1. QueueInv => TaskAccounting
  BY DEF QueueInv
<1> QED
  BY InitInv, NextInv, <1>1, PTL DEF Spec

\* Tasks are run for the first time in the order they were added, for any
\* number of tasks and threads, whatever the processors answer.
THEOREM FirstRunsInOrderHolds == ASSUME ~AllocMayFail PROVE Spec => []FirstRunsInOrder
<1>1. QueueInv => FirstRunsInOrder
  BY DEF QueueInv
<1> QED
  BY InitInv, NextInv, <1>1, PTL DEF Spec

\* The inductive invariant itself, with the type invariant in it.
THEOREM QueueInvHolds == ASSUME ~AllocMayFail PROVE Spec => []QueueInv
BY InitInv, NextInv, PTL DEF Spec

-----------------------------------------------------------------------------
\* Every step of the queue is a step of TaskService, or changes nothing there.
LEMMA StepRefines ==
  ASSUME ~AllocMayFail, QueueInv, [Next]_vars
  PROVE  [Service!Next]_(Service!vars)
<1> USE DEF Service!vars
<1>1. elements \in Seq(Tasks)
  BY DEF QueueInv, TypeOK
<1>2. CASE Add
  <2>1. next \in Tasks
    BY <1>2, TaskQueueAssumption DEF Add, QueueInv, TypeOK, Tasks
  <2>2. Range(elements') = Range(elements) \cup {next}
    BY <1>1, <1>2, <2>1, AppendFacts DEF Add
  <2> QED
    BY <1>2, <2>2 DEF Add, Service!Next, Service!Submit
<1>3. CASE (\E t \in Threads : BeginExecute(t)) \/ EndExecute
  BY <1>3 DEF BeginExecute, EndExecute, Range
<1>4. ASSUME NEW out \in SUBSET Flags, NEW f \in BOOLEAN, RunTask(out, f)
      PROVE  Service!Next
  <2> DEFINE task == elements[i + 1]
  <2>1. /\ inPass /\ i \in Nat /\ i < Len(elements)
        /\ begun' = begun \cup {task}
        /\ released' = IF "pop_me" \in out THEN released \cup {task} ELSE released
        /\ elements' = IF "pop_me" \in out THEN Without(elements, i + 1) ELSE elements
        /\ UNCHANGED <<next, discarded>>
    BY <1>4 DEF RunTask, QueueInv, TypeOK
  <2>2. i + 1 \in 1..Len(elements)
    BY <1>1, <2>1
  <2>3. task \in Range(elements) /\ task \in Tasks
    BY <1>1, <2>2, RangeOfSequence
  <2>4. Range(Without(elements, i + 1)) = Range(elements) \ {task}
    BY <1>1, <2>2, WithoutFacts DEF QueueInv, Ordered
  <2>5. \A u \in Range(elements) : u < task => u \in begun
    <3> SUFFICES ASSUME NEW u \in Range(elements), u < task PROVE u \in begun
      OBVIOUS
    <3>1. PICK j \in 1..Len(elements) : u = elements[j]
      BY <1>1, RangeOfSequence
    <3>2. u \in Nat /\ task \in Nat
      BY <1>1, <2>3, RangeOfSequence, TaskType
    <3>3. i + 1 < j => task < u
      BY <2>2, <3>1 DEF QueueInv, Ordered
    <3>4. j \in 1..i
      BY <2>1, <2>2, <3>1, <3>2, <3>3
    <3> QED
      BY <2>1, <3>1, <3>4 DEF QueueInv, PassPrefixBegun
  <2>6. Service!Run(task)
    <3>1. CASE "pop_me" \in out
      <4>1. Range(elements') = Range(elements) \ {task}
        BY <2>1, <2>4, <3>1
      <4>2. released' \cup discarded' = (released \cup discarded) \cup {task}
        BY <2>1, <3>1
      <4> QED
        BY <2>1, <2>3, <2>5, <4>1, <4>2 DEF Service!Run
    <3>2. CASE "pop_me" \notin out
      <4>1. Range(elements') = Range(elements)
        BY <2>1, <3>2 DEF Range
      <4>2. released' \cup discarded' = released \cup discarded
        BY <2>1, <3>2
      <4> QED
        BY <2>1, <2>3, <2>5, <4>1, <4>2 DEF Service!Run
    <3> QED
      BY <3>1, <3>2
  <2> QED
    BY <2>3, <2>6 DEF Service!Next
<1>5. CASE Cleanup \/ Destroy
  <2>1. Range(elements') = {}
    BY <1>5 DEF Cleanup, Destroy, DiscardAll, Range
  <2>2. released' \cup discarded' = (released \cup discarded) \cup Range(elements)
    BY <1>5 DEF Cleanup, Destroy, DiscardAll
  <2> QED
    BY <1>5, <2>1, <2>2 DEF Cleanup, Destroy, Service!Next, Service!ThrowAway
<1>6. CASE UNCHANGED vars
  BY <1>6 DEF vars, Range
<1> QED
  BY <1>2, <1>3, <1>4, <1>5, <1>6 DEF Next

\* The queue implements TaskService: seen through the refinement mapping the
\* array, the guard and the passes disappear and only the promise remains.
THEOREM QueueImplementsService == ASSUME ~AllocMayFail PROVE Spec => ServiceSpec
<1>1. Init => Service!Init
  BY DEF Init, Service!Init, Range
<1> QED
  BY <1>1, QueueInvHolds, StepRefines, PTL DEF Spec, ServiceSpec, Service!Spec

-----------------------------------------------------------------------------
\* What dx_capacity_manager_halfer leaves when the array changes by one: room
\* for the new size, at most half of it unused, and the old capacity unless
\* it asks for a reallocation.
LEMMA HalferFacts ==
  ASSUME NEW cap \in Nat, NEW n \in Nat, NEW m \in Nat,
         n <= cap, cap <= 2 * n, m = n + 1 \/ m = n - 1
  PROVE  /\ Halfer(m, cap) \in Nat
         /\ m <= Halfer(m, cap)
         /\ Halfer(m, cap) <= 2 * m
         /\ ~Reallocates(m, cap) => Halfer(m, cap) = cap
BY DEF Halfer, Reallocates

\* With allocations that succeed, every element lies inside the allocated
\* block and at most half of the block is unused, for arrays of any size.
THEOREM ArrayInvHolds == ASSUME ~ResizeMayFail PROVE ArraySpec => []ArrayInv
<1>1. ArrayInit => ArrayInv
  BY DEF ArrayInit, ArrayInv, ArrayTypeOK, ElementsInBuffer, AtMostHalfEmpty, CapacityIsBuffer
<1>2. ArrayInv /\ [ArrayNext]_arrayVars => ArrayInv'
  <2> SUFFICES ASSUME ArrayInv, [ArrayNext]_arrayVars PROVE ArrayInv'
    OBVIOUS
  <2> USE DEF ArrayInv, ArrayTypeOK, ElementsInBuffer, AtMostHalfEmpty, CapacityIsBuffer
  <2>1. ASSUME NEW m \in Nat, m = size + 1 \/ m = size - 1,
               NEW fails \in BOOLEAN, Resize(m, fails)
        PROVE  ArrayInv'
    <3>1. ~fails /\ size' = m /\ capacity' = Halfer(m, capacity)
      BY <2>1 DEF Resize
    <3>2. buffer' = IF Reallocates(m, capacity) THEN capacity' ELSE buffer
      BY <2>1, <3>1 DEF Resize
    <3>3. /\ Halfer(m, capacity) \in Nat
          /\ m <= Halfer(m, capacity)
          /\ Halfer(m, capacity) <= 2 * m
          /\ ~Reallocates(m, capacity) => Halfer(m, capacity) = capacity
      BY <2>1, HalferFacts
    <3> QED
      BY <3>1, <3>2, <3>3
  <2>2. ASSUME NEW fails \in BOOLEAN, DX_ARRAY_INSERT(fails) PROVE ArrayInv'
    BY <2>1, <2>2 DEF DX_ARRAY_INSERT
  <2>3. ASSUME NEW fails \in BOOLEAN, DX_ARRAY_DELETE(fails) PROVE ArrayInv'
    <3>1. size - 1 \in Nat
      BY <2>3 DEF DX_ARRAY_DELETE
    <3> QED
      BY <2>1, <2>3, <3>1 DEF DX_ARRAY_DELETE
  <2>4. ASSUME NEW fails \in BOOLEAN, NEW reserve \in 1..MaxSize,
               DX_ARRAY_RESERVE(reserve, fails)
        PROVE  ArrayInv'
    BY <2>4 DEF DX_ARRAY_RESERVE
  <2>5. CASE UNCHANGED arrayVars
    BY <2>5 DEF arrayVars
  <2> QED
    BY <2>2, <2>3, <2>4, <2>5 DEF ArrayNext
<1> QED
  BY <1>1, <1>2, PTL DEF ArraySpec

-----------------------------------------------------------------------------
Queued(c) == \E k \in DOMAIN queue : queue[k] = c

\* Somebody is left to free connection c.
Owned(c) == \/ pc[c] = "enqueue"
            \/ \E t \in ApiThreads : pc[t] \in {"join", "closeJoin"} /\ target[t] = c
            \/ \E k \in DOMAIN queue : queue[k] = c

\* The guard is held exactly by the thread that walks over the queue.
GuardHeld == \A t \in ApiThreads : pc[t] \in {"loop", "join"} <=> queueGuard = t

\* Only connections that were closed are queued, each once; those that have
\* been freed are the ones the walk has passed.
QueueSound ==
  /\ \A k \in DOMAIN queue : queue[k] \in requested
  /\ \A j, k \in DOMAIN queue : queue[j] = queue[k] => j = k
  /\ \A k \in DOMAIN queue : queue[k] \notin live => queueGuard # Nobody /\ k < idx[queueGuard]
  /\ queueGuard # Nobody => idx[queueGuard] >= 1

\* The walk closes the queued connection it stands at.
WalkAt == \A t \in ApiThreads : pc[t] = "join" =>
             /\ idx[t] \in DOMAIN queue /\ target[t] = queue[idx[t]]

\* A connection closed by a foreign thread is in no other hands.
CloseAlone == \A t \in ApiThreads : pc[t] = "closeJoin" =>
                 /\ target[t] \in live \cap requested
                 /\ ~Queued(target[t])
                 /\ pc[target[t]] # "enqueue"
                 /\ \A u \in ApiThreads \ {t} : ~(pc[u] = "closeJoin" /\ target[u] = target[t])

\* A worker about to queue its connection is the only one to have closed it.
EnqueueAlone == \A t \in ApiThreads : pc[t] = "enqueue" =>
                   t \in live \cap requested /\ ~Queued(t)

\* The inductive invariant behind NoDoubleClose: every closed connection has
\* one owner, the queue, a worker about to queue it, or a closing thread.
CloseInv == DeferralTypeOK /\ GuardHeld /\ QueueSound /\ WalkAt /\ CloseAlone /\ EnqueueAlone

\* Listeners that do not call the API leave the queue to the application.
WorkersStayOut == \A c \in Connections : pc[c] \notin {"lock", "loop", "join"}

\* Then the walk skips nothing.
WalkFrees == queueGuard # Nobody =>
               \A k \in DOMAIN queue : k < idx[queueGuard] => queue[k] \notin live

\* The inductive invariant behind NoLostClose.
DeferInv == CloseInv /\ WorkersStayOut /\ WalkFrees /\ NoLostClose

-----------------------------------------------------------------------------
\* Every connection name is a thread name, and no thread is NoThread.
LEMMA ThreadFacts ==
  /\ Connections \subseteq ApiThreads /\ Apps \subseteq ApiThreads
  /\ \A t \in ApiThreads : t # Nobody
  /\ \A t \in ApiThreads : t \in Apps \/ t \in Connections
  /\ \A t \in ApiThreads : Base(t) \in {"out", "callback"}
BY ConnectionQueueAssumption DEF ApiThreads, Base

\* The steps that only move one thread, to a place where it neither owns a
\* connection nor the guard, keep CloseInv.
LEMMA MoveKeeps ==
  ASSUME CloseInv, NEW t \in ApiThreads, pc[t] \in {"out", "callback"},
         NEW to \in {"out", "callback", "lock", "done"},
         pc' = [pc EXCEPT ![t] = to],
         UNCHANGED <<queue, queueGuard, idx, target, stop, live, requested>>
  PROVE  CloseInv'
<1> USE ThreadFacts DEF CloseInv, DeferralTypeOK
<1>1. DeferralTypeOK' /\ GuardHeld' /\ QueueSound' /\ WalkAt'
  BY DEF GuardHeld, QueueSound, WalkAt
<1>2. CloseAlone' /\ EnqueueAlone'
  BY DEF CloseAlone, EnqueueAlone, Queued
<1> QED
  BY <1>1, <1>2

\* Every step keeps CloseInv, whatever listeners call.
LEMMA CloseStep ==
  ASSUME CloseInv, [DeferralNext]_deferralVars PROVE CloseInv'
<1> USE ThreadFacts DEF CloseInv, DeferralTypeOK, Goto
<1>1. ASSUME NEW t \in ApiThreads, ApiCall(t) PROVE CloseInv'
  BY <1>1, MoveKeeps DEF ApiCall
<1>2. ASSUME NEW t \in ApiThreads, Lock(t) PROVE CloseInv'
  <2> USE <1>2 DEF Lock
  <2>1. DeferralTypeOK' /\ GuardHeld'
    BY DEF GuardHeld
  <2>2. QueueSound' /\ WalkAt'
    BY DEF QueueSound, WalkAt
  <2>3. CloseAlone' /\ EnqueueAlone'
    BY DEF CloseAlone, EnqueueAlone, Queued
  <2> QED
    BY <2>1, <2>2, <2>3
<1>3. ASSUME NEW t \in ApiThreads, CloseQueued(t) PROVE CloseInv'
  <2> USE <1>3 DEF CloseQueued
  <2>1. queueGuard = t /\ idx[t] \in DOMAIN queue /\ queue[idx[t]] \in Connections
    BY DEF GuardHeld, QueueSound
  <2>2. CASE queue[idx[t]] = t
    <3>1. DeferralTypeOK' /\ GuardHeld' /\ QueueSound'
      BY <2>1, <2>2 DEF GuardHeld, QueueSound
    <3>2. WalkAt'
      BY <2>1, <2>2 DEF WalkAt
    <3>3. CloseAlone' /\ EnqueueAlone'
      BY <2>1, <2>2 DEF CloseAlone, EnqueueAlone, Queued
    <3> QED
      BY <3>1, <3>2, <3>3
  <2>3. CASE queue[idx[t]] # t
    <3> DEFINE c == queue[idx[t]]
    <3>1. /\ pc' = [pc EXCEPT ![t] = "join"] /\ target' = [target EXCEPT ![t] = c]
          /\ stop' = stop \cup {c}
          /\ UNCHANGED <<idx, queue, queueGuard, live, requested>>
      BY <2>3 DEF Deinit
    <3> HIDE DEF c
    <3>2. DeferralTypeOK'
      BY ONLY <2>1, <3>1, DeferralTypeOK, t \in ApiThreads DEF DeferralTypeOK, c
    <3>3. GuardHeld' /\ QueueSound'
      BY <2>1, <3>1 DEF GuardHeld, QueueSound
    <3>4. WalkAt'
      BY <2>1, <3>1 DEF WalkAt, c
    <3>5. CloseAlone'
      BY <2>1, <3>1 DEF CloseAlone, Queued
    <3>6. EnqueueAlone'
      BY <2>1, <3>1 DEF EnqueueAlone, Queued
    <3> QED
      BY <3>2, <3>3, <3>4, <3>5, <3>6
  <2> QED
    BY <2>2, <2>3
<1>4. ASSUME NEW t \in ApiThreads, Join(t), pc[t] = "join" PROVE CloseInv'
  <2> USE <1>4 DEF Join
  <2>1. queueGuard = t /\ idx[t] \in DOMAIN queue /\ target[t] = queue[idx[t]]
    BY DEF GuardHeld, WalkAt
  <2>2. Queued(target[t])
    BY <2>1 DEF Queued
  <2>3. DeferralTypeOK' /\ GuardHeld' /\ WalkAt'
    BY <2>1 DEF GuardHeld, WalkAt
  <2>4. QueueSound'
    BY <2>1 DEF QueueSound
  <2>5. CloseAlone'
    BY <2>2 DEF CloseAlone, Queued
  <2>6. EnqueueAlone'
    BY <2>2 DEF EnqueueAlone, Queued
  <2> QED
    BY <2>3, <2>4, <2>5, <2>6
<1>5. ASSUME NEW t \in ApiThreads, Join(t), pc[t] = "closeJoin" PROVE CloseInv'
  <2> USE <1>5 DEF Join
  <2>1. target[t] \in Connections /\ ~Queued(target[t])
    BY DEF CloseAlone
  <2>2. DeferralTypeOK' /\ GuardHeld' /\ WalkAt'
    BY DEF GuardHeld, WalkAt
  <2>3. QueueSound'
    BY <2>1 DEF QueueSound, Queued, GuardHeld
  <2>4. CloseAlone'
    BY <2>1 DEF CloseAlone, Queued
  <2>5. EnqueueAlone'
    BY <2>1 DEF EnqueueAlone, Queued
  <2> QED
    BY <2>2, <2>3, <2>4, <2>5
<1>6. ASSUME NEW t \in ApiThreads, EndLoop(t) PROVE CloseInv'
  <2> USE <1>6 DEF EndLoop
  <2>1. DeferralTypeOK' /\ GuardHeld'
    BY DEF GuardHeld
  <2>2. DOMAIN queue' = {}
    OBVIOUS
  <2>3. QueueSound'
    BY <2>2 DEF QueueSound
  <2>4. WalkAt'
    BY DEF WalkAt, GuardHeld
  <2>5. CloseAlone' /\ EnqueueAlone'
    BY <2>2 DEF CloseAlone, EnqueueAlone, Queued
  <2> QED
    BY <2>1, <2>3, <2>4, <2>5
<1>7. ASSUME NEW t \in ApiThreads, Enqueue(t) PROVE CloseInv'
  <2> USE <1>7 DEF Enqueue
  <2>1. t \in live \cap requested /\ ~Queued(t)
    BY DEF EnqueueAlone
  <2>2. /\ DOMAIN queue' = DOMAIN queue \cup {Len(queue) + 1}
        /\ \A k \in DOMAIN queue : queue'[k] = queue[k] /\ k # Len(queue) + 1
        /\ queue'[Len(queue) + 1] = t
    BY <2>1
  <2>3. DeferralTypeOK' /\ GuardHeld'
    BY <2>1 DEF GuardHeld
  <2>4. QueueSound'
    BY <2>1, <2>2 DEF QueueSound, Queued
  <2>5. WalkAt'
    BY DEF WalkAt, GuardHeld
  <2>6. CloseAlone'
    <3>1. \A u \in ApiThreads : pc'[u] = "closeJoin" =>
             pc[u] = "closeJoin" /\ target[u] # t /\ ~Queued(target[u])
      BY <2>1 DEF CloseAlone
    <3>2. \A c : Queued(c)' => Queued(c) \/ c = t
      BY <2>2 DEF Queued
    <3> QED
      BY <3>1, <3>2 DEF CloseAlone
  <2>7. EnqueueAlone'
    BY <2>1, <2>2 DEF EnqueueAlone, Queued
  <2> QED
    BY <2>3, <2>4, <2>5, <2>6, <2>7
<1>8. ASSUME NEW t \in ApiThreads, NEW c \in Connections, Close(t, c) PROVE CloseInv'
  <2> USE <1>8
  <2>1. /\ c \in live /\ c \notin requested /\ pc[t] \in {"out", "callback"}
        /\ requested' = requested \cup {c}
        /\ UNCHANGED <<queue, queueGuard, idx, live>>
    BY DEF Close, Deinit
  <2>2. ~Queued(c) /\ pc[c] # "enqueue"
    BY <2>1 DEF QueueSound, Queued, EnqueueAlone
  <2>3. CASE t = c
    <3>1. pc' = [pc EXCEPT ![t] = "enqueue"] /\ UNCHANGED <<stop, target>>
      BY <2>3 DEF Close
    <3>2. DeferralTypeOK' /\ GuardHeld'
      BY <2>1, <3>1 DEF GuardHeld
    <3>3. QueueSound' /\ WalkAt'
      BY <2>1, <3>1 DEF QueueSound, WalkAt
    <3>4. CloseAlone'
      BY <2>1, <2>3, <3>1 DEF CloseAlone, Queued
    <3>5. EnqueueAlone'
      BY <2>1, <2>2, <2>3, <3>1 DEF EnqueueAlone, Queued
    <3> QED
      BY <3>2, <3>3, <3>4, <3>5
  <2>4. CASE t # c
    <3>1. /\ pc' = [pc EXCEPT ![t] = "closeJoin"] /\ stop' = stop \cup {c}
          /\ target' = [target EXCEPT ![t] = c]
      BY <2>4 DEF Close, Deinit
    <3>2. DeferralTypeOK' /\ GuardHeld'
      BY <2>1, <3>1 DEF GuardHeld
    <3>3. QueueSound' /\ WalkAt'
      BY <2>1, <3>1 DEF QueueSound, WalkAt
    <3>4. CloseAlone'
      <4>1. \A u \in ApiThreads \ {t} :
              /\ pc'[u] = pc[u] /\ target'[u] = target[u]
              /\ pc[u] = "closeJoin" => target[u] # c
        BY <2>1, <3>1 DEF CloseAlone
      <4>2. pc'[t] = "closeJoin" /\ target'[t] = c /\ (Queued(c)' <=> Queued(c))
        BY <2>1, <3>1 DEF Queued
      <4>3. \A u \in ApiThreads : pc'[u] = "enqueue" => pc[u] = "enqueue"
        BY <3>1
      <4>4. \A u \in ApiThreads \ {t} : pc[u] = "closeJoin" => ~Queued(target[u])'
        BY <2>1, <4>1 DEF CloseAlone, Queued
      <4>5. ~Queued(target[t])'
        BY <2>2, <4>2 DEF Queued
      <4>6. ASSUME NEW u \in ApiThreads \ {t}, pc[u] = "closeJoin"
            PROVE  /\ target[u] \in live \cap requested' /\ pc'[target[u]] # "enqueue"
                   /\ \A v \in ApiThreads \ {u} : ~(pc'[v] = "closeJoin" /\ target'[v] = target[u])
        <5>1. /\ target[u] \in live \cap requested /\ pc[target[u]] # "enqueue"
              /\ \A v \in ApiThreads \ {u} : ~(pc[v] = "closeJoin" /\ target[v] = target[u])
          BY <4>6 DEF CloseAlone
        <5> QED
          BY <2>1, <4>1, <4>2, <4>3, <4>6, <5>1
      <4>7. /\ c \in live \cap requested' /\ pc'[c] # "enqueue"
            /\ \A v \in ApiThreads \ {t} : ~(pc'[v] = "closeJoin" /\ target'[v] = c)
        BY <2>1, <2>2, <4>1, <4>3
      <4> QED
        BY <2>1, <4>1, <4>2, <4>4, <4>5, <4>6, <4>7 DEF CloseAlone
    <3>5. EnqueueAlone'
      BY <2>1, <3>1 DEF EnqueueAlone, Queued
    <3> QED
      BY <3>2, <3>3, <3>4, <3>5
  <2> QED
    BY <2>3, <2>4
<1>9. ASSUME NEW c \in Connections, Worker(c) PROVE CloseInv'
  BY <1>9, MoveKeeps DEF Worker, WorkerTurn, ListenerReturns
<1>10. ASSUME UNCHANGED deferralVars PROVE CloseInv'
  BY <1>10 DEF deferralVars, GuardHeld, QueueSound, WalkAt, CloseAlone, EnqueueAlone, Queued
<1>11. ASSUME NEW t \in ApiThreads, Join(t) PROVE CloseInv'
  BY <1>4, <1>5, <1>11 DEF Join
<1> QED
  BY <1>1, <1>2, <1>3, <1>6, <1>7, <1>8, <1>9, <1>10, <1>11 DEF DeferralNext, InCall

\* The invariant holds from the start.
LEMMA CloseInit == DeferralInit => CloseInv
<1> SUFFICES ASSUME DeferralInit PROVE CloseInv
  OBVIOUS
<1>1. DeferralTypeOK
  BY ThreadFacts DEF DeferralInit, DeferralTypeOK
<1>2. DOMAIN queue = {}
  BY DEF DeferralInit
<1> QED
  BY <1>1, <1>2, ThreadFacts
  DEF DeferralInit, CloseInv, GuardHeld, QueueSound, WalkAt, CloseAlone, EnqueueAlone, Queued

\* Whoever closes a connection (dxf_close_connection_impl) is alone in doing so,
\* and the queue holds no freed connection outside of a walk.
THEOREM CloseInvariant == DeferralSpec => []CloseInv
<1>1. CloseInv /\ [DeferralNext]_deferralVars => CloseInv'
  BY CloseStep
<1> QED
  BY <1>1, CloseInit, PTL DEF DeferralSpec

\* What follows from one owner for every connection.
LEMMA OneOwner == CloseInv => NoDoubleClose
<1> SUFFICES ASSUME CloseInv, NEW t \in ApiThreads, Closing(t)
             PROVE  /\ target[t] \in live
                    /\ \A u \in ApiThreads \ {t} : ~(Closing(u) /\ target[u] = target[t])
  BY DEF NoDoubleClose
<1> USE ThreadFacts DEF CloseInv, Closing
<1>1. \A u \in ApiThreads : pc[u] = "join" => queueGuard = u /\ Queued(target[u])
  BY DEF GuardHeld, WalkAt, Queued
<1>2. CASE pc[t] = "join"
  <2>1. idx[t] \in DOMAIN queue /\ target[t] = queue[idx[t]] /\ idx[t] \in Nat
    BY <1>2 DEF WalkAt, DeferralTypeOK
  <2>2. target[t] \in live
    BY <1>1, <1>2, <2>1 DEF QueueSound
  <2>3. \A u \in ApiThreads \ {t} : ~(Closing(u) /\ target[u] = target[t])
    BY <1>1, <1>2 DEF CloseAlone
  <2> QED
    BY <2>2, <2>3
<1>3. CASE pc[t] = "closeJoin"
  BY <1>1, <1>3 DEF CloseAlone
<1> QED
  BY <1>2, <1>3

\* dxf_close_connection and dx_close_queued_connections never free a connection
\* twice nor use one that has been freed, for any number of connections and
\* threads and whatever listeners call.
THEOREM NoDoubleCloseTheorem == DeferralSpec => []NoDoubleClose
BY CloseInvariant, OneOwner, PTL
-----------------------------------------------------------------------------
\* Every step keeps DeferInv as long as no listener calls the API for
\* something else than closing.
LEMMA DeferStep ==
  ASSUME "api" \notin ListenerCalls, DeferInv, [DeferralNext]_deferralVars
  PROVE  DeferInv'
<1> USE ThreadFacts DEF Goto
<1>0. CloseInv /\ CloseInv' /\ DeferralTypeOK
  BY CloseStep DEF DeferInv, CloseInv
<1>1. WorkersStayOut'
  <2> USE DEF DeferInv, WorkersStayOut, CloseInv, DeferralTypeOK
  <2>1. ASSUME NEW t \in ApiThreads, ApiCall(t) \/ InCall(t) PROVE WorkersStayOut'
    BY <2>1, <1>0, ConnectionQueueAssumption
    DEF ApiCall, InCall, Lock, CloseQueued, Deinit, Join, EndLoop, Enqueue
  <2>2. ASSUME NEW t \in ApiThreads, NEW c \in Connections, Close(t, c) PROVE WorkersStayOut'
    BY <2>2 DEF Close, Deinit
  <2>3. ASSUME NEW c \in Connections, Worker(c) PROVE WorkersStayOut'
    BY <2>3 DEF Worker, WorkerTurn, ListenerReturns
  <2>4. ASSUME UNCHANGED deferralVars PROVE WorkersStayOut'
    BY <2>4 DEF deferralVars
  <2> QED
    BY <2>1, <2>2, <2>3, <2>4 DEF DeferralNext
<1>2. WalkFrees' /\ NoLostClose'
  <2> USE <1>0 DEF DeferInv, DeferralTypeOK, NoLostClose, Closing
  <2>1. ASSUME NEW t \in ApiThreads, ApiCall(t) PROVE WalkFrees' /\ NoLostClose'
    BY <2>1 DEF ApiCall, WalkFrees
  <2>2. ASSUME NEW t \in ApiThreads, Lock(t) PROVE WalkFrees' /\ NoLostClose'
    BY <2>2 DEF Lock, WalkFrees
  <2>3. ASSUME NEW t \in ApiThreads, CloseQueued(t) PROVE WalkFrees' /\ NoLostClose'
    <3>1. queueGuard = t /\ idx[t] \in DOMAIN queue /\ queue[idx[t]] \in Connections
      BY <2>3 DEF CloseQueued, CloseInv, GuardHeld, QueueSound
    <3>2. queue[idx[t]] # t
      BY <2>3, <3>1 DEF CloseQueued, WorkersStayOut
    <3>3. /\ pc[t] = "loop" /\ pc' = [pc EXCEPT ![t] = "join"]
          /\ \A u \in ApiThreads \ {t} : target'[u] = target[u]
          /\ UNCHANGED <<queue, queueGuard, idx, live, requested>>
      BY <2>3, <3>2 DEF CloseQueued, Deinit
    <3>4. WalkFrees'
      BY <3>3 DEF WalkFrees
    <3>5. \A c \in Connections : Owned(c) => Owned(c)'
      BY <3>3 DEF Owned
    <3> QED
      BY <3>3, <3>4, <3>5 DEF Owned
  <2>4. ASSUME NEW t \in ApiThreads, Join(t) PROVE WalkFrees' /\ NoLostClose'
    <3>1. /\ live' = live \ {target[t]} /\ UNCHANGED <<queue, queueGuard, requested>>
          /\ pc[t] \in {"join", "closeJoin"} /\ pc'[t] \in {"loop", "out", "callback"}
          /\ \A u \in ApiThreads \ {t} : pc'[u] = pc[u] /\ target'[u] = target[u]
          /\ idx' = IF pc[t] = "join" THEN [idx EXCEPT ![t] = @ + 1] ELSE idx
      BY <2>4 DEF Join
    <3>2. ASSUME NEW c \in requested', c \in live'
          PROVE Owned(c)'
      <4>1. c # target[t] /\ c \in live /\ c \in requested /\ c \in Connections
        BY <3>1, <3>2
      <4>2. CASE pc[c] = "enqueue"
        BY <3>1, <4>1, <4>2 DEF Owned
      <4>3. CASE \E u \in ApiThreads : Closing(u) /\ target[u] = c
        BY <3>1, <4>1, <4>3 DEF Owned
      <4>4. CASE \E k \in DOMAIN queue : queue[k] = c
        BY <3>1, <4>4 DEF Owned
      <4> QED
        BY <4>1, <4>2, <4>3, <4>4
    <3>3. WalkFrees'
      <4>1. CASE pc[t] = "join"
        <5>1. queueGuard = t /\ target[t] = queue[idx[t]]
          BY <4>1 DEF CloseInv, GuardHeld, WalkAt
        <5> QED
          BY <3>1, <4>1, <5>1 DEF WalkFrees
      <4>2. CASE pc[t] = "closeJoin"
        BY <3>1, <4>2 DEF WalkFrees
      <4> QED
        BY <3>1, <4>1, <4>2
    <3> QED
      BY <3>2, <3>3 DEF Owned
  <2>5. ASSUME NEW t \in ApiThreads, EndLoop(t) PROVE WalkFrees' /\ NoLostClose'
    <3>1. queueGuard = t /\ queueGuard' = Nobody /\ UNCHANGED <<target, live, requested>>
      BY <2>5 DEF EndLoop, CloseInv, GuardHeld
    <3>2. \A k \in DOMAIN queue : queue[k] \notin live
      BY <2>5, <3>1 DEF EndLoop, WalkFrees
    <3>3. pc[t] = "loop" /\ \A u \in ApiThreads \ {t} : pc'[u] = pc[u]
      BY <2>5 DEF EndLoop
    <3>4. \A c \in Connections : c \in live /\ Owned(c) => Owned(c)'
      BY <3>1, <3>2, <3>3 DEF Owned
    <3> QED
      BY <3>1, <3>4 DEF WalkFrees, Owned
  <2>6. ASSUME NEW t \in ApiThreads, Enqueue(t) PROVE WalkFrees' /\ NoLostClose'
    <3>1. t \in Connections
      BY <2>6 DEF Enqueue, CloseInv, EnqueueAlone
    <3>2. /\ DOMAIN queue' = DOMAIN queue \cup {Len(queue) + 1}
          /\ \A k \in DOMAIN queue : queue'[k] = queue[k]
          /\ queue'[Len(queue) + 1] = t
      BY <2>6, <3>1 DEF Enqueue
    <3>3. /\ pc[t] = "enqueue" /\ \A u \in ApiThreads \ {t} : pc'[u] = pc[u]
          /\ queueGuard' = Nobody /\ UNCHANGED <<target, live, requested>>
      BY <2>6 DEF Enqueue
    <3> QED
      BY <3>2, <3>3, SMTT(30) DEF WalkFrees
  <2>7. ASSUME NEW t \in ApiThreads, NEW c \in Connections, Close(t, c)
        PROVE WalkFrees' /\ NoLostClose'
    <3>1. /\ requested' = requested \cup {c} /\ pc[t] \in {"out", "callback"}
          /\ \A u \in ApiThreads \ {t} : pc'[u] = pc[u] /\ target'[u] = target[u]
          /\ UNCHANGED <<queue, queueGuard, idx, live>>
      BY <2>7 DEF Close, Deinit
    <3>2. \/ t = c /\ pc'[c] = "enqueue"
          \/ pc'[t] = "closeJoin" /\ target'[t] = c
      BY <2>7 DEF Close, Deinit
    <3>3. Owned(c)'
      BY <3>2 DEF Owned
    <3>4. \A d \in Connections : Owned(d) => Owned(d)'
      BY <3>1 DEF Owned
    <3> QED
      BY <3>1, <3>3, <3>4 DEF WalkFrees, Owned
  <2>8. ASSUME NEW c \in Connections, Worker(c) PROVE WalkFrees' /\ NoLostClose'
    BY <2>8 DEF Worker, WorkerTurn, ListenerReturns, WalkFrees
  <2>9. ASSUME UNCHANGED deferralVars PROVE WalkFrees' /\ NoLostClose'
    BY <2>9 DEF deferralVars, WalkFrees
  <2> QED
    BY <2>1, <2>2, <2>3, <2>4, <2>5, <2>6, <2>7, <2>8, <2>9 DEF DeferralNext, InCall
<1> QED
  BY <1>0, <1>1, <1>2 DEF DeferInv

LEMMA DeferInit == DeferralInit => DeferInv
<1> SUFFICES ASSUME DeferralInit PROVE DeferInv
  OBVIOUS
<1> QED
  BY CloseInit, ThreadFacts DEF DeferralInit, DeferInv, WorkersStayOut, WalkFrees, NoLostClose

\* Listeners that only close connections, their own or others, leave the walk
\* over the queue to the application, and it skips nothing.
THEOREM DeferInvariant ==
  ASSUME "api" \notin ListenerCalls PROVE DeferralSpec => []DeferInv
<1>1. DeferInv /\ [DeferralNext]_deferralVars => DeferInv'
  BY DeferStep
<1> QED
  BY <1>1, DeferInit, PTL DEF DeferralSpec

\* No dxf_close_connection is forgotten: what the queue drops at the end of
\* dx_close_queued_connections has been freed.  (A listener that calls the API
\* while its own connection is queued does lose it: CloseQueued skips it.)
THEOREM NoLostCloseTheorem ==
  ASSUME "api" \notin ListenerCalls PROVE DeferralSpec => []NoLostClose
<1>1. DeferInv => NoLostClose
  BY DEF DeferInv
<1> QED
  BY <1>1, DeferInvariant, PTL
=============================================================================
