--------------------------- MODULE Cpuworker_proofs ---------------------------
(***************************************************************************)
(* The CPU workers, for any circuits, other jobs, workers, limits and key  *)
(* rotations.  The first part is about jobs and workers: every variable    *)
(* keeps its type, the workers stay counted, their keys stay current, and  *)
(* the job of a circuit is in one place when it is queued, taken,          *)
(* answered, replied to or cancelled.  The second is about the circuits    *)
(* and the counters: where the job of a circuit may be and what that means *)
(* for the circuit.                                                        *)
(***************************************************************************)
EXTENDS Cpuworker, SequenceTheorems, FiniteSetTheorems, TLAPS

USE JobsAssumption, WorkersAssumption, BoundsAssumption,
    ZenonT(2), SMT, SMTT(40), Zenon

-----------------------------------------------------------------------------
(* Sequences without repetition. *)

\* What appending does to the elements.
LEMMA AppendElements ==
    ASSUME NEW S, NEW s \in Seq(S), NEW e \in S
    PROVE  /\ Append(s, e) \in Seq(S) /\ Len(Append(s, e)) = Len(s) + 1
           /\ Append(s, e) # <<>>
           /\ Elements(Append(s, e)) = Elements(s) \cup {e}
           /\ Once(s) /\ e \notin Elements(s) => Once(Append(s, e))
<1> DEFINE t == Append(s, e)
<1>1. /\ t \in Seq(S) /\ Len(t) = Len(s) + 1 /\ Len(s) \in Nat /\ t # <<>>
      /\ \A i \in 1..Len(s) : t[i] = s[i]
      /\ t[Len(s) + 1] = e
    BY AppendProperties, LenProperties
<1>2. \A i \in 1..Len(t) : i = Len(s) + 1 \/ i \in 1..Len(s)
    BY <1>1
<1> HIDE DEF t
<1>3. Elements(t) = Elements(s) \cup {e}
    BY <1>1, <1>2 DEF Elements
<1>4. Once(s) /\ e \notin Elements(s) => Once(t)
    BY <1>1, <1>2 DEF Elements, Once
<1> QED
    BY <1>1, <1>3, <1>4 DEF t

\* What taking the head does to the elements.
LEMMA TailElements ==
    ASSUME NEW S, NEW s \in Seq(S), s # <<>>
    PROVE  /\ Head(s) \in S /\ Tail(s) \in Seq(S) /\ Len(Tail(s)) = Len(s) - 1
           /\ Elements(s) = Elements(Tail(s)) \cup {Head(s)}
           /\ Once(s) => Once(Tail(s))
           /\ Once(s) /\ Head(s) \in Circs => Head(s) \notin Elements(Tail(s))
<1> DEFINE t == Tail(s)
<1>1. /\ Head(s) \in S /\ t \in Seq(S) /\ Len(t) = Len(s) - 1 /\ Len(s) \in Nat \ {0}
      /\ \A i \in 1..Len(t) : t[i] = s[i + 1]
      /\ Head(s) = s[1]
    BY HeadTailProperties, EmptySeq, LenProperties
<1>2. \A i \in 1..Len(s) : i = 1 \/ i - 1 \in 1..Len(t)
    BY <1>1
<1>3. \A i \in 1..Len(t) : i + 1 \in 1..Len(s) /\ i \in Int
    BY <1>1
<1> HIDE DEF t
<1>4. Elements(s) = Elements(t) \cup {Head(s)}
  <2>1. ASSUME NEW i \in 1..Len(s) PROVE s[i] \in Elements(t) \cup {Head(s)}
    <3>1. CASE i = 1
        BY <3>1, <1>1
    <3>2. CASE i - 1 \in 1..Len(t)
        BY <3>2, <1>1 DEF Elements
    <3> QED
        BY <3>1, <3>2, <1>2
  <2>2. ASSUME NEW i \in 1..Len(t) PROVE t[i] \in Elements(s)
      BY <1>1, <1>3 DEF Elements
  <2>3. Head(s) \in Elements(s)
      BY <1>1 DEF Elements
  <2> QED
      BY <2>1, <2>2, <2>3 DEF Elements
<1>5. Once(s) => Once(t)
  <2> SUFFICES ASSUME Once(s), NEW i \in 1..Len(t), NEW j \in 1..Len(t),
                      t[i] = t[j], t[i] \in Circs
               PROVE  i = j
      BY DEF Once
  <2>1. i + 1 = j + 1
      BY <1>1, <1>3 DEF Once
  <2> QED
      BY <2>1
<1>6. Once(s) /\ Head(s) \in Circs => Head(s) \notin Elements(t)
  <2> SUFFICES ASSUME Once(s), Head(s) \in Circs, NEW i \in 1..Len(t), t[i] = Head(s)
               PROVE  FALSE
      BY DEF Elements
  <2>1. i + 1 = 1
      BY <1>1, <1>3 DEF Once
  <2> QED
      BY <2>1
<1> QED
    BY <1>1, <1>4, <1>5, <1>6 DEF t

\* What dropping the first k does to the elements.
LEMMA DropElements ==
    ASSUME NEW S, NEW s \in Seq(S), NEW k \in 0..Len(s)
    PROVE  LET t == SubSeq(s, k + 1, Len(s))
           IN /\ t \in Seq(S) /\ Len(t) = Len(s) - k
              /\ Elements(t) \subseteq Elements(s)
              /\ Once(s) => Once(t)
<1> DEFINE t == SubSeq(s, k + 1, Len(s))
<1>1. Len(s) \in Nat /\ k \in Nat /\ k <= Len(s) /\ \A i \in 1..Len(s) : s[i] \in S
    BY LenProperties
<1>2. \A i \in (k + 1)..Len(s) : s[i] \in S
    BY <1>1
<1>3. /\ t \in Seq(S) /\ Len(t) = IF k + 1 <= Len(s) THEN Len(s) - (k + 1) + 1 ELSE 0
      /\ \A i \in 1..(Len(s) - (k + 1) + 1) : t[i] = s[(k + 1) + i - 1]
    BY <1>1, <1>2, SubSeqProperties
<1>4. Len(t) = Len(s) - k /\ \A i \in 1..Len(t) : i \in Nat /\ i + k \in 1..Len(s) /\ t[i] = s[i + k]
    BY <1>1, <1>3
<1> HIDE DEF t
<1>5. Elements(t) \subseteq Elements(s)
    BY <1>4 DEF Elements
<1>6. Once(s) => Once(t)
  <2> SUFFICES ASSUME Once(s), NEW i \in 1..Len(t), NEW j \in 1..Len(t),
                      t[i] = t[j], t[i] \in Circs
               PROVE  i = j
      BY DEF Once
  <2>1. i + k = j + k
      BY <1>4 DEF Once
  <2> QED
      BY <2>1, <1>1, <1>4
<1> QED
    BY <1>3, <1>4, <1>5, <1>6 DEF t

\* What removing an element does, if it is there once.
LEMMA RemoveElements ==
    ASSUME NEW s \in Seq(Circs), NEW c \in Elements(s), Once(s)
    PROVE  /\ Remove(c, s) \in Seq(Circs) /\ Len(Remove(c, s)) = Len(s) - 1
           /\ Elements(Remove(c, s)) = Elements(s) \ {c}
           /\ Once(Remove(c, s))
<1> DEFINE k == CHOOSE i \in 1..Len(s) : s[i] = c
           a == SubSeq(s, 1, k - 1)
           b == SubSeq(s, k + 1, Len(s))
           t == a \o b
<1>0. Len(s) \in Nat /\ \A i \in 1..Len(s) : s[i] \in Circs
    BY LenProperties
<1>1. k \in 1..Len(s) /\ s[k] = c
    BY DEF Elements
<1> HIDE DEF k
<1>2. /\ a \in Seq(Circs) /\ Len(a) = k - 1
      /\ \A i \in 1..(k - 1) : a[i] = s[i]
  <2>1. \A i \in 1..(k - 1) : s[i] \in Circs
      BY <1>0, <1>1
  <2>2. 1 \in Int /\ k - 1 \in Int /\ (k - 1) - 1 + 1 = k - 1
      BY <1>1, <1>0
  <2>3. /\ a \in Seq(Circs) /\ Len(a) = IF 1 <= k - 1 THEN (k - 1) - 1 + 1 ELSE 0
        /\ \A i \in 1..((k - 1) - 1 + 1) : a[i] = s[1 + i - 1]
      BY <2>1, <2>2, SubSeqProperties
  <2> QED
      BY <2>3, <1>0, <1>1
<1>3. /\ b \in Seq(Circs) /\ Len(b) = Len(s) - k
      /\ \A i \in 1..(Len(s) - k) : b[i] = s[k + i]
  <2>1. \A i \in (k + 1)..Len(s) : s[i] \in Circs
      BY <1>0, <1>1
  <2>2. k + 1 \in Int /\ Len(s) \in Int
      BY <1>1, <1>0
  <2>3. /\ b \in Seq(Circs) /\ Len(b) = IF k + 1 <= Len(s) THEN Len(s) - (k + 1) + 1 ELSE 0
        /\ \A i \in 1..(Len(s) - (k + 1) + 1) : b[i] = s[(k + 1) + i - 1]
      BY <2>1, <2>2, SubSeqProperties
  <2> QED
      BY <2>3, <1>0, <1>1
<1> HIDE DEF a, b
<1>4. /\ t \in Seq(Circs) /\ Len(t) = (k - 1) + (Len(s) - k)
      /\ \A i \in 1..((k - 1) + (Len(s) - k)) :
            t[i] = IF i <= k - 1 THEN a[i] ELSE b[i - (k - 1)]
  <2>1. /\ t \in Seq(Circs) /\ Len(t) = Len(a) + Len(b)
        /\ \A i \in 1..(Len(a) + Len(b)) : t[i] = IF i <= Len(a) THEN a[i] ELSE b[i - Len(a)]
    <3>1. a \in Seq(Circs) /\ b \in Seq(Circs)
        BY <1>2, <1>3
    <3> QED
        BY ONLY <3>1, ConcatProperties, SMTT(30)
  <2> QED
      BY <2>1, <1>2, <1>3
<1>5. t = Remove(c, s)
    BY DEF Remove, RemoveAt, k, a, b
<1> HIDE DEF t
<1>6. /\ Len(t) = Len(s) - 1
      /\ \A i \in 1..Len(t) : t[i] = s[IF i < k THEN i ELSE i + 1]
  <2>1. Len(t) = Len(s) - 1 /\ k \in Nat
      BY <1>0, <1>1, <1>4
  <2>2. ASSUME NEW i \in 1..Len(t) PROVE t[i] = s[IF i < k THEN i ELSE i + 1]
    <3>1. t[i] = IF i <= k - 1 THEN a[i] ELSE b[i - (k - 1)]
        BY <1>0, <1>4, <2>1
    <3>2. CASE i < k
      <4>1. i \in 1..(k - 1) /\ i <= k - 1
          BY <2>1, <3>2
      <4> QED
          BY <1>2, <3>1, <3>2, <4>1
    <3>3. CASE ~(i < k)
      <4>1. ~(i <= k - 1) /\ i - (k - 1) \in 1..(Len(s) - k)
            /\ k + (i - (k - 1)) = i + 1
          BY <1>0, <1>1, <2>1, <3>3
      <4> QED
          BY <1>3, <3>1, <3>3, <4>1
    <3> QED
        BY <3>2, <3>3
  <2> QED
      BY <2>1, <2>2
<1> DEFINE at(i) == IF i < k THEN i ELSE i + 1
<1>7. \A i \in 1..Len(t) : at(i) \in 1..Len(s) /\ at(i) # k /\ t[i] = s[at(i)]
    BY <1>0, <1>1, <1>6
<1>8. ASSUME NEW j \in 1..Len(s), j # k PROVE \E i \in 1..Len(t) : at(i) = j
  <2>1. CASE j < k
    <3>1. j \in 1..Len(t) /\ at(j) = j
        BY <2>1, <1>0, <1>1, <1>6
    <3> QED
        BY <3>1
  <2>2. CASE j > k
    <3>1. j - 1 \in 1..Len(t) /\ at(j - 1) = j
        BY <2>2, <1>0, <1>1, <1>6
    <3> QED
        BY <3>1
  <2> QED
      BY <2>1, <2>2, <1>0, <1>1, <1>8
<1>9. \A i, j \in 1..Len(t) : at(i) = at(j) => i = j
    BY <1>0, <1>1, <1>6
<1> HIDE DEF at
<1>10. Elements(t) = Elements(s) \ {c}
  <2>1. ASSUME NEW i \in 1..Len(t) PROVE t[i] \in Elements(s) /\ t[i] # c
      BY <1>0, <1>1, <1>7 DEF Elements, Once
  <2>2. ASSUME NEW j \in 1..Len(s), s[j] # c PROVE s[j] \in Elements(t)
      BY <2>2, <1>1, <1>7, <1>8 DEF Elements
  <2> QED
      BY <2>1, <2>2 DEF Elements
<1>11. Once(t)
    BY <1>7, <1>9 DEF Once
<1> QED
    BY <1>4, <1>5, <1>6, <1>10, <1>11

-----------------------------------------------------------------------------
(* The steps, one by one. *)

LoopStep(w) ==
    /\ pc[w] \in {"outer", "inner"} /\ Unlocked
    /\ \/ SeesExit(w) /\ WorkerExits(w)
       \/ ~SeesExit(w) /\ (TakeUpdate(w) \/ TakesWork(w) \/ Wait(w))

\* The disjuncts of Next.
LEMMA NextCases ==
    ASSUME Next
    PROVE  \/ \E w \in Workers :
                \/ WorkerStarts(w) \/ LoopStep(w) \/ update_state_threadfn(w)
                \/ queue_reply(w) \/ SendAlert(w) \/ WorkerGone(w) \/ SpuriousWakeup(w)
           \/ \E c \in Circs :
                \/ CreateAssigned(c) \/ CreateQueued(c) \/ CreateRefused(c) \/ CreateFast(c)
                \/ circuit_mark_for_close(c) \/ circuit_close_all_marked(c)
           \/ \E S \in SUBSET Circs : ChannelLost(S)
           \/ DrainAlert \/ ProcessReply \/ QueueTask \/ TasksDone \/ RepliesDone
           \/ \E j \in Others : cpuworker_queue_work(j)
           \/ cpuworkers_rotate_keyinfo \/ cpuworker_consensus_has_changed
           \/ StopThreads \/ threadpool_free
<1>1. \A w : WorkerLoop(w) => LoopStep(w)
    BY DEF WorkerLoop, LoopStep
<1> QED
    BY <1>1, Zenon DEF Next, MainStep, WorkerStep

\* A signal wakes workers that wait and no other.
LEMMA Signals ==
    ASSUME TypeOK, SignalOne \/ SignalAll
    PROVE  /\ pc' \in [Workers -> Places]
           /\ \A w \in Workers : pc'[w] = pc[w] \/ (pc[w] = "wait" /\ pc'[w] = "outer")
<1>1. pc \in [Workers -> Places] /\ "outer" \in Places
    BY DEF TypeOK, Places
<1>2. CASE SignalOne
    BY <1>1, <1>2 DEF SignalOne, Waiting
<1>3. CASE SignalAll
    BY <1>1, <1>3 DEF SignalAll, Waiting
<1> QED
    BY <1>2, <1>3

\* The state keeps its type.
LEMMA TypeStep == TypeOK /\ PlaceInv /\ [Next]_vars => TypeOK'
<1> SUFFICES ASSUME TypeOK, PlaceInv, [Next]_vars PROVE TypeOK'
    OBVIOUS
<1> USE DEF Jobs
<1>0. /\ WQ_PRI_HIGH \in Priorities /\ WQ_PRI_LOW \in Priorities
      /\ work[WQ_PRI_HIGH] \in Seq(Jobs) /\ work[WQ_PRI_LOW] \in Seq(Jobs)
    BY DEF TypeOK, Priorities, WQ_PRI_HIGH, WQ_PRI_LOW
<1>p. {"new", "outer", "inner", "wait", "update", "fn", "alert", "unlocking", "gone"}
        \subseteq Places
    BY DEF Places
<1>1. ASSUME NEW w \in Workers, WorkerStarts(w) PROVE TypeOK'
  <2>1. /\ main' \in {"starting", "loop", "closing", "replies", "tasks", "stopping", "stopped"}
        /\ control_lock' \in BOOLEAN
    <3>1. CASE main' = "loop" /\ control_lock' = TRUE
        BY <3>1
    <3>2. CASE UNCHANGED <<main, control_lock>>
        BY <3>2 DEF TypeOK
    <3> QED
        BY <1>1, <3>1, <3>2 DEF WorkerStarts
  <2> QED
      BY <1>p, <1>1, <2>1 DEF TypeOK, WorkerStarts, circuits, onions, tasks, updates, replies
<1>2. ASSUME NEW w \in Workers, LoopStep(w) PROVE TypeOK'
  <2>1. CASE WorkerExits(w)
      BY <1>p, <2>1 DEF TypeOK, WorkerExits, circuits, onions, tasks, updates, replies
  <2>2. CASE TakeUpdate(w)
      BY <1>p, <2>2 DEF TypeOK, TakeUpdate, circuits, onions, tasks, stops, replies
  <2>3. CASE TakesWork(w)
    <3>1. PICK p \in Priorities :
              /\ work[p] # <<>>
              /\ job' = [job EXCEPT ![w] = Head(work[p])]
              /\ work' = [work EXCEPT ![p] = Tail(@)]
        BY <2>3 DEF TakesWork, ExtractNextWork
    <3>2. Head(work[p]) \in Jobs /\ Tail(work[p]) \in Seq(Jobs)
      <4>1. work[p] \in Seq(Jobs)
          BY DEF TypeOK
      <4> QED
          BY <3>1, <4>1, TailElements
    <3> QED
        BY <1>p, <2>3, <3>1, <3>2
           DEF TypeOK, TakesWork, ExtractNextWork, circuits, onions, tasks, updates, stops,
               replies
  <2>4. CASE Wait(w)
      BY <1>p, <2>4 DEF TypeOK, Wait, circuits, onions, tasks, updates, stops, replies
  <2> QED
      BY <1>2, <2>1, <2>2, <2>3, <2>4 DEF LoopStep
<1>3. ASSUME NEW w \in Workers, update_state_threadfn(w) PROVE TypeOK'
    BY <1>p, <1>3 DEF TypeOK, update_state_threadfn, circuits, onions, tasks, updates, stops, replies
<1>4. ASSUME NEW w \in Workers, queue_reply(w) PROVE TypeOK'
  <2>1. job[w] \in Jobs
      BY <1>4 DEF TypeOK, queue_reply, PlaceInv
  <2>2. Append(answers, job[w]) \in Seq(Jobs)
      BY <2>1, AppendElements DEF TypeOK
  <2> QED
      BY <1>p, <1>4, <2>2 DEF TypeOK, queue_reply, circuits, onions, tasks, updates, stops
<1>5. ASSUME NEW w \in Workers, SendAlert(w) PROVE TypeOK'
    BY <1>p, <1>5 DEF TypeOK, SendAlert, circuits, onions, tasks, updates, stops
<1>6. ASSUME NEW w \in Workers, WorkerGone(w) PROVE TypeOK'
    BY <1>p, <1>6 DEF TypeOK, WorkerGone, circuits, onions, tasks, updates, stops, replies
<1>7. ASSUME NEW w \in Workers, SpuriousWakeup(w) PROVE TypeOK'
    BY <1>p, <1>7 DEF TypeOK, SpuriousWakeup, circuits, onions, tasks, updates, stops, replies
<1>8. ASSUME NEW c \in Circs, QueueJob(c)
      PROVE  /\ total_pending_tasks' \in Int /\ work' \in [Priorities -> Seq(Jobs)]
             /\ workqueue_entry' \subseteq Circs
             /\ pc' \in [Workers -> Places]
  <2>1. Append(work[WQ_PRI_HIGH], c) \in Seq(Jobs)
      BY <1>0, AppendElements
  <2>2. work' \in [Priorities -> Seq(Jobs)]
    <3>1. work \in [Priorities -> Seq(Jobs)]
        BY DEF TypeOK
    <3> QED
        BY <1>8, <2>1, <3>1 DEF QueueJob
  <2>3. pc' \in [Workers -> Places]
    <3>1. SignalOne
        BY <1>8 DEF QueueJob
    <3> QED
        BY <3>1, Signals
  <2> QED
      BY <1>8, <2>2, <2>3 DEF TypeOK, QueueJob
<1>9. ASSUME NEW c \in Circs, CreateAssigned(c) PROVE TypeOK'
  <2>1. QueueJob(c)
      BY <1>9 DEF CreateAssigned
  <2> QED
      BY <1>9, <2>1, <1>8 DEF TypeOK, CreateAssigned, NewCircuit, Quiet, onions, updates, stops, replies
<1>10. ASSUME NEW c \in Circs, CreateQueued(c) PROVE TypeOK'
  <2>1. PICK k \in 0..Len(ol_list) :
          /\ ol_list' = Append(SubSeq(ol_list, k + 1, Len(ol_list)), c)
          /\ ol_entries' = ol_entries + 1 - k
          /\ marked' = marked \cup {ol_list[i] : i \in 1..k}
      BY <1>10 DEF CreateQueued
  <2>2. ol_list' \in Seq(Circs)
    <3>1. SubSeq(ol_list, k + 1, Len(ol_list)) \in Seq(Circs)
        BY DropElements DEF TypeOK
    <3> QED
        BY <2>1, <3>1, AppendElements
  <2>3. marked' \subseteq Circs /\ ol_entries' \in Int
      BY <2>1 DEF TypeOK
  <2> QED
      BY <1>10, <2>2, <2>3
         DEF TypeOK, CreateQueued, NewCircuit, tasks, updates, stops, threads, replies
<1>11. ASSUME NEW c \in Circs, CreateRefused(c) PROVE TypeOK'
    BY <1>11 DEF TypeOK, CreateRefused, NewCircuit, onions, tasks, updates, stops, threads, replies
<1>12. ASSUME NEW c \in Circs, CreateFast(c) PROVE TypeOK'
    BY <1>12 DEF TypeOK, CreateFast, NewCircuit, onions, tasks, updates, stops, threads, replies
<1>13. ASSUME NEW c \in Circs, circuit_mark_for_close(c) PROVE TypeOK'
    BY <1>13 DEF TypeOK, circuit_mark_for_close, onions, tasks, updates, stops, threads, replies
<1>14. ASSUME NEW c \in Circs, circuit_close_all_marked(c) PROVE TypeOK'
  <2>1. ol_list' \in Seq(Circs) /\ ol_entries' \in Int
    <3>1. CASE InOnions(c)
      <4>1. Remove(c, ol_list) \in Seq(Circs)
          BY <3>1, RemoveElements DEF TypeOK, PlaceInv, InOnions
      <4> QED
          BY <1>14, <3>1, <4>1 DEF circuit_close_all_marked, CancelJob, TypeOK
    <3>2. CASE ~InOnions(c)
        BY <1>14, <3>2 DEF circuit_close_all_marked, CancelJob, TypeOK, onions
    <3> QED
        BY <3>1, <3>2
  <2>2. /\ work' \in [Priorities -> Seq(Jobs)] /\ total_pending_tasks' \in Int
        /\ workqueue_entry' \subseteq Circs
    <3>1. CASE Cancels(c)
      <4>1. Remove(c, work[WQ_PRI_HIGH]) \in Seq(Circs)
          BY <3>1, RemoveElements DEF TypeOK, PlaceInv, Cancels, InQueue
      <4>2. Remove(c, work[WQ_PRI_HIGH]) \in Seq(Jobs)
          BY <4>1, SeqMonotonic
      <4>3. work' \in [Priorities -> Seq(Jobs)]
        <5>1. work \in [Priorities -> Seq(Jobs)]
            BY DEF TypeOK
        <5>2. work' = [work EXCEPT ![WQ_PRI_HIGH] = Remove(c, @)]
            BY <1>14, <3>1 DEF circuit_close_all_marked, CancelJob
        <5> QED
            BY <4>2, <5>1, <5>2
      <4> QED
          BY <1>14, <3>1, <4>3 DEF circuit_close_all_marked, CancelJob, TypeOK
    <3>2. CASE ~Cancels(c)
        BY <1>14, <3>2 DEF circuit_close_all_marked, CancelJob, TypeOK
    <3> QED
        BY <3>1, <3>2
  <2> QED
      BY <1>14, <2>1, <2>2
         DEF TypeOK, circuit_close_all_marked, CancelJob, updates, stops, threads, replies
<1>15. ASSUME NEW S \in SUBSET Circs, ChannelLost(S) PROVE TypeOK'
    BY <1>15 DEF TypeOK, ChannelLost, onions, tasks, updates, stops, threads, replies
<1>16. CASE DrainAlert
    BY <1>16 DEF TypeOK, DrainAlert, circuits, onions, tasks, updates, stops, threads
<1>17. CASE ProcessReply
  <2>1. Tail(answers) \in Seq(Jobs)
      BY <1>17, TailElements DEF TypeOK, ProcessReply
  <2>2. CASE Head(answers) \in Circs /\ Replied(Head(answers))
    <3>1. /\ circ' \in [Circs -> {"none", "pending", "open", "dead", "freed"}]
          /\ marked' \subseteq Circs
        BY <2>2 DEF TypeOK, Replied
    <3>2. /\ total_pending_tasks' \in Int /\ workqueue_entry' \subseteq Circs
          /\ main' = "tasks"
        BY <2>2 DEF TypeOK, Replied
    <3> QED
        BY <1>17, <2>1, <3>1, <3>2 DEF TypeOK, ProcessReply, onions, updates, stops, threads
  <2>3. CASE UNCHANGED <<main, circ, marked, workqueue_entry, total_pending_tasks>>
      BY <1>17, <2>1, <2>3 DEF TypeOK, ProcessReply, onions, updates, stops, threads
  <2> QED
      BY <1>17, <2>2, <2>3 DEF ProcessReply
<1>18. CASE QueueTask
  <2>1. Head(ol_list) \in Circs /\ Tail(ol_list) \in Seq(Circs)
      BY <1>18, TailElements DEF TypeOK, QueueTask, MoreTasks
  <2>2. CASE QueueJob(Head(ol_list))
      BY <1>18, <1>8, <2>1, <2>2 DEF TypeOK, QueueTask, Quiet, updates, stops, replies
  <2>3. CASE UNCHANGED <<total_pending_tasks, work, workqueue_entry, pc>>
      BY <1>18, <2>1, <2>3 DEF TypeOK, QueueTask, Quiet, updates, stops, replies
  <2> QED
      BY <1>18, <2>2, <2>3 DEF QueueTask
<1>19. CASE TasksDone
    BY <1>19 DEF TypeOK, TasksDone, circuits, onions, tasks, updates, stops, threads, replies
<1>20. CASE RepliesDone
    BY <1>20 DEF TypeOK, RepliesDone, circuits, onions, tasks, updates, stops, threads, replies
<1>21. ASSUME NEW j \in Others, cpuworker_queue_work(j) PROVE TypeOK'
  <2>1. Append(work[WQ_PRI_LOW], j) \in Seq(Jobs)
      BY <1>0, AppendElements
  <2>2. SignalOne
      BY <1>21 DEF cpuworker_queue_work
  <2> QED
      BY <1>21, <2>1, <2>2, Signals
         DEF TypeOK, cpuworker_queue_work, Quiet, circuits, onions, updates, stops, replies
<1>22. CASE cpuworkers_rotate_keyinfo
  <2>1. SignalAll /\ generation + 1 \in 0..MaxGen
      BY <1>22 DEF cpuworkers_rotate_keyinfo, TypeOK
  <2> QED
      BY <1>22, <2>1, Signals
         DEF TypeOK, cpuworkers_rotate_keyinfo, Quiet, circuits, onions, tasks, stops, replies
<1>23. CASE cpuworker_consensus_has_changed
    BY <1>23 DEF TypeOK, cpuworker_consensus_has_changed, circuits, onions, updates, stops,
                 threads, replies
<1>24. CASE StopThreads
  <2>1. SignalAll
      BY <1>24 DEF StopThreads
  <2> QED
      BY <1>24, <2>1, Signals
         DEF TypeOK, StopThreads, Quiet, circuits, onions, tasks, updates, replies
<1>25. CASE threadpool_free
    BY <1>25, EmptySeq DEF TypeOK, threadpool_free, circuits, onions, tasks, updates, stops, threads
<1>26. CASE UNCHANGED vars
    BY <1>26 DEF TypeOK, vars, circuits, onions, tasks, updates, stops, threads, replies
<1> QED
    BY <1>1, <1>2, <1>3, <1>4, <1>5, <1>6, <1>7, <1>9, <1>10, <1>11, <1>12, <1>13, <1>14,
       <1>15, <1>16, <1>17, <1>18, <1>19, <1>20, <1>21, <1>22, <1>23, <1>24, <1>25, <1>26,
       NextCases

\* What the main thread does to the threads and to itself.
LEMMA MainFacts ==
    ASSUME TypeOK, MainStep
    PROVE  /\ Quiet /\ UNCHANGED <<control_lock, running>>
           /\ \A w \in Workers : pc'[w] = pc[w] \/ (pc[w] = "wait" /\ pc'[w] = "outer")
           /\ UNCHANGED updates \/ cpuworkers_rotate_keyinfo
           /\ main \in {"loop", "closing", "replies", "tasks", "stopping"}
           /\ \/ exit' = exit /\ main # "stopping"
                 /\ main' \in {"loop", "closing", "replies", "tasks"}
              \/ exit' = TRUE /\ main' = "stopping"
              \/ exit' = exit /\ main = "stopping" /\ ~control_lock /\ main' = "stopped"
<1> DEFINE Goal ==
        /\ Quiet /\ UNCHANGED <<control_lock, running>>
        /\ \A w \in Workers : pc'[w] = pc[w] \/ (pc[w] = "wait" /\ pc'[w] = "outer")
        /\ UNCHANGED updates \/ cpuworkers_rotate_keyinfo
        /\ main \in {"loop", "closing", "replies", "tasks", "stopping"}
        /\ \/ exit' = exit /\ main # "stopping"
              /\ main' \in {"loop", "closing", "replies", "tasks"}
           \/ exit' = TRUE /\ main' = "stopping"
           \/ exit' = exit /\ main = "stopping" /\ ~control_lock /\ main' = "stopped"
<1> USE DEF stops, Quiet, threads
<1>1. ASSUME NEW c \in Circs, CreateAssigned(c) PROVE Goal
    BY <1>1, Signals DEF CreateAssigned, NewCircuit, QueueJob
<1>2. ASSUME NEW c \in Circs, CreateQueued(c) \/ CreateRefused(c) \/ CreateFast(c) PROVE Goal
    BY <1>2 DEF CreateQueued, CreateRefused, CreateFast, NewCircuit
<1>3. ASSUME NEW c \in Circs, circuit_mark_for_close(c) PROVE Goal
    BY <1>3 DEF circuit_mark_for_close
<1>4. ASSUME NEW c \in Circs, circuit_close_all_marked(c) PROVE Goal
  <2>1. /\ UNCHANGED <<updates, stops, threads>> /\ main \in {"loop", "closing"}
        /\ main' \in {"loop", "closing"}
      BY <1>4 DEF circuit_close_all_marked, CancelJob
  <2> QED
      BY <2>1
<1>5. ASSUME NEW S \in SUBSET Circs, ChannelLost(S) PROVE Goal
    BY <1>5 DEF ChannelLost
<1>6. ASSUME DrainAlert \/ TasksDone \/ RepliesDone PROVE Goal
    BY <1>6 DEF DrainAlert, TasksDone, RepliesDone
<1>7. ASSUME ProcessReply PROVE Goal
  <2>1. main = "replies" /\ main' \in {"replies", "tasks"} /\ UNCHANGED <<updates, stops, threads>>
      BY <1>7 DEF ProcessReply, Replied
  <2> QED
      BY <2>1
<1>8. ASSUME QueueTask PROVE Goal
  <2>1. \A w \in Workers : pc'[w] = pc[w] \/ (pc[w] = "wait" /\ pc'[w] = "outer")
      BY <1>8, Signals DEF QueueTask, QueueJob
  <2>2. main = "tasks" /\ main' = main /\ Quiet /\ UNCHANGED <<updates, stops>>
      BY <1>8 DEF QueueTask
  <2> QED
      BY <2>1, <2>2
<1>9. ASSUME NEW j \in Others, cpuworker_queue_work(j) PROVE Goal
    BY <1>9, Signals DEF cpuworker_queue_work
<1>10. ASSUME cpuworkers_rotate_keyinfo PROVE Goal
  <2>1. SignalAll /\ main = "loop" /\ main' = main /\ Quiet /\ UNCHANGED stops
      BY <1>10 DEF cpuworkers_rotate_keyinfo
  <2> QED
      BY <1>10, <2>1, Signals
<1>11. ASSUME cpuworker_consensus_has_changed PROVE Goal
    BY <1>11 DEF cpuworker_consensus_has_changed
<1>12. ASSUME StopThreads PROVE Goal
    BY <1>12, Signals DEF StopThreads
<1>13. ASSUME threadpool_free PROVE Goal
    BY <1>13 DEF threadpool_free
<1> HIDE DEF Goal
<1>14. Goal
  <2>1. CASE \E c \in Circs :
                \/ CreateAssigned(c) \/ CreateQueued(c) \/ CreateRefused(c) \/ CreateFast(c)
                \/ circuit_mark_for_close(c) \/ circuit_close_all_marked(c)
      BY <2>1, <1>1, <1>2, <1>3, <1>4
  <2> QED
      BY <2>1, <1>5, <1>6, <1>7, <1>8, <1>9, <1>10, <1>11, <1>12, <1>13 DEF MainStep
<1> QED
    BY <1>14 DEF Goal

-----------------------------------------------------------------------------
(* The parts of the invariant, one by one. *)

\* Update arguments and keys.
LEMMA KeyStep == TypeOK /\ KeyInv /\ [Next]_vars => KeyInv'
<1> SUFFICES ASSUME TypeOK, KeyInv, [Next]_vars PROVE KeyInv'
    OBVIOUS
<1>t. /\ pc \in [Workers -> Places] /\ arg \in [Workers -> 0..MaxGen]
      /\ thread_generation \in [Workers -> 0..MaxGen] /\ keys \in [Workers -> 0..MaxGen]
      /\ update_args \in [Workers -> 0..MaxGen]
    BY DEF TypeOK
<1>k. ASSUME UNCHANGED <<arg, thread_generation, keys, updates>>,
             \A w \in Workers : pc'[w] = "update" <=> pc[w] = "update"
      PROVE  KeyInv'
    BY <1>k DEF KeyInv, UpToDate, updates
<1>1. CASE MainStep
  <2>1. CASE cpuworkers_rotate_keyinfo
    <3>1. Quiet /\ \A w \in Workers : pc'[w] = "update" <=> pc[w] = "update"
        BY <1>1, MainFacts
    <3>2. \A w \in Workers : update_args'[w] = generation'
        BY <2>1 DEF cpuworkers_rotate_keyinfo
    <3> QED
        BY <3>1, <3>2 DEF KeyInv, UpToDate, Quiet
  <2>2. CASE UNCHANGED updates
    <3>1. Quiet /\ \A w \in Workers : pc'[w] = "update" <=> pc[w] = "update"
        BY <1>1, MainFacts
    <3> QED
        BY <1>k, <2>2, <3>1 DEF Quiet
  <2> QED
      BY <1>1, <2>1, <2>2, MainFacts
<1>2. ASSUME NEW w \in Workers, WorkerStarts(w) PROVE KeyInv'
    BY <1>t, <1>k, <1>2 DEF WorkerStarts
<1>3. ASSUME NEW w \in Workers, LoopStep(w) PROVE KeyInv'
  <2>0. pc[w] # "update"
      BY <1>3 DEF LoopStep
  <2>1. CASE WorkerExits(w)
      BY <1>t, <1>k, <2>0, <2>1 DEF WorkerExits
  <2>2. CASE TakeUpdate(w)
      BY <1>t, <2>0, <2>2 DEF TakeUpdate, KeyInv, UpToDate
  <2>3. CASE TakesWork(w)
      BY <1>t, <1>k, <2>0, <2>3 DEF TakesWork, ExtractNextWork
  <2>4. CASE Wait(w)
      BY <1>t, <1>k, <2>0, <2>4 DEF Wait
  <2> QED
      BY <1>3, <2>1, <2>2, <2>3, <2>4 DEF LoopStep
<1>4. ASSUME NEW w \in Workers, update_state_threadfn(w) PROVE KeyInv'
    BY <1>t, <1>4 DEF update_state_threadfn, KeyInv, UpToDate, updates
<1>5. ASSUME NEW w \in Workers, queue_reply(w) PROVE KeyInv'
    BY <1>t, <1>k, <1>5 DEF queue_reply
<1>6. ASSUME NEW w \in Workers, SendAlert(w) \/ WorkerGone(w) \/ SpuriousWakeup(w)
      PROVE  KeyInv'
    BY <1>t, <1>k, <1>6 DEF SendAlert, WorkerGone, SpuriousWakeup
<1>7. CASE UNCHANGED vars
    BY <1>k, <1>7 DEF vars, threads
<1> QED
    BY <1>1, <1>2, <1>3, <1>4, <1>5, <1>6, <1>7, NextCases DEF MainStep

\* Threads and locks.
LEMMA ThreadStep == TypeOK /\ ThreadInv /\ [Next]_vars => ThreadInv'
<1> SUFFICES ASSUME TypeOK, ThreadInv, [Next]_vars PROVE ThreadInv'
    OBVIOUS
<1>t. pc \in [Workers -> Places] /\ running \in Int
    BY DEF TypeOK
<1>f. /\ IsFiniteSet(Running) /\ Running \subseteq Workers
      /\ Cardinality(Running) \in Nat /\ running = Cardinality(Running)
  <2>1. Running \subseteq Workers
      BY DEF Running
  <2> QED
      BY <2>1, FS_Subset, FS_CardinalityType DEF ThreadInv
<1>k. ASSUME UNCHANGED <<main, stops>>,
             \A w \in Workers : /\ pc'[w] = "new" <=> pc[w] = "new"
                                /\ pc'[w] \in {"unlocking", "gone"} <=> pc[w] \in {"unlocking", "gone"}
      PROVE  ThreadInv'
  <2>1. Running' = Running
      BY <1>k DEF Running
  <2> QED
      BY <1>k, <2>1 DEF ThreadInv, stops
<1>1. CASE MainStep
  <2>1. \A w \in Workers : pc'[w] = pc[w] \/ (pc[w] = "wait" /\ pc'[w] = "outer")
      BY <1>1, MainFacts
  <2>2. Running' = Running
      BY <2>1 DEF Running
  <2>3. /\ UNCHANGED <<control_lock, running>>
        /\ main \in {"loop", "closing", "replies", "tasks", "stopping"}
        /\ \/ exit' = exit /\ main # "stopping"
              /\ main' \in {"loop", "closing", "replies", "tasks"}
           \/ exit' = TRUE /\ main' = "stopping"
           \/ exit' = exit /\ main = "stopping" /\ ~control_lock /\ main' = "stopped"
      BY <1>1, MainFacts
  <2>4. running' = Cardinality(Running')
      BY <1>f, <2>2, <2>3
  <2>5. (main' = "starting" <=> \E w \in Workers : pc'[w] = "new")
      BY <2>1, <2>3 DEF ThreadInv
  <2>6. \A w \in Workers : pc'[w] \in {"unlocking", "gone"} => exit'
      BY <2>1, <2>3 DEF ThreadInv
  <2>7. exit' => main' \in {"stopping", "stopped"}
      BY <2>3 DEF ThreadInv
  <2>8. /\ main' # "starting" /\ ~control_lock' => Running' = {}
        /\ main' = "stopped" => Running' = {}
      BY <2>2, <2>3 DEF ThreadInv
  <2> QED
      BY <2>4, <2>5, <2>6, <2>7, <2>8 DEF ThreadInv
<1>2. ASSUME NEW w \in Workers, WorkerStarts(w) PROVE ThreadInv'
  <2>1. /\ pc[w] = "new" /\ pc' = [pc EXCEPT ![w] = "outer"] /\ running' = running + 1
        /\ main = "starting" /\ exit' = exit /\ ~exit
        /\ \A x \in Workers : pc[x] \notin {"unlocking", "gone"}
      BY <1>2 DEF WorkerStarts, ThreadInv
  <2>2. Running' = Running \cup {w} /\ w \notin Running
      BY <1>t, <2>1 DEF Running
  <2>3. Cardinality(Running') = Cardinality(Running) + 1 /\ IsFiniteSet(Running')
      BY <1>f, <2>2, FS_AddElement
  <2>4. running' = Cardinality(Running')
      BY <1>f, <2>1, <2>3
  <2>5. CASE running + 1 = Cardinality(Workers)
    <3>1. Running' = Workers
        BY <1>f, <2>2, <2>3, <2>5, FS_Subset
    <3>2. \A x \in Workers : pc'[x] # "new"
        BY <3>1 DEF Running
    <3>3. main' = "loop" /\ control_lock' = TRUE
        BY <1>2, <2>5 DEF WorkerStarts
    <3> QED
        BY <1>t, <2>1, <2>4, <3>2, <3>3 DEF ThreadInv
  <2>6. CASE running + 1 # Cardinality(Workers)
    <3>1. UNCHANGED <<main, control_lock>>
        BY <1>2, <2>6 DEF WorkerStarts
    <3>2. Running' # Workers
        BY <1>f, <2>3, <2>6
    <3>3. PICK x \in Workers : x \notin Running'
        BY <1>f, <2>2, <3>2
    <3>4. pc'[x] = "new"
        BY <1>t, <2>1, <3>3 DEF Running
    <3> QED
        BY <1>t, <2>1, <2>4, <3>1, <3>4 DEF ThreadInv
  <2> QED
      BY <2>5, <2>6
<1>3. ASSUME NEW w \in Workers, LoopStep(w) PROVE ThreadInv'
  <2>0. pc[w] \in {"outer", "inner"} /\ main # "starting"
      BY <1>3 DEF LoopStep, Unlocked
  <2>1. CASE SeesExit(w) /\ WorkerExits(w)
    <3>1. /\ exit /\ pc' = [pc EXCEPT ![w] = "unlocking"] /\ running' = running - 1
          /\ control_lock' = (control_lock /\ running # 1)
          /\ UNCHANGED <<main, exit>>
        BY <2>1 DEF SeesExit, WorkerExits
    <3>2. Running' = Running \ {w} /\ w \in Running
        BY <1>t, <2>0, <3>1 DEF Running
    <3>3. Cardinality(Running') = Cardinality(Running) - 1 /\ IsFiniteSet(Running')
        BY <1>f, <3>2, FS_RemoveElement
    <3>4. running' = Cardinality(Running')
        BY <1>f, <3>1, <3>3
    <3>5. ~control_lock' => Running' = {}
      <4>1. CASE running = 1
          BY <1>f, <3>3, <4>1, FS_EmptySet
      <4>2. CASE ~control_lock
          BY <2>0, <3>2, <4>2 DEF ThreadInv
      <4> QED
          BY <3>1, <4>1, <4>2
    <3>6. main # "stopped"
        BY <3>2 DEF ThreadInv
    <3> QED
        BY <1>t, <2>0, <3>1, <3>4, <3>5, <3>6 DEF ThreadInv
  <2>2. CASE TakeUpdate(w)
      BY <1>t, <1>k, <2>0, <2>2 DEF TakeUpdate
  <2>3. CASE TakesWork(w)
      BY <1>t, <1>k, <2>0, <2>3 DEF TakesWork, ExtractNextWork
  <2>4. CASE Wait(w)
      BY <1>t, <1>k, <2>0, <2>4 DEF Wait
  <2> QED
      BY <1>3, <2>1, <2>2, <2>3, <2>4 DEF LoopStep
<1>4. ASSUME NEW w \in Workers, update_state_threadfn(w) \/ queue_reply(w) PROVE ThreadInv'
    BY <1>t, <1>k, <1>4 DEF update_state_threadfn, queue_reply
<1>5. ASSUME NEW w \in Workers, SendAlert(w) \/ WorkerGone(w) \/ SpuriousWakeup(w)
      PROVE  ThreadInv'
    BY <1>t, <1>k, <1>5 DEF SendAlert, WorkerGone, SpuriousWakeup
<1>6. CASE UNCHANGED vars
    BY <1>k, <1>6 DEF vars, threads
<1> QED
    BY <1>1, <1>2, <1>3, <1>4, <1>5, <1>6, NextCases DEF MainStep

-----------------------------------------------------------------------------
(* Where the jobs of circuits go. *)

\* Steps that leave the jobs where they are.
LEMMA FlightSame ==
    ASSUME TypeOK, PlaceInv, UNCHANGED <<work, answers, job>>, Once(ol_list'),
           \A w \in Workers : pc'[w] = "fn" <=> pc[w] = "fn"
    PROVE  PlaceInv' /\ \A d \in Circs : InFlight(d)' <=> InFlight(d)
<1>1. \A d \in Circs : (InQueue(d)' <=> InQueue(d)) /\ (Taken(d)' <=> Taken(d))
                       /\ (Answered(d)' <=> Answered(d))
    BY DEF InQueue, Taken, Answered
<1>2. \A d \in Circs : InFlight(d)' <=> InFlight(d)
    BY <1>1 DEF InFlight
<1>3. PlaceInv'
    BY <1>1 DEF PlaceInv
<1> QED
    BY <1>2, <1>3

\* The job of c is queued.
LEMMA FlightQueued ==
    ASSUME TypeOK, PlaceInv, NEW c \in Circs, ~InFlight(c), QueueJob(c),
           UNCHANGED <<answers, job>>, Once(ol_list')
    PROVE  PlaceInv' /\ \A d \in Circs : InFlight(d)' <=> (InFlight(d) \/ d = c)
<1>0. /\ WQ_PRI_HIGH \in Priorities /\ work \in [Priorities -> Seq(Jobs)]
      /\ work[WQ_PRI_HIGH] \in Seq(Circs) /\ Once(work[WQ_PRI_HIGH])
      /\ ~InQueue(c) /\ ~Taken(c) /\ ~Answered(c)
    BY DEF TypeOK, PlaceInv, Priorities, WQ_PRI_HIGH, WQ_PRI_LOW, InFlight
<1>1. /\ work'[WQ_PRI_HIGH] = Append(work[WQ_PRI_HIGH], c)
      /\ \A p \in Priorities \ {WQ_PRI_HIGH} : work'[p] = work[p]
    BY <1>0 DEF QueueJob
<1>2. /\ work'[WQ_PRI_HIGH] \in Seq(Circs) /\ Once(work'[WQ_PRI_HIGH])
      /\ Elements(work'[WQ_PRI_HIGH]) = Elements(work[WQ_PRI_HIGH]) \cup {c}
    BY <1>0, <1>1, AppendElements DEF InQueue
<1>3. \A d \in Circs : (InQueue(d)' <=> (InQueue(d) \/ d = c)) /\ (Taken(d)' <=> Taken(d))
                       /\ (Answered(d)' <=> Answered(d))
    BY <1>2 DEF InQueue, Taken, Answered
<1>4. \A d \in Circs : InFlight(d)' <=> (InFlight(d) \/ d = c)
    BY <1>3 DEF InFlight
<1>5. \A w \in Workers : pc'[w] = "fn" <=> pc[w] = "fn"
  <2>1. SignalOne
      BY DEF QueueJob
  <2> QED
      BY <2>1, Signals
<1>6. /\ Once(answers') /\ \A w \in Workers : pc'[w] = "fn" <=> job'[w] # NoJob
      /\ \A d \in Circs : \A w, x \in Workers : job'[w] = d /\ job'[x] = d => w = x
    BY <1>5 DEF PlaceInv
<1>7. \A d \in Circs : /\ ~(InQueue(d)' /\ Taken(d)') /\ ~(InQueue(d)' /\ Answered(d)')
                       /\ ~(Taken(d)' /\ Answered(d)')
    BY <1>0, <1>3 DEF PlaceInv
<1>8. \A p \in Priorities \ {WQ_PRI_HIGH} : work'[p] \in Seq(Others)
    BY <1>1 DEF PlaceInv
<1> QED
    BY <1>2, <1>4, <1>6, <1>7, <1>8 DEF PlaceInv

\* A worker takes a job.
LEMMA FlightTaken ==
    ASSUME TypeOK, PlaceInv, NEW w \in Workers, LoopStep(w), TakesWork(w)
    PROVE  PlaceInv' /\ \A d \in Circs : InFlight(d)' <=> InFlight(d)
<1>0. /\ work \in [Priorities -> Seq(Jobs)] /\ job \in [Workers -> Jobs \cup {NoJob}]
      /\ pc \in [Workers -> Places] /\ work[WQ_PRI_HIGH] \in Seq(Circs)
      /\ WQ_PRI_HIGH \in Priorities
      /\ \A p \in Priorities \ {WQ_PRI_HIGH} : work[p] \in Seq(Others)
    BY DEF TypeOK, PlaceInv, WQ_PRI_HIGH, WQ_PRI_LOW, Priorities
<1>1. PICK p \in Priorities :
          /\ work[p] # <<>>
          /\ job' = [job EXCEPT ![w] = Head(work[p])]
          /\ work' = [work EXCEPT ![p] = Tail(@)]
    BY DEF TakesWork, ExtractNextWork
<1>2. pc' = [pc EXCEPT ![w] = "fn"] /\ UNCHANGED <<answers, ol_list>>
    BY DEF TakesWork, ExtractNextWork, onions, replies
<1>3. job[w] = NoJob
    BY DEF LoopStep, PlaceInv
<1>4. \A d \in Circs : Answered(d)' <=> Answered(d)
    BY <1>2 DEF Answered
<1>5. CASE p = WQ_PRI_HIGH
  <2> DEFINE h == Head(work[WQ_PRI_HIGH])
  <2>1. /\ h \in Circs /\ Tail(work[WQ_PRI_HIGH]) \in Seq(Circs)
        /\ Once(Tail(work[WQ_PRI_HIGH]))
        /\ Elements(Tail(work[WQ_PRI_HIGH])) = Elements(work[WQ_PRI_HIGH]) \ {h}
        /\ h \in Elements(work[WQ_PRI_HIGH])
    <3>1. Once(work[WQ_PRI_HIGH])
        BY DEF PlaceInv
    <3> QED
        BY <1>0, <1>1, <1>5, <3>1, TailElements
  <2>2. job' = [job EXCEPT ![w] = h]
      BY <1>1, <1>5
  <2>3. /\ work'[WQ_PRI_HIGH] = Tail(work[WQ_PRI_HIGH])
        /\ \A q \in Priorities \ {WQ_PRI_HIGH} : work'[q] = work[q]
      BY <1>0, <1>1, <1>5
  <2> HIDE DEF h
  <2>4. \A d \in Circs : (InQueue(d)' <=> (InQueue(d) /\ d # h))
                         /\ (Taken(d)' <=> (Taken(d) \/ d = h))
    <3>1. \A d \in Circs : InQueue(d)' <=> (InQueue(d) /\ d # h)
        BY <2>1, <2>3 DEF InQueue
    <3>2. \A y \in Workers : job'[y] = IF y = w THEN h ELSE job[y]
        BY <1>0, <2>2
    <3>3. \A d \in Circs : d # NoJob
        BY DEF Jobs
    <3>4. \A d \in Circs : Taken(d)' <=> (Taken(d) \/ d = h)
        BY <1>3, <3>2, <3>3 DEF Taken
    <3> QED
        BY <3>1, <3>4
  <2>5. InQueue(h) /\ ~Taken(h) /\ ~Answered(h)
      BY <2>1 DEF InQueue, PlaceInv
  <2>6. \A d \in Circs : InFlight(d)' <=> InFlight(d)
      BY <1>4, <2>4, <2>5 DEF InFlight
  <2>7. /\ \A d \in Circs : \A y, x \in Workers : job'[y] = d /\ job'[x] = d => y = x
        /\ \A y \in Workers : pc'[y] = "fn" <=> job'[y] # NoJob
      BY <1>0, <1>2, <2>1, <2>2, <2>5 DEF PlaceInv, Taken, Jobs
  <2>8. \A d \in Circs : /\ ~(InQueue(d)' /\ Taken(d)') /\ ~(InQueue(d)' /\ Answered(d)')
                         /\ ~(Taken(d)' /\ Answered(d)')
      BY <1>4, <2>4, <2>5 DEF PlaceInv
  <2>9. /\ work'[WQ_PRI_HIGH] \in Seq(Circs) /\ Once(work'[WQ_PRI_HIGH])
        /\ \A q \in Priorities \ {WQ_PRI_HIGH} : work'[q] \in Seq(Others)
        /\ Once(ol_list') /\ Once(answers')
      BY <1>2, <2>1, <2>3 DEF PlaceInv
  <2> QED
      BY <2>6, <2>7, <2>8, <2>9 DEF PlaceInv
<1>6. CASE p # WQ_PRI_HIGH
  <2>1. Head(work[p]) \in Others /\ Tail(work[p]) \in Seq(Others)
      BY <1>0, <1>1, <1>6, TailElements
  <2>2. /\ work'[WQ_PRI_HIGH] = work[WQ_PRI_HIGH]
        /\ \A q \in Priorities \ {WQ_PRI_HIGH} : work'[q] \in Seq(Others)
      BY <1>0, <1>1, <1>6, <2>1
  <2>3. \A d \in Circs : (InQueue(d)' <=> InQueue(d)) /\ (Taken(d)' <=> Taken(d))
    <3>1. \A d \in Circs : InQueue(d)' <=> InQueue(d)
        BY <2>2 DEF InQueue
    <3>2. \A y \in Workers : job'[y] = IF y = w THEN Head(work[p]) ELSE job[y]
        BY <1>0, <1>1
    <3>3. \A d \in Circs : d # NoJob /\ d # Head(work[p])
        BY <2>1 DEF Jobs
    <3>4. \A d \in Circs : Taken(d)' <=> Taken(d)
        BY <1>3, <3>2, <3>3 DEF Taken
    <3> QED
        BY <3>1, <3>4
  <2>4. \A d \in Circs : InFlight(d)' <=> InFlight(d)
      BY <1>4, <2>3 DEF InFlight
  <2>5. /\ \A d \in Circs : \A y, x \in Workers : job'[y] = d /\ job'[x] = d => y = x
        /\ \A y \in Workers : pc'[y] = "fn" <=> job'[y] # NoJob
      BY <1>0, <1>1, <1>2, <2>1 DEF PlaceInv, Jobs
  <2>6. \A d \in Circs : /\ ~(InQueue(d)' /\ Taken(d)') /\ ~(InQueue(d)' /\ Answered(d)')
                         /\ ~(Taken(d)' /\ Answered(d)')
      BY <1>4, <2>3 DEF PlaceInv
  <2>7. /\ work'[WQ_PRI_HIGH] \in Seq(Circs) /\ Once(work'[WQ_PRI_HIGH])
        /\ Once(ol_list') /\ Once(answers')
      BY <1>2, <2>2 DEF PlaceInv
  <2> QED
      BY <2>2, <2>4, <2>5, <2>6, <2>7 DEF PlaceInv
<1> QED
    BY <1>5, <1>6

\* A worker answers.
LEMMA FlightAnswered ==
    ASSUME TypeOK, PlaceInv, NEW w \in Workers, queue_reply(w)
    PROVE  PlaceInv' /\ \A d \in Circs : InFlight(d)' <=> InFlight(d)
<1>0. /\ job \in [Workers -> Jobs \cup {NoJob}] /\ pc \in [Workers -> Places]
      /\ answers \in Seq(Jobs) /\ job[w] \in Jobs
    BY DEF TypeOK, PlaceInv, queue_reply
<1>1. /\ pc[w] = "fn" /\ pc'[w] # "fn" /\ \A x \in Workers \ {w} : pc'[x] = pc[x]
      /\ UNCHANGED <<work, ol_list>>
      /\ answers' = Append(answers, job[w]) /\ job' = [job EXCEPT ![w] = NoJob]
    BY <1>0 DEF queue_reply, onions
<1>2. job[w] \notin Elements(answers) \/ job[w] \in Others
    BY <1>0 DEF PlaceInv, Taken, Answered, Jobs
<1>3. /\ Elements(answers') = Elements(answers) \cup {job[w]}
    BY <1>0, <1>1, AppendElements
<1>4. Once(answers')
  <2>1. CASE job[w] \notin Elements(answers)
      BY <1>0, <1>1, <2>1, AppendElements DEF PlaceInv
  <2>2. CASE job[w] \in Others
    <3>1. /\ Len(answers') = Len(answers) + 1 /\ Len(answers) \in Nat
          /\ answers'[Len(answers) + 1] \notin Circs
          /\ \A i \in 1..Len(answers) : answers'[i] = answers[i]
        BY <1>0, <1>1, <2>2, AppendProperties, LenProperties
    <3>2. \A i \in 1..Len(answers') : i \in 1..Len(answers) \/ i = Len(answers) + 1
        BY <3>1
    <3>3. Once(answers)
        BY DEF PlaceInv
    <3> QED
        BY <3>1, <3>2, <3>3 DEF Once
  <2> QED
      BY <1>2, <2>1, <2>2
<1>5. \A d \in Circs : /\ InQueue(d)' <=> InQueue(d)
                       /\ Taken(d)' <=> (Taken(d) /\ d # job[w])
                       /\ Answered(d)' <=> (Answered(d) \/ d = job[w])
  <2>1. \A d \in Circs : Answered(d)' <=> (Answered(d) \/ d = job[w])
      BY <1>3 DEF Answered
  <2>2. \A d \in Circs : InQueue(d)' <=> InQueue(d)
      BY <1>1 DEF InQueue
  <2>3. \A d \in Circs : d # NoJob
      BY DEF Jobs
  <2>4. \A d \in Circs : Taken(d)' <=> (Taken(d) /\ d # job[w])
      BY <1>0, <1>1, <2>3 DEF Taken, PlaceInv
  <2> QED
      BY <2>1, <2>2, <2>4
<1>6. \A d \in Circs : d = job[w] => Taken(d)
    BY DEF Taken
<1>7. \A d \in Circs : InFlight(d)' <=> InFlight(d)
    BY <1>5, <1>6 DEF InFlight
<1>8. /\ \A d \in Circs : \A y, x \in Workers : job'[y] = d /\ job'[x] = d => y = x
      /\ \A y \in Workers : pc'[y] = "fn" <=> job'[y] # NoJob
    BY <1>0, <1>1 DEF PlaceInv, Jobs
<1>9. \A d \in Circs : /\ ~(InQueue(d)' /\ Taken(d)') /\ ~(InQueue(d)' /\ Answered(d)')
                       /\ ~(Taken(d)' /\ Answered(d)')
    BY <1>5, <1>6 DEF PlaceInv
<1>10. /\ work'[WQ_PRI_HIGH] \in Seq(Circs) /\ Once(work'[WQ_PRI_HIGH])
       /\ \A q \in Priorities \ {WQ_PRI_HIGH} : work'[q] \in Seq(Others)
       /\ Once(ol_list')
    BY <1>1 DEF PlaceInv
<1> QED
    BY <1>4, <1>7, <1>8, <1>9, <1>10 DEF PlaceInv

\* The main thread takes an answer.
LEMMA FlightReplied ==
    ASSUME TypeOK, PlaceInv, ProcessReply
    PROVE  /\ PlaceInv' /\ Head(answers) \in Jobs
           /\ Head(answers) \in Elements(answers)
           /\ \A d \in Circs : InFlight(d)' <=> (InFlight(d) /\ d # Head(answers))
<1> DEFINE h == Head(answers)
<1>0. answers \in Seq(Jobs) /\ answers # <<>> /\ Once(answers)
    BY DEF TypeOK, PlaceInv, ProcessReply
<1>1. /\ h \in Jobs /\ Once(Tail(answers)) /\ h \in Elements(answers)
      /\ \A d \in Circs : d \in Elements(Tail(answers)) <=> (d \in Elements(answers) /\ d # h)
    BY <1>0, TailElements
<1>2. answers' = Tail(answers) /\ UNCHANGED <<work, job, pc, ol_list>>
    BY DEF ProcessReply, onions, threads
<1> HIDE DEF h
<1>3. \A d \in Circs : /\ InQueue(d)' <=> InQueue(d)
                       /\ Taken(d)' <=> Taken(d)
                       /\ Answered(d)' <=> (Answered(d) /\ d # h)
    BY <1>1, <1>2 DEF InQueue, Taken, Answered
<1>4. \A d \in Circs : d = h => Answered(d) /\ ~InQueue(d) /\ ~Taken(d)
    BY <1>1 DEF Answered, PlaceInv
<1>5. \A d \in Circs : InFlight(d)' <=> (InFlight(d) /\ d # h)
    BY <1>3, <1>4 DEF InFlight
<1>6. PlaceInv'
    BY <1>1, <1>2, <1>3 DEF PlaceInv
<1> QED
    BY <1>1, <1>5, <1>6 DEF h

\* A marked circuit is closed.
LEMMA FlightClosed ==
    ASSUME TypeOK, PlaceInv, NEW c \in Circs, circuit_close_all_marked(c)
    PROVE  /\ PlaceInv'
           /\ IF Cancels(c)
              THEN InFlight(c) /\ \A d \in Circs : InFlight(d)' <=> (InFlight(d) /\ d # c)
              ELSE \A d \in Circs : InFlight(d)' <=> InFlight(d)
           /\ Elements(ol_list') = IF InOnions(c) THEN Elements(ol_list) \ {c}
                                   ELSE Elements(ol_list)
           /\ Len(ol_list') = IF InOnions(c) THEN Len(ol_list) - 1 ELSE Len(ol_list)
<1>1. /\ Once(ol_list')
      /\ Elements(ol_list') = IF InOnions(c) THEN Elements(ol_list) \ {c}
                              ELSE Elements(ol_list)
      /\ Len(ol_list') = IF InOnions(c) THEN Len(ol_list) - 1 ELSE Len(ol_list)
  <2>1. CASE InOnions(c)
    <3>1. ol_list' = Remove(c, ol_list)
        BY <2>1 DEF circuit_close_all_marked, CancelJob
    <3>2. ol_list \in Seq(Circs) /\ Once(ol_list) /\ c \in Elements(ol_list)
        BY <2>1 DEF TypeOK, PlaceInv, InOnions
    <3> QED
        BY <2>1, <3>1, <3>2, RemoveElements
  <2>2. CASE ~InOnions(c)
      BY <2>2 DEF circuit_close_all_marked, CancelJob, onions, PlaceInv
  <2> QED
      BY <2>1, <2>2
<1>2. UNCHANGED <<answers, job, pc>>
    BY DEF circuit_close_all_marked, CancelJob, replies, threads
<1>3. CASE ~Cancels(c)
  <2>1. work' = work
      BY <1>3 DEF circuit_close_all_marked, CancelJob
  <2> QED
      BY <1>1, <1>2, <1>3, <2>1, FlightSame
<1>4. CASE Cancels(c)
  <2>0. /\ WQ_PRI_HIGH \in Priorities /\ work \in [Priorities -> Seq(Jobs)]
        /\ work[WQ_PRI_HIGH] \in Seq(Circs) /\ Once(work[WQ_PRI_HIGH])
        /\ InQueue(c) /\ ~Taken(c) /\ ~Answered(c)
      BY <1>4 DEF TypeOK, PlaceInv, Priorities, WQ_PRI_HIGH, WQ_PRI_LOW, Cancels
  <2>1. work' = [work EXCEPT ![WQ_PRI_HIGH] = Remove(c, @)]
      BY <1>4 DEF circuit_close_all_marked, CancelJob
  <2>2. /\ work'[WQ_PRI_HIGH] = Remove(c, work[WQ_PRI_HIGH])
        /\ \A p \in Priorities \ {WQ_PRI_HIGH} : work'[p] = work[p]
      BY <2>0, <2>1
  <2>3. /\ work'[WQ_PRI_HIGH] \in Seq(Circs) /\ Once(work'[WQ_PRI_HIGH])
        /\ Elements(work'[WQ_PRI_HIGH]) = Elements(work[WQ_PRI_HIGH]) \ {c}
      BY <2>0, <2>2, RemoveElements DEF InQueue
  <2>4. \A d \in Circs : /\ InQueue(d)' <=> (InQueue(d) /\ d # c)
                         /\ Taken(d)' <=> Taken(d)
                         /\ Answered(d)' <=> Answered(d)
      BY <1>2, <2>3 DEF InQueue, Taken, Answered
  <2>5. InFlight(c) /\ \A d \in Circs : InFlight(d)' <=> (InFlight(d) /\ d # c)
      BY <2>0, <2>4 DEF InFlight
  <2>6. PlaceInv'
      BY <1>1, <1>2, <2>2, <2>3, <2>4 DEF PlaceInv
  <2> QED
      BY <1>1, <1>4, <2>5, <2>6
<1> QED
    BY <1>3, <1>4

-----------------------------------------------------------------------------
(* Circuits and counters. *)

\* What total_pending_tasks counts, when one job comes or goes or none does.
LEMMA CountStep ==
    ASSUME TypeOK, main # "stopped" => total_pending_tasks = Cardinality({c \in Circs : InFlight(c)}),
           main # "stopped", NEW c \in Circs,
           \/ /\ total_pending_tasks' = total_pending_tasks
              /\ \A d \in Circs : InFlight(d)' <=> InFlight(d)
           \/ /\ total_pending_tasks' = total_pending_tasks + 1 /\ ~InFlight(c)
              /\ \A d \in Circs : InFlight(d)' <=> (InFlight(d) \/ d = c)
           \/ /\ total_pending_tasks' = total_pending_tasks - 1 /\ InFlight(c)
              /\ \A d \in Circs : InFlight(d)' <=> (InFlight(d) /\ d # c)
    PROVE  total_pending_tasks' = Cardinality({d \in Circs : InFlight(d)'})
<1> DEFINE F == {d \in Circs : InFlight(d)}
           G == {d \in Circs : InFlight(d)'}
<1>1. IsFiniteSet(F) /\ total_pending_tasks = Cardinality(F) /\ Cardinality(F) \in Nat
  <2>1. F \subseteq Circs
      OBVIOUS
  <2> QED
      BY <2>1, FS_Subset, FS_CardinalityType
<1>2. \/ total_pending_tasks' = total_pending_tasks /\ G = F
      \/ total_pending_tasks' = total_pending_tasks + 1 /\ c \notin F /\ G = F \cup {c}
      \/ total_pending_tasks' = total_pending_tasks - 1 /\ c \in F /\ G = F \ {c}
    OBVIOUS
<1> HIDE DEF F, G
<1>3. total_pending_tasks' = Cardinality(G)
  <2>1. c \notin F => Cardinality(F \cup {c}) = Cardinality(F) + 1
      BY <1>1, FS_AddElement
  <2>2. c \in F => Cardinality(F \ {c}) = Cardinality(F) - 1
      BY <1>1, FS_RemoveElement
  <2> QED
      BY <1>1, <1>2, <2>1, <2>2
<1> QED
    BY <1>3 DEF G

\* What a step promises about circuits, jobs and counters.
Kept == PlaceInv' /\ CircInv' /\ CountExact' /\ JobKeepsCircuit'

\* Steps that move jobs on and leave the circuits and the counters alone.
LEMMA KeptMoved ==
    ASSUME IndInv, PlaceInv', \A d \in Circs : InFlight(d)' <=> InFlight(d),
           UNCHANGED <<circ, marked, workqueue_entry, onions, total_pending_tasks>>,
           main' = "stopped" <=> main = "stopped"
    PROVE  Kept
<1> USE DEF IndInv
<1>1. CircInv'
    BY DEF CircInv, Usable, TypeOK
<1>2. JobKeepsCircuit'
    BY DEF JobKeepsCircuit, onions
<1>3. {d \in Circs : InFlight(d)'} = {d \in Circs : InFlight(d)}
    OBVIOUS
<1>4. CountExact'
    BY <1>3 DEF CountExact, onions
<1> QED
    BY <1>1, <1>2, <1>4 DEF Kept

\* Steps that do not even move jobs.
LEMMA KeptSame ==
    ASSUME IndInv, UNCHANGED <<work, answers, job>>,
           \A w \in Workers : pc'[w] = "fn" <=> pc[w] = "fn",
           UNCHANGED <<circ, marked, workqueue_entry, onions, total_pending_tasks>>,
           main' = "stopped" <=> main = "stopped"
    PROVE  Kept
<1>1. Once(ol_list')
    BY DEF IndInv, PlaceInv, onions
<1>2. PlaceInv' /\ \A d \in Circs : InFlight(d)' <=> InFlight(d)
    BY <1>1, FlightSame DEF IndInv
<1> QED
    BY <1>2, KeptMoved

\* The workers' steps.
LEMMA KeptByWorkers ==
    ASSUME IndInv, NEW w \in Workers, WorkerStep(w) \/ SpuriousWakeup(w)
    PROVE  Kept
<1>t. pc \in [Workers -> Places]
    BY DEF IndInv, TypeOK
<1>1. CASE WorkerStarts(w)
  <2>1. main' # "stopped" /\ main # "stopped"
    <3>1. main = "starting" /\ main' \in {"starting", "loop"}
        BY <1>1 DEF IndInv, ThreadInv, WorkerStarts
    <3> QED
        BY <3>1
  <2>2. \A x \in Workers : pc'[x] = "fn" <=> pc[x] = "fn"
      BY <1>t, <1>1 DEF WorkerStarts
  <2>3. UNCHANGED <<circ, marked, workqueue_entry, onions, total_pending_tasks, work, answers, job>>
      BY <1>1 DEF WorkerStarts, circuits, tasks, replies
  <2> QED
      BY <2>1, <2>2, <2>3, KeptSame
<1>2. CASE LoopStep(w)
  <2>0. pc[w] # "fn"
      BY <1>2 DEF LoopStep
  <2>1. CASE WorkerExits(w)
    <3>1. /\ UNCHANGED <<circ, marked, workqueue_entry, onions, total_pending_tasks>>
          /\ UNCHANGED <<main, work, answers, job>>
          /\ \A x \in Workers : pc'[x] = "fn" <=> pc[x] = "fn"
        BY <1>t, <2>0, <2>1 DEF WorkerExits, circuits, tasks, replies
    <3> QED
        BY <3>1, KeptSame
  <2>2. CASE TakeUpdate(w)
    <3>1. /\ UNCHANGED <<circ, marked, workqueue_entry, onions, total_pending_tasks>>
          /\ UNCHANGED <<main, work, answers, job>>
          /\ \A x \in Workers : pc'[x] = "fn" <=> pc[x] = "fn"
        BY <1>t, <2>0, <2>2 DEF TakeUpdate, circuits, tasks, replies
    <3> QED
        BY <3>1, KeptSame
  <2>3. CASE TakesWork(w)
    <3>1. UNCHANGED <<main, circ, marked, workqueue_entry, onions, total_pending_tasks>>
        BY <2>3 DEF TakesWork, ExtractNextWork, circuits, tasks
    <3>2. PlaceInv' /\ \A d \in Circs : InFlight(d)' <=> InFlight(d)
        BY <1>2, <2>3, FlightTaken DEF IndInv
    <3> QED
        BY <3>1, <3>2, KeptMoved
  <2>4. CASE Wait(w)
    <3>1. /\ UNCHANGED <<circ, marked, workqueue_entry, onions, total_pending_tasks>>
          /\ UNCHANGED <<main, work, answers, job>>
          /\ \A x \in Workers : pc'[x] = "fn" <=> pc[x] = "fn"
        BY <1>t, <2>0, <2>4 DEF Wait, circuits, tasks, replies
    <3> QED
        BY <3>1, KeptSame
  <2> QED
      BY <1>2, <2>1, <2>2, <2>3, <2>4 DEF LoopStep
<1>3. CASE update_state_threadfn(w)
  <2>1. /\ UNCHANGED <<circ, marked, workqueue_entry, onions, total_pending_tasks>>
        /\ UNCHANGED <<main, work, answers, job>>
        /\ \A x \in Workers : pc'[x] = "fn" <=> pc[x] = "fn"
      BY <1>t, <1>3 DEF update_state_threadfn, circuits, tasks, replies
  <2> QED
      BY <2>1, KeptSame
<1>4. CASE queue_reply(w)
  <2>1. UNCHANGED <<main, circ, marked, workqueue_entry, onions, total_pending_tasks>>
      BY <1>4 DEF queue_reply, circuits, tasks
  <2>2. PlaceInv' /\ \A d \in Circs : InFlight(d)' <=> InFlight(d)
      BY <1>4, FlightAnswered DEF IndInv
  <2> QED
      BY <2>1, <2>2, KeptMoved
<1>5. CASE SendAlert(w) \/ WorkerGone(w) \/ SpuriousWakeup(w)
  <2>1. /\ UNCHANGED <<circ, marked, workqueue_entry, onions, total_pending_tasks>>
        /\ UNCHANGED <<main, work, answers, job>>
        /\ \A x \in Workers : pc'[x] = "fn" <=> pc[x] = "fn"
      BY <1>t, <1>5 DEF SendAlert, WorkerGone, SpuriousWakeup, circuits, tasks, replies
  <2> QED
      BY <2>1, KeptSame
<1>6. WorkerLoop(w) => LoopStep(w)
    BY DEF WorkerLoop, LoopStep
<1> QED
    BY <1>1, <1>2, <1>3, <1>4, <1>5, <1>6 DEF WorkerStep

\* A circuit that is new has no job and waits nowhere.
LEMMA NewHasNoJob ==
    ASSUME IndInv, NEW c \in Circs, circ[c] = "none", main = "loop"
    PROVE  ~InFlight(c) /\ c \notin Elements(ol_list) /\ c \notin workqueue_entry /\ c \notin marked
    BY DEF IndInv, JobKeepsCircuit, CircInv, Usable

\* CREATE cells.
LEMMA KeptByCreate ==
    ASSUME IndInv, NEW c \in Circs,
           CreateAssigned(c) \/ CreateQueued(c) \/ CreateRefused(c) \/ CreateFast(c)
    PROVE  Kept
<1>t. /\ circ \in [Circs -> {"none", "pending", "open", "dead", "freed"}]
      /\ ol_list \in Seq(Circs) /\ TypeOK /\ PlaceInv /\ Once(ol_list)
      /\ workqueue_entry \subseteq Circs
    BY DEF IndInv, TypeOK, PlaceInv
<1>0. main = "loop" /\ main' = main /\ circ[c] = "none"
    BY DEF CreateAssigned, CreateQueued, CreateRefused, CreateFast, NewCircuit
<1>n. ~InFlight(c) /\ c \notin Elements(ol_list) /\ c \notin workqueue_entry /\ c \notin marked
    BY <1>0, NewHasNoJob
<1>j. JobKeepsCircuit /\ CircInv /\ CountExact
    BY DEF IndInv
<1>1. CASE CreateAssigned(c)
  <2>1. /\ QueueJob(c) /\ UNCHANGED <<job, answers, marked, onions>>
        /\ circ' = [circ EXCEPT ![c] = "pending"]
        /\ total_pending_tasks' = total_pending_tasks + 1
        /\ workqueue_entry' = workqueue_entry \cup {c}
      BY <1>1 DEF CreateAssigned, NewCircuit, QueueJob, Quiet, replies
  <2>2. PlaceInv' /\ \A d \in Circs : InFlight(d)' <=> (InFlight(d) \/ d = c)
      BY <1>t, <1>n, <2>1, FlightQueued DEF onions
  <2>3. CircInv'
      BY <1>t, <1>0, <1>j, <2>1, <2>2 DEF CircInv, Usable
  <2>4. JobKeepsCircuit'
      BY <1>t, <1>0, <1>n, <1>j, <2>1, <2>2 DEF JobKeepsCircuit, onions
  <2>5. CountExact'
      BY <1>t, <1>0, <1>n, <1>j, <2>1, <2>2, CountStep DEF CountExact, onions
  <2> QED
      BY <2>2, <2>3, <2>4, <2>5 DEF Kept
<1>2. CASE CreateQueued(c)
  <2>1. /\ UNCHANGED <<workqueue_entry, total_pending_tasks, work, pc, job, answers>>
        /\ circ' = [circ EXCEPT ![c] = "pending"]
      BY <1>2 DEF CreateQueued, NewCircuit, tasks, threads, replies
  <2>2. PICK k \in 0..Len(ol_list) :
          /\ ol_list' = Append(SubSeq(ol_list, k + 1, Len(ol_list)), c)
          /\ ol_entries' = ol_entries + 1 - k
          /\ marked' = marked \cup {ol_list[i] : i \in 1..k}
      BY <1>2 DEF CreateQueued
  <2> DEFINE rest == SubSeq(ol_list, k + 1, Len(ol_list))
  <2>3. /\ rest \in Seq(Circs) /\ Len(rest) = Len(ol_list) - k
        /\ Elements(rest) \subseteq Elements(ol_list) /\ Once(rest)
      BY <1>t, DropElements
  <2> HIDE DEF rest
  <2>4. /\ Len(ol_list') = Len(ol_list) - k + 1 /\ Once(ol_list')
        /\ Elements(ol_list') \subseteq Elements(ol_list) \cup {c}
    <3>1. c \notin Elements(rest) /\ ol_list' = Append(rest, c)
        BY <1>n, <2>2, <2>3 DEF rest
    <3> QED
        BY <2>3, <3>1, AppendElements
  <2>5. PlaceInv' /\ \A d \in Circs : InFlight(d)' <=> InFlight(d)
      BY <1>t, <2>1, <2>4, FlightSame
  <2>6. {ol_list[i] : i \in 1..k} \subseteq Elements(ol_list)
    <3>1. Len(ol_list) \in Nat /\ \A i \in 1..k : i \in 1..Len(ol_list)
        BY <1>t, LenProperties
    <3> QED
        BY <3>1 DEF Elements
  <2>7. \A d \in Elements(ol_list) : d \in Circs /\ circ[d] = "pending"
      BY <1>t, <1>j, ElementOfSeq DEF JobKeepsCircuit, Elements
  <2>8. CircInv'
      BY <1>t, <1>0, <1>j, <2>1, <2>2, <2>5, <2>6, <2>7 DEF CircInv, Usable
  <2>9. JobKeepsCircuit'
      BY <1>t, <1>0, <1>n, <1>j, <2>1, <2>4, <2>5 DEF JobKeepsCircuit
  <2>10. CountExact'
    <3>1. total_pending_tasks' = Cardinality({d \in Circs : InFlight(d)'})
        BY <1>t, <1>0, <1>j, <2>1, <2>5, CountStep DEF CountExact
    <3>2. ol_entries' = Len(ol_list')
      <4>1. ol_entries = Len(ol_list) /\ Len(ol_list) \in Nat
          BY <1>t, <1>j, LenProperties DEF CountExact
      <4> QED
          BY <2>2, <2>4, <4>1
    <3> QED
        BY <3>1, <3>2 DEF CountExact
  <2> QED
      BY <2>5, <2>8, <2>9, <2>10 DEF Kept
<1>3. CASE CreateRefused(c) \/ CreateFast(c)
  <2>1. /\ UNCHANGED <<workqueue_entry, total_pending_tasks, onions, work, pc, job, answers>>
        /\ \/ circ' = [circ EXCEPT ![c] = "pending"] /\ marked' = marked \cup {c}
           \/ circ' = [circ EXCEPT ![c] = "open"] /\ marked' = marked
      BY <1>3 DEF CreateRefused, CreateFast, NewCircuit, tasks, threads, replies
  <2>2. PlaceInv' /\ \A d \in Circs : InFlight(d)' <=> InFlight(d)
      BY <1>t, <2>1, FlightSame DEF onions
  <2>3. CircInv'
      BY <1>t, <1>0, <1>j, <2>1, <2>2 DEF CircInv, Usable
  <2>4. JobKeepsCircuit'
      BY <1>t, <1>0, <1>n, <1>j, <2>1, <2>2 DEF JobKeepsCircuit, onions
  <2>5. CountExact'
      BY <1>t, <1>0, <1>j, <2>1, <2>2, CountStep DEF CountExact, onions
  <2> QED
      BY <2>2, <2>3, <2>4, <2>5 DEF Kept
<1> QED
    BY <1>1, <1>2, <1>3

\* Marking circuits, and closing the marked ones.
LEMMA KeptByClose ==
    ASSUME IndInv,
           \/ \E c \in Circs : circuit_mark_for_close(c) \/ circuit_close_all_marked(c)
           \/ \E S \in SUBSET Circs : ChannelLost(S)
    PROVE  Kept
<1>t. /\ circ \in [Circs -> {"none", "pending", "open", "dead", "freed"}]
      /\ ol_list \in Seq(Circs) /\ TypeOK /\ PlaceInv /\ Once(ol_list)
      /\ workqueue_entry \subseteq Circs
    BY DEF IndInv, TypeOK, PlaceInv
<1>j. JobKeepsCircuit /\ CircInv /\ CountExact
    BY DEF IndInv
<1>1. ASSUME NEW S \in SUBSET Circs, S \subseteq Usable, marked' = marked \cup S, main # "stopped",
             UNCHANGED <<main, circ, workqueue_entry, onions, tasks, work, threads, replies>>
      PROVE  Kept
  <2>1. UNCHANGED <<total_pending_tasks, work, pc, job, answers, ol_list, ol_entries>>
      BY <1>1 DEF onions, tasks, threads, replies
  <2>2. PlaceInv' /\ \A d \in Circs : InFlight(d)' <=> InFlight(d)
      BY <1>t, <2>1, FlightSame
  <2>3. CircInv'
      BY <1>t, <1>1, <1>j, <2>1, <2>2 DEF CircInv, Usable
  <2>4. JobKeepsCircuit'
      BY <1>1, <1>j, <2>1, <2>2 DEF JobKeepsCircuit
  <2>5. CountExact'
    <3>1. {d \in Circs : InFlight(d)'} = {d \in Circs : InFlight(d)}
        BY <2>2
    <3> QED
        BY <1>1, <1>j, <2>1, <3>1 DEF CountExact
  <2> QED
      BY <2>2, <2>3, <2>4, <2>5 DEF Kept
<1>2. ASSUME NEW c \in Circs, circuit_mark_for_close(c) PROVE Kept
  <2>1. {c} \in SUBSET Circs /\ {c} \subseteq Usable /\ marked' = marked \cup {c}
        /\ main # "stopped"
        /\ UNCHANGED <<main, circ, workqueue_entry, onions, tasks, work, threads, replies>>
      BY <1>2 DEF circuit_mark_for_close
  <2> QED
      BY <1>1, <2>1
<1>3. ASSUME NEW S \in SUBSET Circs, ChannelLost(S) PROVE Kept
    BY <1>1, <1>3 DEF ChannelLost
<1>4. ASSUME NEW c \in Circs, circuit_close_all_marked(c) PROVE Kept
  <2>1. /\ main # "stopped" /\ main' # "stopped" /\ c \in marked /\ marked' = marked \ {c}
        /\ circ' = [circ EXCEPT ![c] = IF KeepsForReply(c) THEN "dead" ELSE "freed"]
      BY <1>4 DEF circuit_close_all_marked, CancelJob
  <2>2. /\ PlaceInv'
        /\ IF Cancels(c)
           THEN InFlight(c) /\ \A d \in Circs : InFlight(d)' <=> (InFlight(d) /\ d # c)
           ELSE \A d \in Circs : InFlight(d)' <=> InFlight(d)
        /\ Elements(ol_list') = IF InOnions(c) THEN Elements(ol_list) \ {c}
                                ELSE Elements(ol_list)
        /\ Len(ol_list') = IF InOnions(c) THEN Len(ol_list) - 1 ELSE Len(ol_list)
      BY <1>t, <1>4, FlightClosed
  <2>3. /\ circ[c] \in {"pending", "open"}
        /\ \A d \in Circs : d # c => circ'[d] = circ[d]
        /\ circ'[c] = IF KeepsForReply(c) THEN "dead" ELSE "freed"
      BY <1>t, <1>j, <2>1 DEF CircInv, Usable
  <2>4. c \notin Elements(ol_list')
    <3>1. c \in Elements(ol_list) => InOnions(c)
        BY <1>j DEF JobKeepsCircuit, InOnions
    <3> QED
        BY <2>2, <3>1
  <2>m. marked' \subseteq Usable'
    <3>1. \A d \in marked' : d # c /\ d \in Circs /\ circ[d] \in {"pending", "open"}
        BY <1>j, <2>1 DEF CircInv, Usable
    <3> QED
        BY <2>3, <3>1 DEF Usable
  <2>5. ASSUME Cancels(c)
        PROVE  /\ CircInv' /\ JobKeepsCircuit'
               /\ total_pending_tasks' = Cardinality({d \in Circs : InFlight(d)'})
    <3>1. /\ ~KeepsForReply(c) /\ workqueue_entry' = workqueue_entry \ {c}
          /\ total_pending_tasks' = total_pending_tasks - 1
        BY <1>4, <2>5 DEF circuit_close_all_marked, CancelJob, KeepsForReply
    <3>2. CircInv'
        BY <1>t, <1>j, <2>1, <2>2, <2>m, <2>5, <3>1 DEF CircInv
    <3>3. JobKeepsCircuit'
        BY <1>j, <2>1, <2>2, <2>3, <2>4, <2>5, <3>1 DEF JobKeepsCircuit
    <3>4. total_pending_tasks' = Cardinality({d \in Circs : InFlight(d)'})
        BY <1>t, <1>j, <2>1, <2>2, <2>5, <3>1, CountStep DEF CountExact
    <3> QED
        BY <3>2, <3>3, <3>4
  <2>6. ASSUME ~Cancels(c)
        PROVE  /\ CircInv' /\ JobKeepsCircuit'
               /\ total_pending_tasks' = Cardinality({d \in Circs : InFlight(d)'})
    <3>1. UNCHANGED <<workqueue_entry, total_pending_tasks>>
        BY <1>4, <2>6 DEF circuit_close_all_marked, CancelJob
    <3>2. (c \in workqueue_entry <=> InFlight(c)) /\ (KeepsForReply(c) <=> c \in workqueue_entry)
        BY <1>j, <2>1, <2>6 DEF KeepsForReply, CircInv, JobKeepsCircuit
    <3>3. CircInv'
        BY <1>t, <1>j, <2>1, <2>2, <2>m, <2>6, <3>1 DEF CircInv
    <3>4. JobKeepsCircuit'
        BY <1>j, <2>1, <2>2, <2>3, <2>4, <2>6, <3>1, <3>2 DEF JobKeepsCircuit
    <3>5. total_pending_tasks' = Cardinality({d \in Circs : InFlight(d)'})
        BY <1>t, <1>j, <2>1, <2>2, <2>6, <3>1, CountStep DEF CountExact
    <3> QED
        BY <3>3, <3>4, <3>5
  <2>7. ol_entries' = Len(ol_list')
      BY <1>4, <1>j, <2>2 DEF circuit_close_all_marked, CancelJob, onions, CountExact
  <2> QED
      BY <2>2, <2>5, <2>6, <2>7 DEF Kept, CountExact
<1> QED
    BY <1>2, <1>3, <1>4

\* Replies.
LEMMA KeptByReply ==
    ASSUME IndInv, ProcessReply
    PROVE  Kept
<1> DEFINE h == Head(answers)
<1>t. /\ circ \in [Circs -> {"none", "pending", "open", "dead", "freed"}]
      /\ TypeOK /\ PlaceInv /\ workqueue_entry \subseteq Circs
    BY DEF IndInv, TypeOK
<1>j. JobKeepsCircuit /\ CircInv /\ CountExact
    BY DEF IndInv
<1>1. /\ PlaceInv' /\ h \in Jobs /\ h \in Elements(answers)
      /\ \A d \in Circs : InFlight(d)' <=> (InFlight(d) /\ d # h)
    BY <1>t, FlightReplied
<1>2. main = "replies" /\ UNCHANGED onions
    BY DEF ProcessReply
<1>3. \/ h \in Circs /\ Replied(h)
      \/ h \in Others /\ UNCHANGED <<main, circ, marked, workqueue_entry, total_pending_tasks>>
    BY DEF ProcessReply
<1> HIDE DEF h
<1>4. CASE h \in Others /\ UNCHANGED <<main, circ, marked, workqueue_entry, total_pending_tasks>>
  <2>1. \A d \in Circs : InFlight(d)' <=> InFlight(d)
      BY <1>1, <1>4
  <2> QED
      BY <1>1, <1>2, <1>4, <2>1, KeptMoved
<1>5. CASE h \in Circs /\ Replied(h)
  <2>1. /\ InFlight(h) /\ circ[h] \in {"pending", "dead"} /\ h \in workqueue_entry
        /\ h \notin Elements(ol_list)
      BY <1>1, <1>5, <1>j DEF InFlight, Answered, JobKeepsCircuit
  <2>2. /\ total_pending_tasks' = total_pending_tasks - 1
        /\ workqueue_entry' = workqueue_entry \ {h} /\ main' = "tasks"
      BY <1>5 DEF Replied
  <2>3. /\ \A d \in Circs : d # h => circ'[d] = circ[d]
        /\ circ'[h] \in {"freed", "pending", "open"}
        /\ marked' \subseteq marked \cup {h}
        /\ h \in marked' => circ'[h] \in {"pending", "open"}
    <3>1. h \in marked => circ[h] # "dead"
        BY <1>5, <1>j DEF CircInv, Usable
    <3> QED
        BY <1>t, <1>5, <2>1, <3>1 DEF Replied
  <2>4. CircInv'
      BY <1>t, <1>j, <1>1, <1>2, <2>1, <2>2, <2>3 DEF CircInv, Usable
  <2>5. JobKeepsCircuit'
      BY <1>j, <1>1, <1>2, <2>1, <2>2, <2>3 DEF JobKeepsCircuit, onions
  <2>6. total_pending_tasks' = Cardinality({d \in Circs : InFlight(d)'})
      BY <1>t, <1>j, <1>1, <1>2, <1>5, <2>1, <2>2, CountStep DEF CountExact
  <2>7. CountExact'
      BY <1>j, <1>2, <2>6 DEF CountExact, onions
  <2> QED
      BY <1>1, <2>4, <2>5, <2>7 DEF Kept
<1> QED
    BY <1>3, <1>4, <1>5

\* A request leaves the onion queue.
LEMMA KeptByTask ==
    ASSUME IndInv, QueueTask
    PROVE  Kept
<1> DEFINE h == Head(ol_list)
<1>t. /\ ol_list \in Seq(Circs) /\ ol_list # <<>> /\ Once(ol_list) /\ TypeOK /\ PlaceInv
      /\ workqueue_entry \subseteq Circs /\ main = "tasks"
    BY DEF IndInv, TypeOK, PlaceInv, QueueTask, MoreTasks
<1>j. JobKeepsCircuit /\ CircInv /\ CountExact
    BY DEF IndInv
<1>1. /\ ol_list' = Tail(ol_list) /\ ol_entries' = ol_entries - 1
      /\ UNCHANGED <<main, circ, marked, answers, job>>
      /\ \/ QueueJob(h)
         \/ UNCHANGED <<total_pending_tasks, work, workqueue_entry, pc>>
    BY DEF QueueTask, Quiet, replies
<1>2. /\ h \in Circs /\ Elements(ol_list') = Elements(ol_list) \ {h} /\ Once(ol_list')
      /\ Len(ol_list') = Len(ol_list) - 1 /\ h \in Elements(ol_list)
    BY <1>t, <1>1, TailElements
<1> HIDE DEF h
<1>3. circ[h] = "pending" /\ h \notin workqueue_entry /\ ~InFlight(h)
    BY <1>j, <1>2 DEF JobKeepsCircuit
<1>4. ol_entries' = Len(ol_list')
    BY <1>j, <1>1, <1>2 DEF CountExact
<1>5. CASE QueueJob(h)
  <2>1. PlaceInv' /\ \A d \in Circs : InFlight(d)' <=> (InFlight(d) \/ d = h)
      BY <1>t, <1>1, <1>2, <1>3, <1>5, FlightQueued
  <2>2. /\ total_pending_tasks' = total_pending_tasks + 1
        /\ workqueue_entry' = workqueue_entry \cup {h}
      BY <1>5 DEF QueueJob
  <2>3. CircInv'
      BY <1>t, <1>j, <1>1, <1>2, <2>1, <2>2 DEF CircInv, Usable
  <2>4. JobKeepsCircuit'
      BY <1>j, <1>1, <1>2, <1>3, <2>1, <2>2 DEF JobKeepsCircuit
  <2>5. total_pending_tasks' = Cardinality({d \in Circs : InFlight(d)'})
      BY <1>t, <1>j, <1>2, <1>3, <2>1, <2>2, CountStep DEF CountExact
  <2> QED
      BY <1>4, <2>1, <2>3, <2>4, <2>5 DEF Kept, CountExact
<1>6. CASE UNCHANGED <<total_pending_tasks, work, workqueue_entry, pc>>
  <2>1. PlaceInv' /\ \A d \in Circs : InFlight(d)' <=> InFlight(d)
      BY <1>t, <1>1, <1>2, <1>6, FlightSame
  <2>2. CircInv'
      BY <1>t, <1>j, <1>1, <1>6, <2>1 DEF CircInv, Usable
  <2>3. JobKeepsCircuit'
      BY <1>j, <1>1, <1>2, <1>6, <2>1 DEF JobKeepsCircuit
  <2>4. total_pending_tasks' = Cardinality({d \in Circs : InFlight(d)'})
      BY <1>t, <1>j, <1>2, <1>6, <2>1, CountStep DEF CountExact
  <2> QED
      BY <1>4, <2>1, <2>2, <2>3, <2>4 DEF Kept, CountExact
<1> QED
    BY <1>1, <1>5, <1>6

\* A job of another kind is queued.
LEMMA KeptByOthers ==
    ASSUME IndInv, NEW j \in Others, cpuworker_queue_work(j)
    PROVE  Kept
<1>t. /\ WQ_PRI_HIGH # WQ_PRI_LOW /\ WQ_PRI_LOW \in Priorities /\ WQ_PRI_HIGH \in Priorities
      /\ work \in [Priorities -> Seq(Jobs)] /\ work[WQ_PRI_LOW] \in Seq(Others)
      /\ TypeOK /\ PlaceInv
    BY DEF IndInv, TypeOK, PlaceInv, Priorities, WQ_PRI_HIGH, WQ_PRI_LOW
<1>1. /\ work' = [work EXCEPT ![WQ_PRI_LOW] = Append(@, j)] /\ SignalOne
      /\ UNCHANGED <<main, circ, marked, workqueue_entry, onions, total_pending_tasks>>
      /\ UNCHANGED <<job, answers>>
    BY DEF cpuworker_queue_work, Quiet, circuits, replies
<1>2. Append(work[WQ_PRI_LOW], j) \in Seq(Others)
    BY <1>t, AppendElements
<1>3. /\ work'[WQ_PRI_HIGH] = work[WQ_PRI_HIGH]
      /\ \A p \in Priorities \ {WQ_PRI_HIGH} : work'[p] \in Seq(Others)
    BY <1>t, <1>1, <1>2 DEF PlaceInv
<1>4. \A w \in Workers : pc'[w] = "fn" <=> pc[w] = "fn"
    BY <1>t, <1>1, Signals
<1>5. \A d \in Circs : (InQueue(d)' <=> InQueue(d)) /\ (Taken(d)' <=> Taken(d))
                       /\ (Answered(d)' <=> Answered(d))
    BY <1>1, <1>3 DEF InQueue, Taken, Answered
<1>6. \A d \in Circs : InFlight(d)' <=> InFlight(d)
    BY <1>5 DEF InFlight
<1>7. PlaceInv'
  <2>1. ol_list' = ol_list
      BY <1>1 DEF onions
  <2> QED
      BY <1>t, <1>1, <1>3, <1>4, <1>5, <2>1 DEF PlaceInv
<1> QED
    BY <1>1, <1>6, <1>7, KeptMoved

\* The end.
LEMMA KeptByFree ==
    ASSUME IndInv, threadpool_free
    PROVE  Kept
<1>t. PlaceInv /\ JobKeepsCircuit /\ CircInv /\ CountExact
    BY DEF IndInv
<1>1. /\ main' = "stopped" /\ answers' = <<>>
      /\ UNCHANGED <<circ, marked, workqueue_entry, ol_list, ol_entries, work, pc, job>>
    BY DEF threadpool_free, circuits, onions, threads
<1>2. Elements(answers') = {} /\ Once(answers')
    BY <1>1, EmptySeq DEF Elements, Once
<1>3. \A d \in Circs : (InQueue(d)' <=> InQueue(d)) /\ (Taken(d)' <=> Taken(d)) /\ ~Answered(d)'
    BY <1>1, <1>2 DEF InQueue, Taken, Answered
<1>4. PlaceInv'
    BY <1>t, <1>1, <1>2, <1>3 DEF PlaceInv
<1>5. CircInv'
    BY <1>t, <1>1 DEF CircInv, Usable
<1>6. JobKeepsCircuit'
  <2>1. \A d \in Circs : InFlight(d)' => InFlight(d)
      BY <1>3 DEF InFlight
  <2> QED
      BY <1>t, <1>1, <2>1 DEF JobKeepsCircuit
<1>7. CountExact'
    BY <1>t, <1>1 DEF CountExact
<1> QED
    BY <1>4, <1>5, <1>6, <1>7 DEF Kept

\* Circuits, jobs and counters, in every step.
LEMMA KeptStep ==
    ASSUME IndInv, [Next]_vars
    PROVE  Kept
<1>m. ASSUME MainStep, UNCHANGED <<circuits, onions, total_pending_tasks, work, answers>>,
             ~threadpool_free
      PROVE  Kept
  <2>1. /\ UNCHANGED job /\ \A w \in Workers : pc'[w] = "fn" <=> pc[w] = "fn"
        /\ main # "stopped"
      BY <1>m, MainFacts DEF IndInv, Quiet
  <2>2. main' # "stopped"
    <3>1. main = "stopping" => threadpool_free
        BY <1>m DEF MainStep, CreateAssigned, CreateQueued, CreateRefused, CreateFast, NewCircuit,
              circuit_mark_for_close, circuit_close_all_marked, CancelJob, ChannelLost, DrainAlert,
              ProcessReply, QueueTask, TasksDone, RepliesDone, cpuworker_queue_work,
              cpuworkers_rotate_keyinfo, cpuworker_consensus_has_changed, StopThreads
    <3> QED
        BY <1>m, <3>1, MainFacts DEF IndInv
  <2> QED
      BY <1>m, <2>1, <2>2, KeptSame DEF circuits
<1>1. CASE MainStep
  <2>1. CASE \E c \in Circs :
                \/ CreateAssigned(c) \/ CreateQueued(c) \/ CreateRefused(c) \/ CreateFast(c)
                \/ circuit_mark_for_close(c) \/ circuit_close_all_marked(c)
      BY <2>1, KeptByCreate, KeptByClose
  <2>2. CASE \E S \in SUBSET Circs : ChannelLost(S)
      BY <2>2, KeptByClose
  <2>3. CASE ProcessReply
      BY <2>3, KeptByReply
  <2>4. CASE QueueTask
      BY <2>4, KeptByTask
  <2>5. CASE \E j \in Others : cpuworker_queue_work(j)
      BY <2>5, KeptByOthers
  <2>6. CASE threadpool_free
      BY <2>6, KeptByFree
  <2>7. CASE DrainAlert \/ TasksDone \/ RepliesDone \/ cpuworkers_rotate_keyinfo
             \/ cpuworker_consensus_has_changed \/ StopThreads
    <3>1. UNCHANGED <<circuits, onions, total_pending_tasks, work, answers>>
        BY <2>7 DEF DrainAlert, TasksDone, RepliesDone, cpuworkers_rotate_keyinfo,
                    cpuworker_consensus_has_changed, StopThreads, tasks, replies
    <3> QED
        BY <1>1, <1>m, <2>6, <3>1
  <2> QED
      BY <1>1, <2>1, <2>2, <2>3, <2>4, <2>5, <2>6, <2>7 DEF MainStep
<1>2. ASSUME NEW w \in Workers, WorkerStep(w) \/ SpuriousWakeup(w) PROVE Kept
    BY <1>2, KeptByWorkers
<1>3. CASE UNCHANGED vars
    BY <1>3, KeptSame DEF vars, circuits, tasks, threads, replies
<1> QED
    BY <1>1, <1>2, <1>3 DEF Next

\* Answers and alerts.
LEMMA AlertStep ==
    ASSUME TypeOK, ThreadInv, NoLostAlert, [Next]_vars
    PROVE  NoLostAlert'
<1>t. pc \in [Workers -> Places]
    BY DEF TypeOK
<1>k. ASSUME UNCHANGED replies, main \in {"replies", "tasks"} => main' \in {"replies", "tasks"},
             \A x \in Workers : pc[x] = "alert" => pc'[x] = "alert"
      PROVE  NoLostAlert'
    BY <1>k DEF NoLostAlert, replies
<1>1. CASE MainStep
  <2>1. \A x \in Workers : pc[x] = "alert" => pc'[x] = "alert"
      BY <1>1, MainFacts
  <2>2. CASE \E c \in Circs :
                \/ CreateAssigned(c) \/ CreateQueued(c) \/ CreateRefused(c) \/ CreateFast(c)
                \/ circuit_mark_for_close(c) \/ circuit_close_all_marked(c)
    <3>1. main \in {"loop", "closing"} /\ UNCHANGED replies
        BY <2>2 DEF CreateAssigned, CreateQueued, CreateRefused, CreateFast, NewCircuit,
                    circuit_mark_for_close, circuit_close_all_marked, CancelJob
    <3> QED
        BY <1>k, <2>1, <3>1
  <2>3. CASE \E S \in SUBSET Circs : ChannelLost(S)
      BY <1>k, <2>1, <2>3 DEF ChannelLost
  <2>4. CASE DrainAlert
      BY <2>4 DEF DrainAlert, NoLostAlert
  <2>5. CASE ProcessReply
    <3>1. main' \in {"replies", "tasks"}
        BY <2>5 DEF ProcessReply, Replied
    <3> QED
        BY <3>1 DEF NoLostAlert
  <2>6. CASE QueueTask \/ TasksDone
    <3>1. main' \in {"replies", "tasks"}
        BY <2>6 DEF QueueTask, TasksDone
    <3> QED
        BY <3>1 DEF NoLostAlert
  <2>7. CASE RepliesDone
      BY <2>7 DEF RepliesDone, NoLostAlert, replies
  <2>8. CASE \E j \in Others : cpuworker_queue_work(j)
      BY <1>k, <2>1, <2>8 DEF cpuworker_queue_work
  <2>9. CASE cpuworkers_rotate_keyinfo \/ cpuworker_consensus_has_changed \/ StopThreads
      BY <1>k, <2>1, <2>9
         DEF cpuworkers_rotate_keyinfo, cpuworker_consensus_has_changed, StopThreads
  <2>10. CASE threadpool_free
      BY <2>10 DEF threadpool_free, NoLostAlert
  <2> QED
      BY <1>1, <2>2, <2>3, <2>4, <2>5, <2>6, <2>7, <2>8, <2>9, <2>10 DEF MainStep
<1>2. ASSUME NEW w \in Workers, WorkerStarts(w) PROVE NoLostAlert'
  <2>1. UNCHANGED replies /\ \A x \in Workers : pc[x] = "alert" => pc'[x] = "alert"
      BY <1>t, <1>2 DEF WorkerStarts
  <2>2. main = "starting"
      BY <1>2 DEF WorkerStarts, ThreadInv
  <2> QED
      BY <1>k, <2>1, <2>2
<1>3. ASSUME NEW w \in Workers, LoopStep(w) PROVE NoLostAlert'
  <2>0. pc[w] # "alert"
      BY <1>3 DEF LoopStep
  <2>1. CASE WorkerExits(w)
      BY <1>t, <1>k, <2>0, <2>1 DEF WorkerExits
  <2>2. CASE TakeUpdate(w)
      BY <1>t, <1>k, <2>0, <2>2 DEF TakeUpdate
  <2>3. CASE TakesWork(w)
      BY <1>t, <1>k, <2>0, <2>3 DEF TakesWork, ExtractNextWork
  <2>4. CASE Wait(w)
      BY <1>t, <1>k, <2>0, <2>4 DEF Wait
  <2> QED
      BY <1>3, <2>1, <2>2, <2>3, <2>4 DEF LoopStep
<1>4. ASSUME NEW w \in Workers, queue_reply(w) PROVE NoLostAlert'
  <2>1. /\ pc[w] = "fn" /\ UNCHANGED <<main, alert>>
        /\ pc' = [pc EXCEPT ![w] = IF MustAlert THEN "alert" ELSE "inner"]
      BY <1>4 DEF queue_reply
  <2>2. CASE MustAlert
    <3>1. pc'[w] = "alert"
        BY <1>t, <2>1, <2>2
    <3> QED
        BY <3>1 DEF NoLostAlert
  <2>3. CASE ~MustAlert
    <3>1. \A x \in Workers : pc[x] = "alert" => pc'[x] = "alert"
        BY <1>t, <2>1
    <3> QED
        BY <2>1, <2>3, <3>1 DEF NoLostAlert, MustAlert
  <2> QED
      BY <2>2, <2>3
<1>5. ASSUME NEW w \in Workers, SendAlert(w) PROVE NoLostAlert'
    BY <1>5 DEF SendAlert, NoLostAlert
<1>6. ASSUME NEW w \in Workers,
             update_state_threadfn(w) \/ WorkerGone(w) \/ SpuriousWakeup(w)
      PROVE  NoLostAlert'
    BY <1>t, <1>k, <1>6 DEF update_state_threadfn, WorkerGone, SpuriousWakeup
<1>7. CASE UNCHANGED vars
    BY <1>k, <1>7 DEF vars, threads
<1> QED
    BY <1>1, <1>2, <1>3, <1>4, <1>5, <1>6, <1>7, NextCases DEF MainStep

-----------------------------------------------------------------------------
(* The theorems. *)

\* The first state.
LEMMA IndInit == Init => IndInv
<1> SUFFICES ASSUME Init PROVE IndInv
    OBVIOUS
<1> USE DEF Init
<1>0. (\A S : <<>> \in Seq(S)) /\ 0 \in 0..MaxGen /\ "new" \in Places
    BY EmptySeq DEF Places
<1>1. TypeOK
  <2>1. /\ ol_list \in Seq(Circs) /\ work \in [Priorities -> Seq(Jobs)] /\ answers \in Seq(Jobs)
      BY <1>0
  <2>2. /\ update_args \in [Workers -> 0..MaxGen] /\ generation \in 0..MaxGen
        /\ arg \in [Workers -> 0..MaxGen] /\ keys \in [Workers -> 0..MaxGen]
        /\ thread_generation \in [Workers -> 0..MaxGen]
      BY <1>0
  <2>3. pc \in [Workers -> Places] /\ job \in [Workers -> Jobs \cup {NoJob}]
      BY <1>0
  <2>4. circ \in [Circs -> {"none", "pending", "open", "dead", "freed"}]
      OBVIOUS
  <2>5. exit \in BOOLEAN /\ control_lock \in BOOLEAN /\ alert \in BOOLEAN
      BY Zenon
  <2>6. /\ main = "starting" /\ marked = {} /\ p_chan = {} /\ workqueue_entry = {}
        /\ ol_entries = 0 /\ total_pending_tasks = 0 /\ running = 0
        /\ max_pending_tasks \in MaxTasks /\ others = Others
      OBVIOUS
  <2> HIDE DEF Init
  <2> QED
      BY <2>1, <2>2, <2>3, <2>4, <2>5, <2>6 DEF TypeOK
<1>2. \A p \in Priorities : work[p] = <<>>
    OBVIOUS
<1>3. WQ_PRI_HIGH \in Priorities
    BY DEF Priorities, WQ_PRI_HIGH, WQ_PRI_LOW
<1>4. Elements(<<>>) = {} /\ Once(<<>>) /\ Len(<<>>) = 0
    BY DEF Elements, Once
<1>5. \A c \in Circs : ~InQueue(c) /\ ~Taken(c) /\ ~Answered(c)
    BY <1>2, <1>3, <1>4 DEF InQueue, Taken, Answered, Jobs
<1>6. PlaceInv
  <2>1. \A c \in Circs : \A w \in Workers : job[w] # c
      BY <1>5 DEF Taken
  <2>2. \A w \in Workers : pc[w] = "fn" <=> job[w] # NoJob
      OBVIOUS
  <2>3. /\ work[WQ_PRI_HIGH] \in Seq(Circs) /\ Once(work[WQ_PRI_HIGH])
        /\ \A p \in Priorities \ {WQ_PRI_HIGH} : work[p] \in Seq(Others)
        /\ Once(ol_list) /\ Once(answers)
      BY <1>0, <1>2, <1>3, <1>4
  <2> QED
      BY <1>5, <2>1, <2>2, <2>3 DEF PlaceInv
<1>7. ThreadInv
  <2>1. Running = {}
      BY DEF Running
  <2> QED
      BY <2>1, FS_EmptySet DEF ThreadInv
<1>8. KeyInv
    BY DEF KeyInv, UpToDate
<1>9. CircInv /\ JobKeepsCircuit /\ NoLostAlert
    BY <1>4, <1>5 DEF CircInv, JobKeepsCircuit, NoLostAlert, InFlight
<1>10. CountExact
  <2>1. {c \in Circs : InFlight(c)} = {}
      BY <1>5 DEF InFlight
  <2> QED
      BY <1>4, <2>1, FS_EmptySet DEF CountExact
<1> QED
    BY <1>1, <1>6, <1>7, <1>8, <1>9, <1>10 DEF IndInv

\* Every step.
LEMMA IndStep == IndInv /\ [Next]_vars => IndInv'
<1> SUFFICES ASSUME IndInv, [Next]_vars PROVE IndInv'
    OBVIOUS
<1>1. TypeOK' /\ KeyInv' /\ ThreadInv' /\ NoLostAlert'
    BY TypeStep, KeyStep, ThreadStep, AlertStep DEF IndInv
<1>2. Kept
    BY KeptStep
<1> QED
    BY <1>1, <1>2 DEF IndInv, Kept

\* The inductive invariant holds: locks, keys, the places of jobs, circuits and
\* counters of worker_thread_main, cpuworker.c and onion_queue.c agree.
THEOREM Invariance == Spec => []IndInv
<1> QED
    BY IndInit, IndStep, PTL DEF Spec

\* The state of the pool, the queues and the circuits keeps its type.
THEOREM TypeCorrect == Spec => []TypeOK
<1>1. IndInv => TypeOK
    BY DEF IndInv
<1> QED
    BY <1>1, Invariance, PTL

\* queue_reply and replyqueue_process never lose an alert: no answer waits
\* unseen, however many workers answer and whenever the main thread drains.
THEOREM AlertsNotLost == Spec => []NoLostAlert
<1>1. IndInv => NoLostAlert
    BY DEF IndInv
<1> QED
    BY <1>1, Invariance, PTL

\* total_pending_tasks and ol_entries count what they stand for, through
\* cancelling, culling and replies, for any number of circuits and workers.
THEOREM CountsExact == Spec => []CountExact
<1>1. IndInv => CountExact
    BY DEF IndInv
<1> QED
    BY <1>1, Invariance, PTL

\* circuit_free_ never frees a circuit a worker's job or an answer refers to,
\* and a circuit it keeps for the reply function has such a job.
THEOREM CircuitsOutliveJobs == Spec => []JobKeepsCircuit
<1>1. IndInv => JobKeepsCircuit
    BY DEF IndInv
<1> QED
    BY <1>1, Invariance, PTL

\* threadpool_free_ gets control_lock only from the last worker.
THEOREM JoinedFirst == Spec => []JoinedBeforeFree
<1>1. IndInv => JoinedBeforeFree
  <2> SUFFICES ASSUME IndInv, main = "stopped", NEW w \in Workers
               PROVE  pc[w] \in {"unlocking", "gone"}
      BY DEF JoinedBeforeFree
  <2>1. Running = {} /\ pc[w] # "new"
      BY DEF IndInv, ThreadInv
  <2> QED
      BY <2>1 DEF Running
<1> QED
    BY <1>1, Invariance, PTL

\* worker_thread_main runs the update for new onion keys before it takes the
\* next job, whatever is queued and rotated meanwhile.
THEOREM KeysFresh == Spec => FreshKeys
<1> DEFINE A == \A w \in Workers : pc[w] # "fn" /\ pc'[w] = "fn" => keys[w] = generation
<1>1. IndInv /\ [Next]_vars => [A]_vars
  <2> SUFFICES ASSUME IndInv, Next, NEW x \in Workers, pc[x] # "fn", pc'[x] = "fn"
               PROVE  keys[x] = generation
      OBVIOUS
  <2>t. pc \in [Workers -> Places]
      BY DEF IndInv, TypeOK
  <2>0. ~MainStep
      BY MainFacts DEF IndInv
  <2>1. PICK w \in Workers : WorkerStep(w) \/ SpuriousWakeup(w)
      BY <2>0 DEF Next
  <2>2. LoopStep(w) /\ TakesWork(w) /\ x = w
    <3>1. CASE WorkerStarts(w)
        BY <2>t, <3>1 DEF WorkerStarts
    <3>2. CASE LoopStep(w)
      <4>1. CASE WorkerExits(w)
          BY <2>t, <4>1 DEF WorkerExits
      <4>2. CASE TakeUpdate(w)
          BY <2>t, <4>2 DEF TakeUpdate
      <4>3. CASE TakesWork(w)
          BY <2>t, <3>2, <4>3 DEF TakesWork, ExtractNextWork
      <4>4. CASE Wait(w)
          BY <2>t, <4>4 DEF Wait
      <4> QED
          BY <3>2, <4>1, <4>2, <4>3, <4>4 DEF LoopStep
    <3>3. CASE update_state_threadfn(w)
        BY <2>t, <3>3 DEF update_state_threadfn
    <3>4. CASE queue_reply(w)
        BY <2>t, <3>4 DEF queue_reply
    <3>5. CASE SendAlert(w) \/ WorkerGone(w) \/ SpuriousWakeup(w)
        BY <2>t, <3>5 DEF SendAlert, WorkerGone, SpuriousWakeup
    <3>6. WorkerLoop(w) => LoopStep(w)
        BY DEF WorkerLoop, LoopStep
    <3> QED
        BY <2>1, <3>1, <3>2, <3>3, <3>4, <3>5, <3>6 DEF WorkerStep
  <2>3. UpToDate(w) /\ pc[w] # "update"
      BY <2>2 DEF LoopStep, TakesWork
  <2> QED
      BY <2>2, <2>3 DEF IndInv, KeyInv, UpToDate
<1>2. Spec => [][A]_vars
    BY <1>1, Invariance, PTL DEF Spec
<1> QED
    BY <1>2 DEF FreshKeys

\* Only cpuworker_cancel_circ_handshake leaves requests in the onion queue
\* with no handshake in flight: queue_pending_tasks, after a reply, does not
\* stop while there is room and a request.
THEOREM StallsByCancel == Spec => StallsOnlyByCancel
<1> DEFINE A == ~Stalled /\ Stalled' => \E c \in marked : Cancels(c) /\ circ'[c] = "freed"
<1>1. IndInv /\ [Next]_vars => [A]_vars
  <2> SUFFICES ASSUME IndInv, Next, ~Stalled, Stalled'
               PROVE  \E c \in marked : Cancels(c) /\ circ'[c] = "freed"
      OBVIOUS
  <2>s. total_pending_tasks' = 0 /\ ol_list' # <<>> /\ main' # "tasks"
      BY DEF Stalled
  <2>k. ASSUME UNCHANGED <<total_pending_tasks, ol_list>> PROVE main = "tasks"
      BY <2>k, <2>s DEF Stalled
  <2>n. main # "stopped" => total_pending_tasks \in Nat
    <3>1. {c \in Circs : InFlight(c)} \subseteq Circs
        OBVIOUS
    <3> QED
        BY <3>1, FS_Subset, FS_CardinalityType DEF IndInv, CountExact
  <2>m. max_pending_tasks \in Nat \ {0} /\ total_pending_tasks \in Int
        /\ circ \in [Circs -> {"none", "pending", "open", "dead", "freed"}]
      BY DEF IndInv, TypeOK
  <2>1. ASSUME NEW w \in Workers, WorkerStep(w) \/ SpuriousWakeup(w) PROVE FALSE
    <3>1. UNCHANGED <<total_pending_tasks, ol_list>>
      <4>1. CASE WorkerStarts(w)
          BY <4>1 DEF WorkerStarts, tasks, onions
      <4>2. CASE WorkerLoop(w)
          BY <4>2 DEF WorkerLoop, WorkerExits, TakeUpdate, TakesWork, ExtractNextWork, Wait,
                      tasks, onions
      <4>3. CASE update_state_threadfn(w) \/ queue_reply(w)
          BY <4>3 DEF update_state_threadfn, queue_reply, tasks, onions
      <4>4. CASE SendAlert(w) \/ WorkerGone(w) \/ SpuriousWakeup(w)
          BY <4>4 DEF SendAlert, WorkerGone, SpuriousWakeup, tasks, onions
      <4> QED
          BY <2>1, <4>1, <4>2, <4>3, <4>4 DEF WorkerStep
    <3>2. main = "tasks"
        BY <2>k, <3>1
    <3>3. main' = main
      <4>1. ~WorkerStarts(w)
          BY <3>2 DEF IndInv, ThreadInv, WorkerStarts
      <4>2. CASE WorkerLoop(w)
          BY <4>2 DEF WorkerLoop, WorkerExits, TakeUpdate, TakesWork, ExtractNextWork, Wait
      <4>3. CASE update_state_threadfn(w) \/ queue_reply(w)
          BY <4>3 DEF update_state_threadfn, queue_reply
      <4>4. CASE SendAlert(w) \/ WorkerGone(w) \/ SpuriousWakeup(w)
          BY <4>4 DEF SendAlert, WorkerGone, SpuriousWakeup
      <4> QED
          BY <2>1, <4>1, <4>2, <4>3, <4>4 DEF WorkerStep
    <3> QED
        BY <2>s, <3>2, <3>3
  <2>2. ASSUME NEW c \in Circs, CreateAssigned(c) PROVE FALSE
      BY <2>2, <2>n, <2>s DEF CreateAssigned, NewCircuit, QueueJob
  <2>3. ASSUME NEW c \in Circs, CreateQueued(c) PROVE FALSE
      BY <2>3, <2>m, <2>s DEF CreateQueued, HasRoom, tasks
  <2>4. ASSUME NEW c \in Circs, CreateRefused(c) \/ CreateFast(c) \/ circuit_mark_for_close(c)
        PROVE  FALSE
      BY <2>4, <2>k DEF CreateRefused, CreateFast, NewCircuit, circuit_mark_for_close, onions,
                        tasks
  <2>5. ASSUME NEW S \in SUBSET Circs, ChannelLost(S) PROVE FALSE
      BY <2>5, <2>k DEF ChannelLost, onions, tasks
  <2>6. ASSUME NEW c \in Circs, circuit_close_all_marked(c)
        PROVE  \E d \in marked : Cancels(d) /\ circ'[d] = "freed"
    <3>0. c \in marked /\ main # "tasks"
        BY <2>6 DEF circuit_close_all_marked, CancelJob
    <3>1. CASE Cancels(c)
      <4>1. circ'[c] = "freed"
          BY <2>6, <2>m, <3>1 DEF circuit_close_all_marked, CancelJob, KeepsForReply
      <4> QED
          BY <3>0, <3>1, <4>1
    <3>2. CASE ~Cancels(c)
      <4>1. total_pending_tasks = 0
          BY <2>6, <2>s, <3>2 DEF circuit_close_all_marked, CancelJob
      <4>2. ol_list # <<>>
        <5>1. CASE InOnions(c)
            BY <5>1 DEF InOnions, Elements
        <5>2. CASE ~InOnions(c)
            BY <2>6, <2>s, <5>2 DEF circuit_close_all_marked, CancelJob, onions
        <5> QED
            BY <5>1, <5>2
      <4> QED
          BY <3>0, <4>1, <4>2 DEF Stalled
    <3> QED
        BY <3>1, <3>2
  <2>7. ASSUME ProcessReply PROVE FALSE
      BY <2>7, <2>k, <2>s DEF ProcessReply, Replied, onions
  <2>8. ASSUME QueueTask PROVE FALSE
      BY <2>8, <2>s DEF QueueTask
  <2>9. ASSUME TasksDone PROVE FALSE
      BY <2>9, <2>m, <2>s DEF TasksDone, MoreTasks, HasRoom, onions, tasks
  <2>10. ASSUME DrainAlert \/ RepliesDone \/ threadpool_free PROVE FALSE
      BY <2>10, <2>k DEF DrainAlert, RepliesDone, threadpool_free, onions, tasks
  <2>11. ASSUME NEW j \in Others, cpuworker_queue_work(j) PROVE FALSE
      BY <2>11, <2>k DEF cpuworker_queue_work, onions
  <2>12. ASSUME cpuworkers_rotate_keyinfo \/ cpuworker_consensus_has_changed \/ StopThreads
         PROVE  FALSE
      BY <2>12, <2>k DEF cpuworkers_rotate_keyinfo, cpuworker_consensus_has_changed, StopThreads,
                         onions, tasks
  <2>13. CASE \E c \in Circs :
                \/ CreateAssigned(c) \/ CreateQueued(c) \/ CreateRefused(c) \/ CreateFast(c)
                \/ circuit_mark_for_close(c) \/ circuit_close_all_marked(c)
      BY <2>13, <2>2, <2>3, <2>4, <2>6
  <2> QED
      BY <2>1, <2>5, <2>7, <2>8, <2>9, <2>10, <2>11, <2>12, <2>13 DEF Next, MainStep
<1>2. Spec => [][A]_vars
    BY <1>1, Invariance, PTL DEF Spec
<1> QED
    BY <1>2 DEF StallsOnlyByCancel

=============================================================================
