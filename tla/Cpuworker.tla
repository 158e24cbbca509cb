------------------------------ MODULE Cpuworker ------------------------------
(***************************************************************************)
(* A relay's CPU workers: the thread pool (lib/evloop/workqueue.c), the    *)
(* onion handshakes given to it (core/mainloop/cpuworker.c), the queue of  *)
(* CREATE requests that wait for it (feature/relay/onion_queue.c), and the *)
(* circuits' way in (command.c) and out (circuitlist.c).                   *)
(*                                                                         *)
(* The main thread and the workers interleave.  pool->lock and the reply   *)
(* queue's lock are held only inside a step, but for the two places where  *)
(* the code keeps pool->lock over several of them: while the main thread   *)
(* waits for the workers to start, and while the last worker has given     *)
(* back control_lock and not yet pool->lock.  A worker that waits on the   *)
(* condition variable may also wake up by itself; the main thread's wait   *)
(* for the workers to start, which the code does not repeat, is taken to   *)
(* end with their signal, before its limit of 30 seconds.                  *)
(*                                                                         *)
(* A circuit stands for its onionskin, its onion-queue entry and its work  *)
(* queue entry: it never has two of one kind.  The other jobs of the pool  *)
(* (consensus diffs) have low priority and a reply function that does not  *)
(* matter here.  How old a request must be to be culled, and whether a     *)
(* queue of 50 or more has room, depend on clocks and are left open;       *)
(* onion_queue_wait_cutoff is taken to be positive.                        *)
(*                                                                         *)
(* Next to some definitions stands a slightly wrong form of them, the way  *)
(* a slip in the code would make it.  Nothing uses these but mutation      *)
(* tests: each of them must break a property.                              *)
(***************************************************************************)
EXTENDS Integers, Sequences, FiniteSets

CONSTANTS
    Circs,      \* or_circuit_t's, each made by one CREATE cell
    Others,     \* jobs of low priority
    Workers,    \* the pool's threads
    MaxTasks,   \* the values max_pending_tasks may take
    MaxGen,     \* bound: key rotations
    CanStop,    \* whether Tor may shut down
    NoJob

Jobs == Circs \cup Others
ASSUME JobsAssumption == NoJob \notin Jobs /\ Circs \cap Others = {} /\ IsFiniteSet(Circs)
ASSUME WorkersAssumption == IsFiniteSet(Workers) /\ Workers # {}
ASSUME BoundsAssumption ==
    /\ MaxTasks \subseteq Nat \ {0} /\ MaxTasks # {}
    /\ MaxGen \in Nat /\ CanStop \in BOOLEAN

WQ_PRI_HIGH == 0
WQ_PRI_LOW == 2
Priorities == WQ_PRI_HIGH..WQ_PRI_LOW

VARIABLES
    main,                 \* what the main thread is doing
    circ,                 \* of each circuit: its state, or how it was freed
    marked,               \* circuits with marked_for_close set
    p_chan,               \* circuits whose p_chan is not NULL
    workqueue_entry,      \* circuits whose workqueue_entry is not NULL
    ol_list,              \* the ntor onion queue
    ol_entries,
    total_pending_tasks,
    max_pending_tasks,
    others,               \* the jobs of Others not submitted yet
    work,                 \* pool->work
    generation,           \* pool->generation
    update_args,          \* the generation each worker's argument is for; 0 is NULL
    exit,                 \* pool->exit
    control_lock,         \* whether pool->control_lock is held
    running,              \* n_worker_threads_running
    pc,                   \* where each worker is
    job,                  \* the job it took
    arg,                  \* the update argument it took, as in update_args
    thread_generation,    \* thread->generation
    keys,                 \* the generation of the onion keys in its state
    answers,              \* the reply queue
    alert                 \* whether its alert socket is readable

circuits == <<circ, marked, p_chan, workqueue_entry>>
onions == <<ol_list, ol_entries>>
tasks == <<total_pending_tasks, max_pending_tasks, others>>
updates == <<generation, update_args>>
stops == <<exit, control_lock, running>>
threads == <<pc, job, arg, thread_generation, keys>>
replies == <<answers, alert>>
vars == <<main, circuits, onions, tasks, work, updates, stops, threads, replies>>

\* cpuworker_init: the main thread holds both locks and waits for the workers.
Init ==
    /\ main = "starting"
    /\ circ = [c \in Circs |-> "none"]
    /\ marked = {} /\ p_chan = {} /\ workqueue_entry = {}
    /\ ol_list = <<>> /\ ol_entries = 0
    /\ total_pending_tasks = 0 /\ max_pending_tasks \in MaxTasks /\ others = Others
    /\ work = [p \in Priorities |-> <<>>]
    /\ generation = 0 /\ update_args = [w \in Workers |-> 0]
    /\ exit = FALSE /\ control_lock = FALSE /\ running = 0
    /\ pc = [w \in Workers |-> "new"]
    /\ job = [w \in Workers |-> NoJob] /\ arg = [w \in Workers |-> 0]
    /\ thread_generation = [w \in Workers |-> 0]
    /\ keys = [w \in Workers |-> 0]
    /\ answers = <<>> /\ alert = FALSE

-----------------------------------------------------------------------------
(* The worker threads. *)

\* pool->lock is free.
Unlocked == main # "starting" /\ \A w \in Workers : pc[w] # "unlocking"

Waiting == {w \in Workers : pc[w] = "wait"}

\* Wakes no one.
SignalNone == pc' = pc

\* tor_cond_signal_one and tor_cond_signal_all.
SignalOne ==
    \/ Waiting = {} /\ pc' = pc
    \/ \E w \in Waiting : pc' = [pc EXCEPT ![w] = "outer"]
SignalAll == pc' = [w \in Workers |-> IF w \in Waiting THEN "outer" ELSE pc[w]]

\* The start of worker_thread_main; the last worker lets the main thread go
\* on, which has control_lock again and gives back pool->lock.
WorkerStarts(w) ==
    /\ pc[w] = "new"
    /\ pc' = [pc EXCEPT ![w] = "outer"]
    /\ running' = running + 1
    /\ IF running + 1 = Cardinality(Workers)
       THEN main' = "loop" /\ control_lock' = TRUE
       ELSE UNCHANGED <<main, control_lock>>
    /\ UNCHANGED <<circuits, onions, tasks, work, updates, exit, job, arg,
                   thread_generation, keys, replies>>

HasWork == \E p \in Priorities : work[p] # <<>>
UpToDate(w) == thread_generation[w] = generation

\* Every worker that leaves gives control_lock back.
WorkerExitsEach(w) ==
    /\ pc' = [pc EXCEPT ![w] = "unlocking"]
    /\ running' = running - 1
    /\ control_lock' = FALSE
    /\ UNCHANGED <<main, circuits, onions, tasks, work, updates, exit, job, arg,
                   thread_generation, keys, replies>>

\* The exit label, with pool->lock held.
WorkerExits(w) ==
    /\ pc' = [pc EXCEPT ![w] = "unlocking"]
    /\ running' = running - 1
    /\ control_lock' = (control_lock /\ running # 1)
    /\ UNCHANGED <<main, circuits, onions, tasks, work, updates, exit, job, arg,
                   thread_generation, keys, replies>>

\* Takes the update for its generation, to run it without the lock.
TakeUpdate(w) ==
    /\ ~UpToDate(w)
    /\ arg' = [arg EXCEPT ![w] = update_args[w]]
    /\ update_args' = [update_args EXCEPT ![w] = 0]
    /\ thread_generation' = [thread_generation EXCEPT ![w] = generation]
    /\ pc' = [pc EXCEPT ![w] = "update"]
    /\ UNCHANGED <<main, circuits, onions, tasks, work, generation, stops, job, keys,
                   replies>>

\* worker_thread_extract_next_work: any nonempty queue may be chosen, the
\* lower ones with a small probability.
ExtractNextWork(w) ==
    /\ \E p \in Priorities :
        /\ work[p] # <<>>
        /\ job' = [job EXCEPT ![w] = Head(work[p])]
        /\ work' = [work EXCEPT ![p] = Tail(@)]
    /\ pc' = [pc EXCEPT ![w] = "fn"]
    /\ UNCHANGED <<main, circuits, onions, tasks, updates, stops, arg,
                   thread_generation, keys, replies>>

\* Waits although the keys changed: only the queues are looked at.
WaitStale(w) ==
    /\ ~HasWork
    /\ pc' = [pc EXCEPT ![w] = "wait"]
    /\ UNCHANGED <<main, circuits, onions, tasks, work, updates, stops, job, arg,
                   thread_generation, keys, replies>>

\* Without work it waits; the condition variable gives up pool->lock.
Wait(w) ==
    /\ ~HasWork /\ UpToDate(w)
    /\ pc' = [pc EXCEPT ![w] = "wait"]
    /\ UNCHANGED <<main, circuits, onions, tasks, work, updates, stops, job, arg,
                   thread_generation, keys, replies>>

\* Takes work before it looks at its generation.
TakesWorkFirst(w) == HasWork /\ ExtractNextWork(w)

\* One pass of the loops of worker_thread_main, from taking pool->lock to
\* giving it up: pool->exit is looked at in the outer loop only.  All the
\* functions Tor gives the pool return WQ_RPL_REPLY, so none ends a thread.
SeesExit(w) == exit /\ pc[w] = "outer"
TakesWork(w) == UpToDate(w) /\ HasWork /\ ExtractNextWork(w)
WorkerLoop(w) ==
    /\ pc[w] \in {"outer", "inner"} /\ Unlocked
    /\ IF SeesExit(w)
       THEN WorkerExits(w)
       ELSE TakeUpdate(w) \/ TakesWork(w) \/ Wait(w)

\* tor_cond_wait returns without a signal.
SpuriousWakeup(w) ==
    /\ pc[w] = "wait"
    /\ pc' = [pc EXCEPT ![w] = "outer"]
    /\ UNCHANGED <<main, circuits, onions, tasks, work, updates, stops, job, arg,
                   thread_generation, keys, replies>>

\* The update function, and back to the inner loop.
update_state_threadfn(w) ==
    /\ pc[w] = "update"
    /\ keys' = [keys EXCEPT ![w] = arg[w]]
    /\ arg' = [arg EXCEPT ![w] = 0]
    /\ pc' = [pc EXCEPT ![w] = "inner"]
    /\ UNCHANGED <<main, circuits, onions, tasks, work, updates, stops, job,
                   thread_generation, replies>>

\* Alerts when it was the second answer.
MustAlertLate == Len(answers) = 1

\* queue_reply, under the reply queue's lock: only the answer that finds the
\* queue empty will be followed by an alert.
MustAlert == answers = <<>>
queue_reply(w) ==
    /\ pc[w] = "fn"
    /\ answers' = Append(answers, job[w])
    /\ job' = [job EXCEPT ![w] = NoJob]
    /\ pc' = [pc EXCEPT ![w] = IF MustAlert THEN "alert" ELSE "inner"]
    /\ UNCHANGED <<main, circuits, onions, tasks, work, updates, stops, arg,
                   thread_generation, keys, alert>>

\* The alert, sent after the lock was given up.
SendAlert(w) ==
    /\ pc[w] = "alert"
    /\ alert' = TRUE
    /\ pc' = [pc EXCEPT ![w] = "inner"]
    /\ UNCHANGED <<main, circuits, onions, tasks, work, updates, stops, job, arg,
                   thread_generation, keys, answers>>

\* The end of worker_thread_main.
WorkerGone(w) ==
    /\ pc[w] = "unlocking"
    /\ pc' = [pc EXCEPT ![w] = "gone"]
    /\ UNCHANGED <<main, circuits, onions, tasks, work, updates, stops, job, arg,
                   thread_generation, keys, replies>>

WorkerStep(w) ==
    \/ WorkerStarts(w) \/ WorkerLoop(w) \/ update_state_threadfn(w)
    \/ queue_reply(w) \/ SendAlert(w) \/ WorkerGone(w)

-----------------------------------------------------------------------------
(* The main thread: one event of its loop at a time. *)

Quiet == UNCHANGED <<job, arg, thread_generation, keys>>

\* command_process_create_cell: the circuit is made, then
\* assign_onionskin_to_cpuworker queues a job ...
NewCircuit(c, state) ==
    /\ main = "loop" /\ circ[c] = "none"
    /\ circ' = [circ EXCEPT ![c] = state]
    /\ p_chan' = p_chan \cup {c}
HasRoom == total_pending_tasks < max_pending_tasks
QueueJob(c) ==
    /\ total_pending_tasks' = total_pending_tasks + 1
    /\ work' = [work EXCEPT ![WQ_PRI_HIGH] = Append(@, c)]
    /\ workqueue_entry' = workqueue_entry \cup {c}
    /\ SignalOne
CreateAssigned(c) ==
    /\ NewCircuit(c, "pending")
    /\ HasRoom
    /\ QueueJob(c)
    /\ Quiet
    /\ UNCHANGED <<main, marked, onions, max_pending_tasks, others, updates, stops, replies>>

\* ... or, at the limit, onion_pending_add appends the request and culls the
\* oldest ones, marking their circuits ...
CreateQueued(c) ==
    /\ NewCircuit(c, "pending")
    /\ ~HasRoom
    /\ \E k \in 0..Len(ol_list) :
        /\ ol_list' = Append(SubSeq(ol_list, k + 1, Len(ol_list)), c)
        /\ ol_entries' = ol_entries + 1 - k
        /\ marked' = marked \cup {ol_list[i] : i \in 1..k}
    /\ UNCHANGED <<main, workqueue_entry, tasks, work, updates, stops, threads, replies>>

\* ... or has no room; the circuit is also closed at once when the cell is
\* bogus or asks for TAP.
CreateRefused(c) ==
    /\ NewCircuit(c, "pending")
    /\ marked' = marked \cup {c}
    /\ UNCHANGED <<main, workqueue_entry, onions, tasks, work, updates, stops, threads,
                   replies>>

\* CREATE_FAST is answered in place.
CreateFast(c) ==
    /\ NewCircuit(c, "open")
    /\ UNCHANGED <<main, marked, workqueue_entry, onions, tasks, work, updates, stops,
                   threads, replies>>

Usable == {c \in Circs : circ[c] \in {"pending", "open"}}

\* A DESTROY from behind, or circuit_unlink_all_from_channel for the
\* circuits of a channel that closed.
ChannelLost(S) ==
    /\ main = "loop" /\ S # {} /\ S \subseteq Usable \cap p_chan
    /\ p_chan' = p_chan \ S
    /\ marked' = marked \cup S
    /\ UNCHANGED <<main, circ, workqueue_entry, onions, tasks, work, updates, stops, threads,
                   replies>>

\* circuit_mark_for_close_ by any other part of Tor.
circuit_mark_for_close(c) ==
    /\ main = "loop" /\ c \in Usable \ marked
    /\ marked' = marked \cup {c}
    /\ UNCHANGED <<main, circ, p_chan, workqueue_entry, onions, tasks, work, updates, stops,
                   threads, replies>>

\* onion_pending_remove and cpuworker_cancel_circ_handshake: a job no worker
\* has taken is removed from pool->work.
Elements(s) == {s[i] : i \in 1..Len(s)}
InQueue(c) == c \in Elements(work[WQ_PRI_HIGH])
Cancels(c) == circ[c] = "pending" /\ c \in workqueue_entry /\ InQueue(c)
RemoveAt(s, i) == SubSeq(s, 1, i - 1) \o SubSeq(s, i + 1, Len(s))
Remove(c, s) == RemoveAt(s, CHOOSE i \in 1..Len(s) : s[i] = c)
InOnions(c) == circ[c] = "pending" /\ c \in Elements(ol_list)

\* Cancels the job and leaves the counter alone.
CancelUncounted(c) ==
    /\ work' = [work EXCEPT ![WQ_PRI_HIGH] = Remove(c, @)]
    /\ workqueue_entry' = workqueue_entry \ {c}
    /\ UNCHANGED total_pending_tasks

\* The job is off the pool, its task is no longer pending.
CancelJob(c) ==
    /\ work' = [work EXCEPT ![WQ_PRI_HIGH] = Remove(c, @)]
    /\ total_pending_tasks' = total_pending_tasks - 1
    /\ workqueue_entry' = workqueue_entry \ {c}

\* Frees the circuit although a worker has its job.
KeepsNothing(c) == FALSE

\* circuit_close_all_marked, for one of the circuits: circuit_about_to_free,
\* then circuit_free_, which leaves a circuit whose job could not be
\* cancelled to the reply function.
KeepsForReply(c) == c \in workqueue_entry /\ ~Cancels(c)
circuit_close_all_marked(c) ==
    /\ main \in {"loop", "closing"} /\ c \in marked
    /\ IF InOnions(c)
       THEN ol_list' = Remove(c, ol_list) /\ ol_entries' = ol_entries - 1
       ELSE UNCHANGED onions
    /\ IF Cancels(c)
       THEN CancelJob(c)
       ELSE UNCHANGED <<work, total_pending_tasks, workqueue_entry>>
    /\ circ' = [circ EXCEPT ![c] = IF KeepsForReply(c) THEN "dead" ELSE "freed"]
    /\ marked' = marked \ {c}
    /\ p_chan' = p_chan \ {c}
    /\ main' = IF marked = {c} THEN "loop" ELSE "closing"
    /\ UNCHANGED <<max_pending_tasks, others, updates, stops, threads, replies>>

\* replyqueue_process: the alert is drained first.
DrainAlert ==
    /\ main = "loop" /\ alert
    /\ alert' = FALSE
    /\ main' = "replies"
    /\ UNCHANGED <<circuits, onions, tasks, work, updates, stops, threads, answers>>

\* cpuworker_onion_handshake_replyfn: a dead circuit is freed; a circuit that
\* is not marked is answered, or closed if the handshake or the answer failed.
Replied(c) ==
    /\ \/ circ[c] = "dead" /\ circ' = [circ EXCEPT ![c] = "freed"] /\ marked' = marked
       \/ circ[c] # "dead" /\ c \in marked /\ UNCHANGED <<circ, marked>>
       \/ circ[c] # "dead" /\ c \notin marked /\ circ' = circ /\ marked' = marked \cup {c}
       \/ circ[c] # "dead" /\ c \notin marked /\ circ' = [circ EXCEPT ![c] = "open"]
          /\ marked' = marked
    /\ total_pending_tasks' = total_pending_tasks - 1
    /\ workqueue_entry' = workqueue_entry \ {c}
    /\ main' = "tasks"

\* The rest of replyqueue_process: one answer at a time, until none is left.
ProcessReply ==
    /\ main = "replies" /\ answers # <<>>
    /\ answers' = Tail(answers)
    /\ \/ Head(answers) \in Circs /\ Replied(Head(answers))
       \/ /\ Head(answers) \in Others
          /\ UNCHANGED <<main, circ, marked, workqueue_entry, total_pending_tasks>>
    /\ UNCHANGED <<p_chan, onions, max_pending_tasks, others, work, updates, stops, threads,
                   alert>>

\* Goes on only if a task is left over.
MoreTasksBusy == HasRoom /\ ol_list # <<>> /\ total_pending_tasks > 0

\* queue_pending_tasks, at the end of a reply: it takes requests until the
\* limit is reached or none is left; one whose p_chan is gone is dropped
\* without becoming a task.
MoreTasks == HasRoom /\ ol_list # <<>>
QueueTask ==
    /\ main = "tasks" /\ MoreTasks
    /\ ol_list' = Tail(ol_list)
    /\ ol_entries' = ol_entries - 1
    /\ IF Head(ol_list) \in p_chan
       THEN QueueJob(Head(ol_list))
       ELSE UNCHANGED <<total_pending_tasks, work, workqueue_entry, pc>>
    /\ Quiet
    /\ UNCHANGED <<main, circ, marked, p_chan, max_pending_tasks, others, updates, stops,
                   replies>>

TasksDone ==
    /\ main = "tasks" /\ ~MoreTasks
    /\ main' = "replies"
    /\ UNCHANGED <<circuits, onions, tasks, work, updates, stops, threads, replies>>

RepliesDone ==
    /\ main = "replies" /\ answers = <<>>
    /\ main' = "loop"
    /\ UNCHANGED <<circuits, onions, tasks, work, updates, stops, threads, replies>>

\* cpuworker_queue_work, by consdiffmgr.
cpuworker_queue_work(j) ==
    /\ main = "loop" /\ j \in others
    /\ others' = others \ {j}
    /\ work' = [work EXCEPT ![WQ_PRI_LOW] = Append(@, j)]
    /\ SignalOne
    /\ Quiet
    /\ UNCHANGED <<main, circuits, onions, total_pending_tasks, max_pending_tasks, updates,
                   stops, replies>>

\* cpuworkers_rotate_keyinfo and threadpool_queue_update: arguments no worker
\* took are freed with the old array.
cpuworkers_rotate_keyinfo ==
    /\ main = "loop" /\ generation < MaxGen
    /\ generation' = generation + 1
    /\ update_args' = [w \in Workers |-> generation + 1]
    /\ SignalAll
    /\ Quiet
    /\ UNCHANGED <<main, circuits, onions, tasks, work, stops, replies>>

cpuworker_consensus_has_changed ==
    /\ main = "loop"
    /\ max_pending_tasks' \in MaxTasks
    /\ UNCHANGED <<main, circuits, onions, total_pending_tasks, others, work, updates, stops,
                   threads, replies>>

\* cpuworker_free_all: threadpool_stop_threads wakes the workers ...
StopThreads ==
    /\ CanStop /\ main = "loop"
    /\ exit' = TRUE
    /\ SignalAll
    /\ main' = "stopping"
    /\ Quiet
    /\ UNCHANGED <<circuits, onions, tasks, work, updates, control_lock, running, replies>>

\* ... waits for control_lock, and the pool and the reply queue are freed.
threadpool_free ==
    /\ main = "stopping" /\ ~control_lock
    /\ main' = "stopped"
    /\ answers' = <<>>
    /\ UNCHANGED <<circuits, onions, tasks, work, updates, stops, threads, alert>>

MainStep ==
    \/ \E c \in Circs :
        \/ CreateAssigned(c) \/ CreateQueued(c) \/ CreateRefused(c) \/ CreateFast(c)
        \/ circuit_mark_for_close(c) \/ circuit_close_all_marked(c)
    \/ \E S \in SUBSET Circs : ChannelLost(S)
    \/ DrainAlert \/ ProcessReply \/ QueueTask \/ TasksDone \/ RepliesDone
    \/ \E j \in Others : cpuworker_queue_work(j)
    \/ cpuworkers_rotate_keyinfo \/ cpuworker_consensus_has_changed
    \/ StopThreads \/ threadpool_free

Next == MainStep \/ \E w \in Workers : WorkerStep(w) \/ SpuriousWakeup(w)

Spec == Init /\ [][Next]_vars

\* Threads are scheduled; the event loop handles a readable alert socket, and
\* runs the cleanup that marking a circuit schedules.
Fairness ==
    /\ \A w \in Workers : WF_vars(WorkerStep(w))
    /\ WF_vars(DrainAlert \/ ProcessReply \/ QueueTask \/ TasksDone \/ RepliesDone
               \/ threadpool_free)
    /\ WF_vars(\E c \in Circs : circuit_close_all_marked(c))

FairSpec == Spec /\ Fairness

-----------------------------------------------------------------------------
(* Safety. *)

\* Where a worker may be.
Places ==
    {"new", "outer", "inner", "wait", "update", "fn", "alert", "unlocking", "gone"}

\* The type of the state.
TypeOK ==
    /\ main \in {"starting", "loop", "closing", "replies", "tasks", "stopping", "stopped"}
    /\ circ \in [Circs -> {"none", "pending", "open", "dead", "freed"}]
    /\ marked \subseteq Circs /\ p_chan \subseteq Circs /\ workqueue_entry \subseteq Circs
    /\ ol_list \in Seq(Circs) /\ ol_entries \in Int
    /\ total_pending_tasks \in Int /\ max_pending_tasks \in MaxTasks /\ others \subseteq Others
    /\ work \in [Priorities -> Seq(Jobs)]
    /\ generation \in 0..MaxGen /\ update_args \in [Workers -> 0..MaxGen]
    /\ exit \in BOOLEAN /\ control_lock \in BOOLEAN /\ running \in Int
    /\ pc \in [Workers -> Places]
    /\ job \in [Workers -> Jobs \cup {NoJob}] /\ arg \in [Workers -> 0..MaxGen]
    /\ thread_generation \in [Workers -> 0..MaxGen] /\ keys \in [Workers -> 0..MaxGen]
    /\ answers \in Seq(Jobs) /\ alert \in BOOLEAN

\* Where the job of a circuit is: in pool->work, with a worker, or answered.
Taken(c) == \E w \in Workers : job[w] = c
Answered(c) == c \in Elements(answers)
InFlight(c) == InQueue(c) \/ Taken(c) \/ Answered(c)

\* An answer never waits unseen: if the reply queue is not empty, the alert
\* socket is readable, the main thread is emptying the queue, or the worker
\* that found it empty is about to alert (queue_reply, replyqueue_process).
NoLostAlert ==
    answers # <<>> => \/ alert \/ main \in {"replies", "tasks"}
                      \/ \E w \in Workers : pc[w] = "alert"

\* total_pending_tasks counts the onion handshakes in flight and ol_entries
\* the requests in the onion queue, so that the assertions on them hold and
\* the limits mean what they say, whatever is culled, cancelled and answered.
CountExact ==
    /\ main # "stopped" => total_pending_tasks = Cardinality({c \in Circs : InFlight(c)})
    /\ ol_entries = Len(ol_list)

\* A circuit whose job is in flight has not been freed, and one left to the
\* reply function has a job that will reach it: no use after free, no leak.
\* A circuit in the onion queue still waits for its job.
JobKeepsCircuit ==
    \A c \in Circs :
        /\ InFlight(c) => circ[c] \in {"pending", "dead"} /\ c \in workqueue_entry
        /\ circ[c] = "dead" /\ main # "stopped" => InFlight(c)
        /\ c \in Elements(ol_list) => circ[c] = "pending" /\ c \notin workqueue_entry

\* No worker starts a job with onion keys older than the pool's: an update is
\* taken, and has been run, before the next job.
FreshKeys ==
    [][\A w \in Workers : pc[w] # "fn" /\ pc'[w] = "fn" => keys[w] = generation]_vars

\* The pool is freed only when every worker has left its loop.
JoinedBeforeFree ==
    main = "stopped" => \A w \in Workers : pc[w] \in {"unlocking", "gone"}

\* Requests wait in the onion queue and no reply will come to take them on.
Stalled == total_pending_tasks = 0 /\ ol_list # <<>> /\ main # "tasks"

\* The one way to leave requests in the onion queue with no handshake in
\* flight is to cancel the last one: a reply goes on with the queue, but
\* cpuworker_cancel_circ_handshake does not.
StallsOnlyByCancel ==
    [][~Stalled /\ Stalled' => \E c \in marked : Cancels(c) /\ circ'[c] = "freed"]_vars

-----------------------------------------------------------------------------
(* An inductive invariant. *)

\* Workers in their loops, which n_worker_threads_running counts.  They start
\* before the main thread goes on, leave only at its word, and control_lock
\* comes free with the last of them.
Running == {w \in Workers : pc[w] \notin {"new", "unlocking", "gone"}}
ThreadInv ==
    /\ running = Cardinality(Running)
    /\ main = "starting" <=> \E w \in Workers : pc[w] = "new"
    /\ \A w \in Workers : pc[w] \in {"unlocking", "gone"} => exit
    /\ exit => main \in {"stopping", "stopped"}
    /\ main # "starting" /\ ~control_lock => Running = {}
    /\ main = "stopped" => Running = {}

\* A worker's keys are those of its generation unless it is about to update
\* them, and its update argument is there as long as it is behind.
KeyInv ==
    \A w \in Workers :
        /\ IF pc[w] = "update" THEN arg[w] = thread_generation[w]
                              ELSE keys[w] = thread_generation[w]
        /\ ~UpToDate(w) => update_args[w] = generation

\* No circuit is twice in the sequence s.
Once(s) == \A i, j \in 1..Len(s) : s[i] = s[j] /\ s[i] \in Circs => i = j

\* The job of a circuit is in one place, once.
PlaceInv ==
    /\ work[WQ_PRI_HIGH] \in Seq(Circs)
    /\ \A p \in Priorities \ {WQ_PRI_HIGH} : work[p] \in Seq(Others)
    /\ Once(ol_list) /\ Once(work[WQ_PRI_HIGH]) /\ Once(answers)
    /\ \A w \in Workers : pc[w] = "fn" <=> job[w] # NoJob
    /\ \A c \in Circs :
        /\ \A w, x \in Workers : job[w] = c /\ job[x] = c => w = x
        /\ ~(InQueue(c) /\ Taken(c)) /\ ~(InQueue(c) /\ Answered(c))
        /\ ~(Taken(c) /\ Answered(c))

\* What circuits have to do with their jobs; with JobKeepsCircuit.
CircInv ==
    /\ marked \subseteq Usable
    /\ \A c \in workqueue_entry : InFlight(c) \/ main = "stopped"

IndInv ==
    /\ TypeOK /\ ThreadInv /\ KeyInv /\ PlaceInv /\ CircInv
    /\ NoLostAlert /\ CountExact /\ JobKeepsCircuit

-----------------------------------------------------------------------------
(* Liveness. *)

\* A job in flight is answered or cancelled, unless Tor shuts down.
JobsSettle == \A c \in Circs : []<>(~InFlight(c) \/ exit)

\* A request in the onion queue becomes a task or is closed, unless the queue
\* stalls.
QueueDrains ==
    \A c \in Circs : []<>(c \notin Elements(ol_list) \/ Stalled \/ exit)

\* New onion keys reach every worker.
KeysReachWorkers ==
    \A w \in Workers : \A g \in 1..MaxGen : []<>(generation < g \/ keys[w] >= g \/ exit)

\* threadpool_stop_threads: "Wait until all worker threads have exited."
ShutdownCompletes == main = "stopping" ~> main = "stopped"
=============================================================================
