# TLA+ models of this Tor tree

This directory models parts of the Tor implementation in `src/` in TLA+, checks
the models with TLC on small instances and proves the central properties with
TLAPS for every value of the constants.

`PROJECT.json` is the index: the parts of the system and which of them are
modelled, every run, the source lines behind every definition, the mutation
tests, the findings, the hazards and the theorems.

## The system and its parts

Tor is one process. A libevent loop on the main thread owns all protocol state,
and a handler runs to completion before the next one. Inside the process the
interleaving is therefore between handlers, callbacks and timers. The hard
interleavings are between the two ends of a circuit, between marking something
and freeing it in a later event, between the main thread and its pool of worker
threads, and between the main thread and the threads of an application that
embeds Tor.

| part | state | operations | what is hard | what must hold |
|---|---|---|---|---|
| conflux set, data plane (`core/or/conflux.c`, `conflux_cell.c`, `conflux_util.c`, parts of `relay.c`, `sendme.c`) | per leg: `last_seq_sent`, `last_seq_recv`, RTT, window; per set: `curr_leg`, `last_seq_delivered`, `ooo_q` | pick a leg, send, switch, receive, queue, dequeue, SENDME, close a leg | cells of one flow on several circuits arrive in any order; numbering is relative; a leg closes while cells are under way | in order, once, no gap; windows reopen; both ends go down together |
| conflux pools (`core/or/conflux_pool.c`) | unlinked and linked pools by nonce, at both ends; `circ->conflux` | launch, LINK, LINKED, LINKED_ACK, finalise, close, free, shut down | a circuit is marked at one time and freed at another; legs close, retry and link in any order; teardown calls itself | a `conflux_t` lives exactly while something points to it; pools hold usable sets |
| congestion control, SENDME, flow control (`congestion_control_*.c`, `sendme.c`) | windows, RTT estimates, XON/XOFF | count, acknowledge, set the window | boundaries of windows and counters | no window closes for good |
| channels and scheduling (`channel.c`, `channeltls.c`, `circuitmux.c`, `scheduler*.c`, the cell queues of `relay.c`, the id map of `circuitlist.c`) | scheduler state of a channel, pending list, multiplexer counters, outbuf, destroy queue, `chan_circid_map` | queue a cell, run a scheduler, flush, mark and free circuits, open, close and free channels | four states kept up by callbacks of three schedulers; counters at several levels; deferred frees | counts agree with queues, no channel with cells is forgotten, ids wait for their DESTROY |
| dynhost streams (`feature/dynhost/dynhost_stream.c`) | pending and active lists, `close_called`, `terminal_fired`, write queue | open, write, close on any thread; tick, data, EOF, cleanup on the main thread | a handle with two owners, freed by the last | freed once; one terminal callback; no write lost |
| dynhost fetches (`feature/dynhost/dynhost_client.c`) | pending and active lists | fetch on any thread; tick, response, cleanup on the main thread | deadline, EOF and a freed connection race to one callback | one answer for each fetch |
| dynhost's lock (`ensure_mutex` in both files) | `g_mutex_initialized`, the mutex | initialise on first use | unprotected check, then initialise | no request lost |
| dynhost hosting (`dynhost.c`, `dynhost_handlers.c`, `dynhost_webserver.c`, `dynhost_message.c`, `dynhost_mvc.c`, `dynhost_blog.c`) | services, reassembly buffers | register, accept, parse, answer | fragments of messages from several peers | reassembled as sent |
| thread pool and cpuworkers (`lib/evloop/workqueue.c`, `core/mainloop/cpuworker.c`, `feature/relay/onion_queue.c`) | `pool->work` by priority, update arguments, reply queue, `total_pending_tasks`, onion queue | CREATE, queue, take, reply, cancel, rotate keys, stop | real threads; cancelling what is being done; an alert only for the first answer; a circuit freed under its job | every job settles, counts are exact, no worker uses old keys, a circuit outlives its job |
| directory, consensus, shared random, onion services, guards, padding, hibernation, control port, libraries | | | | see "What is not modelled" |

The hazards, each at the line of code where it bites, are in `PROJECT.json` with
the properties that cover them.

## Modules

| module | models |
|---|---|
| `ConfluxSet` | one linked conflux set, both ends, both directions |
| `OrderedDelivery` | what a set promises: a FIFO in each direction |
| `ConfluxPool` | the life of the circuits and `conflux_t` objects of one nonce at both ends |
| `DynhostStream` | stream handles shared by application threads and the main thread |
| `DynhostClient` | one-shot fetches |
| `FetchService` | what fetches promise: one answer each |
| `Cpuworker` | the thread pool, onion handshakes on it, the onion queue, and the circuits' part in them |
| `Channels` | channels, circuit multiplexers, cell queues and the three cell schedulers |
| `MC*` | instances for TLC; each `MC*_*.cfg` is one run |
| `*_proofs` | theorems and proofs |

Some definitions have a slightly wrong twin next to them (a missing reset, an
off-by-one, a dropped guard). Only mutation tests use it: put in place of the
definition it must break the property it is listed for.

### ConfluxSet

A step is one handler at one end. `Send` is `relay_send_command_from_edge_` for
a multiplexed command: it chooses a leg (`conflux_decide_next_circ` with the
MINRTT or LOWRTT scheduler), sends a SWITCH when the leg is not the current one,
and counts the message. `PickLeg` is the same choice made by the window
functions that ask before there is something to send. `Receive` is
`connection_edge_process_relay_cell` with the whole dequeue loop, together with
SWITCH, SENDME, LINKED_ACK and DESTROY. `CloseCircuit`, `PathFails`,
`DestroyOvertakes` and `linked_circuit_closed` are the ways a leg ends, with
`cfx_del_leg`'s decision on the whole set. `FreeSet` is `conflux_free_`.

The behaviour starts where `try_finalize_set` leaves the client: every leg is
linked at both ends and the LINKED_ACKs that give the exit its RTTs are still
under way.

A message is its number; its kind is DATA or not, since only DATA counts for
windows. A cell also carries the absolute number the sender had (`abs`), as a
history for the invariant; no action reads it. Sequence numbers are unbounded:
the code's limit for one SWITCH (`relative_seq < UINT32_MAX`) is left out. Congestion windows are any value the algorithm may set, at least
`sendme_inc`. The tie between legs of equal RTT is broken by the order of
`cfx->legs` (`Order`), or left open.

### ConfluxPool

A step is one event of one end's main loop, and the whole of what it causes:
closing a leg includes the recursive teardown, and closing an unlinked leg
includes the launch of its replacement. Marked circuits are freed in a later
event (`circuit_close_all_marked`, the postloop cleanup), or one by one at
shutdown (`FreeAtExit`), followed by `conflux_pool_free_all`.

- `legs` stands for `unlinked->legs` and for `conflux_pending_nonce`, which is
  set exactly on those circuits.
- The exit's unlinked set lives only inside `conflux_process_link`, so it is no
  variable.
- A launch that fails closes its circuit at once and comes back to
  `conflux_launch_leg`; this loop is folded into the launch counter (`Launches`).
- Validation failures and refusals of LINK, LINKED and LINKED_ACK are guards:
  `CellsExpected` shows that no cell of a well-behaved peer reaches them.
- Sequence numbers are "none yet" and "some". Which legs of a set that has
  carried data are in use is left open, so a close may or may not tear down.
- `in_full_teardown` matters only inside one event.
- Circuit padding and path-bias probing, which may hold back a close for a
  while, are left out.

### DynhostStream, DynhostClient

A step of `DynhostStream` is what happens between two releases of
`g_queue_mutex`. `stream_terminal_detached` is three steps (set the flag under
the lock; call back; free), because it unlocks before it calls back and the
application may close in between. The loops of the tick visit one stream per
step. The application keeps the header's contract: at most one close, no use
after it. `Shutdown` is `subsys_dynhost_shutdown`, which comes when the event loop
has ended and knows of no streams. `dynhost_stream_cleanup` is called by nothing
in the tree; an application may call it from a callback (`CallsCleanup`), and so
it is an action of its own.

`DynhostClient` is built the same way around the lists of fetches, and models
what `dirclient.c` and `directory.c` do to the connection of a fetch. A response
comes in pieces (part of the headers, the headers, all of it), and the EOF reports
it only when it is all there, decompresses and is not a 503; otherwise the tick
finds the marked connection and reports what is left on its inbuf.

What the rest of Tor does to a connection (`ApOpens` and `ApCloses`, the cells
CONNECTED and END; `ConnFails`, a stall or running out of memory; `ConnFreed`, the
free of a marked one) may come in any turn of the event loop. Both modules
start after the first call has initialised the lock.

### Cpuworker

The main thread (`main`) and the workers (`pc`) interleave. A worker's step is
what `worker_thread_main` does between two releases of `pool->lock`:
`WorkerLoop` takes an update, a job, or waits; `update_state_threadfn` installs
new keys; `queue_reply` runs the job and appends the answer, and only the answer
that finds the reply queue empty is followed by `SendAlert`, which comes after
the lock was given up. `WorkerStarts` and `WorkerGone` are the two ends of a
thread. All the functions Tor gives the pool answer `WQ_RPL_REPLY` (the one
`WQ_RPL_SHUTDOWN`, `cpuworker.c:528`, follows an assertion that fails), so a worker
leaves its loop only by `pool->exit`. The lock is held over several steps in two places, while the pool starts
and while the last worker leaves, and then nobody else's step that needs it is
enabled.

The main thread's events are a CREATE cell (`CreateAssigned`, `CreateQueued`
with the culling of old requests, `CreateRefused`, `CreateFast`), the loss of a
channel, marking a circuit, `circuit_close_all_marked` (removal from the onion
queue, cancelling, and the free, which is left to the reply function when the
job could not be cancelled), the reply queue (`DrainAlert`, `ProcessReply` with
`cpuworker_onion_handshake_replyfn`, then `queue_pending_tasks` one request at a
time), other jobs, key rotation, a new task limit, and shutdown.

A circuit stands for its onionskin, its queue entry and its job, of which it
never has two. Which requests are old enough to be culled, and the estimate of
room from past processing times, are left open.

### Channels

All on the main thread: a step is one callback of the event loop. A scheduler
run, a flush and the closing of circuits are cut into the iterations of their
loops, and `main` says where the thread is. A channel is one record, and the
functions of the code on a channel are operators from record to record, or to
the set of records when a write may fail. `KistPop`, `KistDecide`, `KistWrite`
and `RunEnds` are `kist_scheduler_run`; `VanillaPop` and `VanillaDecide` are
`vanilla_scheduler_run`; `FlushCell` is the loop of
`channel_flush_from_first_active_circuit` with the turn-taking between DESTROY
and relay cells. `append_cell_to_circuit_queue` includes the limit of a circuit's
queue and the out-of-memory handler. `RefuseCreate` is a CREATE cell answered with
a DESTROY for an id that no circuit has.

`circuit_close_all_marked` is `CloseAllMarked`, then for each circuit of the list
`circuit_about_to_free`, and `CloseAllEnds`, which clears the list. Freeing a
circuit of our own (`Own`) that was not built may first go through
`circuit_build_failed`: a service tries its rendezvous again, which launches a
circuit, or extends one, and queues a cell, with all that this may cause. A circuit
that is on no channel, before its first one or after its last, is not tracked.

The outbuf and the marks are in units of half a cell, and the room left on a
channel is computed modulo the width of `size_t`, as the code computes it. EWMA
and channel priorities are left open: any active circuit and any pending channel
may come first.

## Runs

"States" are distinct states. The runs marked *violation* are expected to fail
and are explained under "Disagreements".

| run | instance | checks | states |
|---|---|---|---|
| `set_safe` | 2 legs of which one may fail, 4 messages one way, a SENDME for every 2, LOWRTT | `NoStaleMsg`, `SwitchNeverGoesBack`, `QueueWaitsForHole`, `WindowConserved`, `LossBelowSendme`, `ImplementsFifo` | 395,364 |
| `pool_safe` | 3 circuits for 2 legs and 1 relaunch, client may shut down | `LivesWhileReferenced`, `FreedByOne`, `PooledSetsUsable`, `OnePlace`, `CellsExpected` | 429,887 |
| `dynhost` | 1 stream with 3 writes into a queue of 2 and 2 reads; 2 fetches; Tor may stop, the application may call the cleanup functions | `ListedHandlesLive`, `FreedOnce`, `CallbackOrder`, `NoLeak`, `WritesKept`, `EveryStreamEnds`, `ImplementsService`, `EveryFetchAnswered` | 279,280 |
| `cpu_safe` | 3 circuits, 1 other job, 2 workers, a limit of 1 task, shutdown | `NoLostAlert`, `CountExact`, `JobKeepsCircuit`, `JoinedBeforeFree` | 1,277,194 |
| `live` | workers: 2 circuits, 2 workers, a limit of 1 or 2 tasks, 1 key rotation | `FreshKeys`, `StallsOnlyByCancel`, `JobsSettle`, `QueueDrains`, `KeysReachWorkers`, no deadlock | 153,378 |
| | set: 2 legs of which one may block and fail, 2 messages one way, a window of 1 | `AllDelivered`, `WindowReopens`, `CloseReachesPeer` | |
| | pools: 2 circuits, no relaunch, exit may shut down | `EveryLegSettles`, `EveryEmptySetFreed` | |
| `chan` | 1 channel with 2 circuits and all schedulers; 2 channels with 1 circuit each, KIST and Vanilla | `CountersExact`, `PendingExact`, `NoLostChannel`, `IdsReserved`, `BlockedHasCells`, `ServedWhenAlone`, `OnlyLaunchMarks`, no deadlock | 933,292 |
| `stream_race` | 1 stream | *violation* of `NoUseAfterFree` | |
| `dynhost_stop` | 1 stream, 1 fetch, no call of the cleanup functions | *violation* of `SettledAtShutdown` | |
| `cpu_stop` | 1 circuit, 2 workers, shutdown | *violation* of `ShutdownCompletes` | |
| `chan_destroy` | 1 channel, 1 circuit | *violation* of `DestroysServed` | |
| `chan_high` | 1 channel, 1 circuit, two high marks | *violation* of `StopsAtHighwater` | |
| `chan_zombie` | 1 channel, 2 circuits of our own | *violation* of `NoZombie` | |

`live`, `dynhost` and `chan` each check several things in one run. `MCLive` puts
`Cpuworker`, `ConfluxSet` and `ConfluxPool` side by side, each over variables of
its own, and `MCDynhost` the streams and the fetches; `focus` says of which a
behaviour is, and since they share no state nothing is lost by that. `MCChannels` is one instance of
`Channels` with two bounds on it, and `which` says which of them a behaviour
keeps: "one" leaves the second channel closed, "two" gives each channel one
circuit and less room. Fairness is stated for the first only, and
`ServedWhenAlone` is `ChannelsServed` there. A circuit launched from inside
`circuit_close_all_marked` needs a second circuit of our own, which only "two"
and the instance of `chan_zombie` have.

In `live` a leads-to is written with `[]<>`: that a job under way settles is
`[]<>` "it is not under way". Each of these either ends the condition it starts
from, or starts from one that stays true, so the two forms say the same; TLC
checks this one much faster.

`CHECK_DEADLOCK FALSE` is set where a system may stop: all messages are
delivered, all circuits are freed, or Tor has shut down. `live` (for the workers)
and the runs of `Channels` check for deadlock.

### Why the bounds are enough to be interesting

- Two legs already reorder, switch both ways and leave one behind. Four
  messages with a SENDME every two fill a window of two twice, so a sender
  switches because a window is full, comes back, and has cells on both legs when
  one fails. That the safety properties hold for more is proved.
- Three circuits for a set of two are enough for a leg that closes before the
  set is linked, its replacement, and the close of one leg of a linked set with
  another linking late. `MaxLegs` is 2, the code's limit scaled down so that it
  is reached.
- The loops of dynhost's tick are one stream at a time, so one stream with an
  application thread meets every step of it; two fetches are enough for a loop
  that is in the middle of its list while another fetch ends. Bytes are counted
  in chunks, the cap of the write queue is two chunks and three are written. The
  theorems are for any number.
- Three circuits against a limit of one task give one job in flight and two
  requests in the onion queue, so that culling, removal from the middle and a
  request whose channel is gone all happen; two workers are enough for an answer
  that comes between another's append and its alert, and for one that is busy
  while the other leaves.
- Two circuits with two cells each on one channel compete with each other's
  DESTROYs for one flush, reach the mark that blocks a circuit and the limit
  that kills it, and fill the outbuf over its high mark; two channels are enough
  for the pending list to be non-empty while another channel is served. The
  safety properties are proved for any number.
- Symmetry, among circuits, is used in `pool_safe` only, which checks
  invariants.

### Fairness

- `ConfluxSet`: as long as cells are under way one of them arrives, and a blocked
  channel drains (TCP, and a scheduler that flushes every channel with something
  to write). Which leg is served is left open. Nothing is assumed of senders or
  of failures.
- `ConfluxPool`: as long as one of these is due, one of them happens: a circuit
  that is being built opens (it may also be closed at any time; the code has a
  timeout for each); LINK and LINKED on circuits that are up arrive; a DESTROY
  follows the free of the other end; the postloop event that
  `circuit_mark_for_close_` schedules runs; shutdown goes on once begun.
- `DynhostStream`, `DynhostClient`: the tick runs again and finishes its loops,
  closes that have begun finish, and deadlines pass. The code runs the tick only
  once a circuit has been completed and while the network is not disabled
  (`mainloop.c:1726`); liveness is for a process that stays in that state.
  Nothing is assumed of the network.
- `Cpuworker`: threads are scheduled, the event loop handles a readable alert
  socket and goes through the replies, marked circuits are freed, and shutdown
  takes `control_lock` when it is free. Nothing is assumed of clients, of key
  rotations, or of when shutdown begins. As in `ConfluxPool`, a marked circuit is
  taken to be freed some time; `chan_zombie` shows the case in which it is not.
- `Channels`: a loop that has begun goes on (weak fairness of `Step`). Marked
  circuits are freed again and again, the kernel empties an outbuf that is
  offered to it again and again, and a scheduler run that again and again finds
  room in the kernel is one day such a run (strong fairness): the peer reads on.

### Disagreements

These runs are expected to fail. Each checks one property, which states what a
comment in the repository says, and TLC finds a behaviour of the code that does
otherwise. `PROJECT.json` quotes the lines.

| run | property | what happens |
|---|---|---|
| `stream_race` | `NoUseAfterFree` | a close between the unlock and the callback frees the handle the callback is read from |
| `cpu_stop` | `ShutdownCompletes` | a worker that is busy when the pool is told to stop finishes its job, waits on the condition without looking at `pool->exit`, and the main thread waits for it for ever |
| `chan_destroy` | `DestroysServed` | a DESTROY queued behind a non-empty outbuf on a channel in `SCHED_CHAN_WAITING_FOR_CELLS` is not sent until some relay cell comes |
| `chan_high` | `StopsAtHighwater` | the room on a channel is an unsigned difference: with an outbuf above the high mark, which a new consensus can lower, it is huge |
| `dynhost_stop` | `SettledAtShutdown` | the headers say that the cleanup functions are called during shutdown, and nothing calls them: a stream or a fetch under way when Tor stops gets no callback |
| `chan_zombie` | `NoZombie` | freeing a circuit that was not built launches another from inside `circuit_close_all_marked`; what the out-of-memory handler or a full queue then marks is added to the list behind the loop's end, and the list is cleared |

`EveryStreamEnds` and `EveryFetchAnswered` therefore end in "or Tor has stopped",
and what is proved of marked circuits is `OnlyLaunchMarks`: while the list is
walked over nothing but such a launch marks a circuit.

## What is proved

TLAPS checks every theorem from the assumptions in the modules and nothing else,
for any sets of legs, circuits, streams, requests, channels and threads and any
numbers. Every safety property of the passing runs is a theorem, and so are the
two refinements.

**Conflux set** (`ConfluxSet_proofs`, on lemmas in `ConfluxCells_proofs`):
`Invariance`, `TypeCorrect`, `Delivery` (`InOrder`), `NoStale`, `SwitchForward`,
`QueueHole`, and `Refinement`: a set implements `OrderedDelivery`. `InOrder`
alone is not inductive: it says nothing of the cells under way. The invariant
`IndInv` adds that

- the sender's number on the current leg is the number of messages sent, and no
  leg is ahead of it (`SenderInv`);
- on every leg the cells form a chain from the receiver's `last_seq_recv` to the
  sender's `last_seq_sent`: each moves the number by one (a message) or by what
  it carries (a SWITCH), and a message has the number the receiver will give it
  (`ChainInv`); this is what makes relative numbering work;
- a message is in one place: on one leg, in the queue, or delivered
  (`OnePlaceInv`), and what is queued is beyond the first hole (`QueueInv`).

`WindowInvariance` adds the accounts of the windows, and from it follow
`WindowConservedAlways` (the unsigned `cc->inflight` is what is on the wire, what
the receiver has not acknowledged and what SENDMEs on their way acknowledge) and
`LossBelowSendmeAlways` (a set that outlives the close of a leg loses fewer DATA
messages than one SENDME stands for). They need

- `WindowInv`: a SENDME goes out in time, a leg that only one end still has is
  one whose DESTROY is under way, and the balance holds on each leg by itself;
- `LossInv`: every DATA message that has not come through can be charged to a
  leg, so that what is charged to a leg fits into what its sender has in flight,
  and is less than one SENDME once the sender has given the leg up. The charge is
  an existential, a ghost of the proof: a message leaves it when it is received,
  and stays with its leg when the leg closes under it. `cfx_del_leg` looks at
  `inflight` and `sendme_inc` when it decides whether to keep the set, and
  `LossInv` is what that test is worth.

The assumptions are those on the constants, among them that there are finitely
many legs, that an increment is positive and that a window is at least one
increment.

**Conflux pools** (`ConfluxPool_proofs`): `Invariance`, and from it `LivesWhileReferencedAlways` (no use after free, no
double free, no leak), `FreedByOneAlways`, `PooledSetsUsableAlways`,
`OnePlaceAlways` and `CellsExpectedAlways`. The invariant adds to the properties

- that a circuit's pointer and the list of legs agree while it is up, and that a
  marked circuit that still has its pointer is the last of a set without legs,
  which the pool has forgotten (`LegsInv`);
- where the client's one `conflux_t` is: new, in the unlinked set, or linked
  (`SetInv`);
- how far the linking of each circuit has come at the two ends, told by the
  cells under way (`WireInv`).

The proof has three independent parts, one for each end's objects
(`ObjStep`), for the client's unlinked set (`SetStep`) and for the wire
(`WireStep`), each with one case per action.

**Dynhost**: `DynhostStream_proofs` proves its invariant and
`ListedHandlesLive`, `FreedOnce`, `CallbackOrder`, `NoLeak` and `WritesKept`.
The invariant ties the local variable `free_now` and the flags to who still
holds the handle. `DynhostClient_proofs` proves `CalledOnce`, `NothingLost`,
`SuccessReported` and that the module implements `FetchService`.

**CPU workers** (`Cpuworker_proofs`): for any circuits, other jobs, workers, limits and rotations, `NoLostAlert`,
`CountExact`, `JobKeepsCircuit`, `JoinedBeforeFree`, `FreshKeys` and
`StallsOnlyByCancel`. The assumptions are that there are finitely many circuits
and workers, at least one worker, that circuits, other jobs and `NoJob` are
different things, and that a limit is positive. The invariant `IndInv` is the
type, three of the properties, and

- `ThreadInv`: `n_worker_threads_running` counts the workers in their loops, they
  leave only after `pool->exit` is set, and `control_lock` comes free with the
  last;
- `KeyInv`: a worker's keys are those of its generation unless it is about to
  install others, and its argument is there as long as it is behind; this is what
  makes "updates first" enough for `FreshKeys`;
- `PlaceInv`: the job of a circuit is in the queue, with one worker, or answered,
  and there once; without it a reply could lower `total_pending_tasks` for a job
  that is still counted;
- `CircInv`: only circuits in use are marked, and `workqueue_entry` is set only
  while the job is in flight.

The proof has one lemma per kind of move of a job (queued, taken, answered,
replied to, cancelled: `Flight*`), which says how the set of jobs in flight
changes; `CountStep` turns that into the counter by the cardinality of a set
with one element more or less; and one lemma per action (`KeptBy*`) puts them
together.

**Channels** (`Channels_proofs`, on lemmas in `ChannelsEvents_proofs`): for any
channels, circuits and ids, any cell size, marks, batch and limits,
`CountersExact`, `PendingExact`, `NoLostChannel`, `IdsReserved`,
`BlockedHasCells` and `OnlyLaunchMarks`. `ChannelsAssumption` says that circuits are
finitely many, that a cell and the marks are positive, that the low mark of a
circuit's queue is below the high one, and that a high mark and a cell fit into
`size_t`: with that the room of a channel with an empty outbuf does not wrap
around, which `NoLostChannel` needs. The properties speak of the moments between
callbacks; the invariant `IndInv` says what holds inside them:

- `ChanOK`, of each channel by itself: circuits and the id map point to each
  other, counts are sums, every placeholder has its one DESTROY (`IdsOK`), and a
  channel the scheduler takes for one without cells, or for one that cannot
  write, has none, or an outbuf to flush (`SchedOK`);
- `RunInv`: a channel in state PENDING that is not in the list is in the hands of
  the run that popped it (`Held`), and the event is due whenever the list is not
  empty;
- `CloseInv`: what is on the list, or still before the loop of
  `circuit_close_all_marked`, is marked (not the converse, see `chan_zombie`), and
  an id that is being given up belongs to the circuit whose DESTROY is being
  primed. `OnlyLaunchMarks` needs more than that: the loop that primes an outbuf
  marks a circuit that is active without cells, and the counts of `ChanOK` say
  that such a circuit has been through an out-of-memory run and is marked.

The functions of the code are operators on one channel, so most of the proof is
of the form "from a sound channel to a sound channel" (`ChannelsEvents_proofs`);
each step of a run or of closing circuits then has to account for the one channel
it changes.

Where a proof counts, the laws it uses (one element more, one element less, a
part of a set) are one formula, `CountingLaws`, which the lemmas assume and the
lemma `Counting` proves from the theorems on finite sets before the theorems are
stated; no theorem has it as an assumption.

**Only model-checked**: liveness (`AllDelivered`, `WindowReopens`,
`CloseReachesPeer`, `EveryLegSettles`, `EveryEmptySetFreed`, `EveryStreamEnds`,
`EveryFetchAnswered`, `JobsSettle`, `QueueDrains`, `KeysReachWorkers`,
`ServedWhenAlone`), which is out of this prover's reach.

## What is not modelled

Cryptography, TLS, parsers of byte formats, configuration, files and pages;
documents held in memory (consensus, descriptors) and computations on them; what
is driven by clocks and measured rates (the Vegas window, XON/XOFF, padding
machines, hibernation, token buckets), where a model would have to assume the
timing that the properties are about. They are most of the tree, and
`PROJECT.json` names each with its reason.

Of the modelled parts:

- conflux: the CWNDRTT scheduler, which no end selects by itself; the number of
  prebuilt sets and the choice of their relays; stream lists of circuits; circuit
  padding and path bias;
- dynhost: `ensure_mutex`, which tests its flag without a lock, so that two first
  callers may both initialise the mutex; the models start after it;
- cpuworkers: the limit of 30 seconds on starting threads and a spurious wakeup
  of the main thread, whose wait for them is in no loop; a failing alert socket, timing statistics, and the emptying of the onion queue at exit;
- channels: circuits while they are on no channel, the MAINT state, the TLS overhead in KIST's limits, maps of channel
  identities, and listeners.

Known and not covered by a property:

- the last leg of a set takes the nonce out of the linked pool
  (`conflux_pool.c:1570`), which may by then stand for a newer set; `PoolAfter`
  does the same, and no property says that the newer set stays;
- `unlinked_circuit_closed` is said to "attempt to finalize" the set
  (`conflux_pool.c:1441`) and does not: when the last leg that was waited for
  closes and none is launched for it, the linked ones wait for another event.
  `EveryLegSettles` is about legs, not about the use of the set;
- cancelling the last task leaves the onion queue waiting for the next CREATE;
  `QueueDrains` excepts that case and `StallsOnlyByCancel` says it is the only one;
- the last worker gives back `pool->lock` after `control_lock`
  (`workqueue.c:366`), so the main thread may free a lock that is held;
- `conflux_free_` (`conflux_pool.c:185`) frees the queue of a set and leaves its
  bytes in `total_ooo_q_bytes`; the model does the same, so an exact statement
  would be false;
- the relative number of a SWITCH is sent as 32 bits (`conflux_cell.c:318`); the
  model's numbers are unbounded, and no instance comes near the limit;
- `launch_new_set` says that a leg which cannot be launched cleans up the whole
  unlinked set (`conflux_pool.c:987`), and `conflux_launch_leg` leaves the legs
  launched before it; both outcomes are behaviours of `ConfluxPool`, and a set
  with fewer legs links and works;
- LINKED_ACK is sent for every leg that links, "only if we finalize" in a comment
  (`conflux_pool.c:1994`); the model sends it as the code does, and
  `EveryEmptySetFreed` covers the exit's set that the client never finalises;
- dynhost's tick runs only once a circuit has been completed and while the network
  is not disabled (`mainloop.c:1726`); liveness is for a process that stays in
  that state.
