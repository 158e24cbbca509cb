------------------------------ MODULE Channels ------------------------------
(***************************************************************************)
(* Channels, their circuit multiplexers and the cell scheduler:            *)
(* core/or/channel.c, channeltls.c, circuitmux.c, scheduler*.c, the cell   *)
(* queues of relay.c and the (channel, circuit id) map of circuitlist.c.   *)
(*                                                                         *)
(* Cells wait on circuits until the scheduler serves their channel, then   *)
(* move to the connection's outbuf, which the kernel empties.  All of it   *)
(* runs on the main thread: an action is one callback of the event loop,   *)
(* except that a scheduler run and the closing of a circuit are cut into   *)
(* their loop iterations; `main' says where that thread is and while it is *)
(* inside one of those nothing else happens.                               *)
(*                                                                         *)
(* A channel and what belongs to it is one record, and the code's          *)
(* functions on a channel are operators from record to record (or to the   *)
(* set of records a nondeterministic one may produce).  A circuit is one   *)
(* end of a circuit on one channel.  EWMA and channel priorities are left  *)
(* open: any active circuit, any pending channel may come first.           *)
(***************************************************************************)
EXTENDS Integers, Sequences, FiniteSets, FiniteSetsExt

CONSTANTS
  Chans,        \* channels, numbered from 1
  Circs,        \* circuits of each channel, numbered from 1
  Own,          \* those that this Tor builds for itself
  Ids,          \* circuit ids of each channel, numbered from 1
  Cell,         \* size of a cell in the outbuf, in units
  LowMark,      \* or_conn_lowwatermark()
  HighMarks,    \* values the consensus gives orconn_high
  KernelRooms,  \* what the kernel may say it takes (KIST)
  Batch,        \* outbuf above which KIST writes when it changes channel
  MaxQueue,     \* max_circuit_cell_queue_size
  CellqHigh,    \* cell_queue_highwatermark()
  CellqLow,     \* cell_queue_lowwatermark()
  SizeMod,      \* 2^(width of size_t)
  Schedulers,   \* SchedulerTypes the configuration selects
  DirectMark,   \* bound: cells that bypass the queues only below this outbuf
  MaxBytes      \* bound: bytes on a channel, queued or in its outbuf

\* The consensus keeps the marks of the outbuf between a cell and 2^31 - 1
\* (congestion_control_common.c:169-183).  That its low mark for a circuit's
\* queue is below the high one (10 and 256 by default) is not enforced.
ASSUME ChannelsAssumption ==
  /\ Chans \subseteq Nat \ {0}
  /\ Circs \subseteq Nat \ {0} /\ IsFiniteSet(Circs) /\ Own \subseteq Circs
  /\ Ids \subseteq Nat \ {0}
  /\ Cell \in Nat \ {0} /\ LowMark \in Nat \ {0} /\ SizeMod \in Nat
  /\ \A h \in HighMarks : h \in Nat \ {0} /\ h + Cell <= SizeMod
  /\ KernelRooms \subseteq Nat
  /\ CellqLow \in Nat /\ CellqHigh \in Nat /\ CellqLow < CellqHigh
  /\ Schedulers \subseteq {"KIST", "KISTLite", "Vanilla"}

VARIABLES
  chans,          \* the channels
  circuits_pending_close, \* <<channel, circuit>> marked and not yet freed
  run_sched_ev,   \* is the scheduler's event active or timed?
  the_scheduler,  \* "KIST", "KISTLite" or "Vanilla"
  high,           \* or_conn_highwatermark()
  main            \* where the main thread is

vars == <<chans, circuits_pending_close, run_sched_ev, the_scheduler, high, main>>

Unused == 0             \* no entry in the (channel, id) map
Placeholder == -1       \* an entry without a circuit
Detached == -1          \* cell_count of a circuit the cmux does not know

NoCirc == [id |-> 0, queue |-> 0, cell_count |-> Detached, marked |-> FALSE,
           blocked |-> FALSE, delete_pending |-> FALSE]

NewChannel ==
  [state |-> "OPENING", scheduler_state |-> "IDLE", pending |-> FALSE,
   outbuf |-> 0, circ |-> [c \in Circs |-> NoCirc], n_cells |-> 0,
   n_active |-> 0, destroys |-> <<>>, last_was_destroy |-> FALSE,
   map |-> [i \in Ids |-> Unused]]

AtLoop ==
  [at |-> "loop", chan |-> 0, max |-> 0, flushed |-> 0, circ |-> 0,
   room |-> [ch \in {} |-> 0], outbufs |-> {}, readd |-> {}, victims |-> {}]

Init ==
  /\ chans = [ch \in Chans |-> NewChannel]
  /\ circuits_pending_close = {}
  /\ run_sched_ev = FALSE
  /\ the_scheduler \in Schedulers
  /\ high \in HighMarks
  /\ main = AtLoop

Set(ch, s) == chans' = [chans EXCEPT ![ch] = s]

Pending == {ch \in Chans : chans[ch].pending}

(***************************************************************************)
(* The scheduler's view of one channel                                     *)
(***************************************************************************)
MakePending(s) == [s EXCEPT !.scheduler_state = "PENDING", !.pending = TRUE]

\* Mutant: the first cell of an idle channel is not noted.
HasWaitingNotIdle(s) ==
  IF s.scheduler_state = "WAITING_FOR_CELLS" THEN MakePending(s) ELSE s

scheduler_channel_has_waiting_cells(s) ==
  CASE s.scheduler_state = "WAITING_FOR_CELLS" -> MakePending(s)
    [] s.scheduler_state = "IDLE" ->
         [s EXCEPT !.scheduler_state = "WAITING_TO_WRITE"]
    [] OTHER -> s

scheduler_channel_wants_writes(s) ==
  CASE s.scheduler_state = "WAITING_TO_WRITE" -> MakePending(s)
    [] s.scheduler_state = "IDLE" ->
         [s EXCEPT !.scheduler_state = "WAITING_FOR_CELLS"]
    [] OTHER -> s

\* Mutant: the state is reset and the pending list is left alone.
ReleaseOnlyState(s) == [s EXCEPT !.scheduler_state = "IDLE"]

scheduler_release_channel(s) ==
  [s EXCEPT !.pending = FALSE, !.scheduler_state = "IDLE"]

\* the_scheduler->schedule(): the event is armed when a channel is pending.
schedule ==
  run_sched_ev' =
    (run_sched_ev \/ \E ch \in Chans : chans'[ch].pending /\ ~chans[ch].pending)

(***************************************************************************)
(* Channel states                                                          *)
(***************************************************************************)
Open(s) == s.state = "OPEN"

Condemned(s) == s.state \in {"CLOSING", "CLOSED", "FREED"}

channel_mark_for_close(s) ==
  IF Condemned(s) THEN s
  ELSE scheduler_release_channel([s EXCEPT !.state = "CLOSING"])

\* CEIL_DIV(or_conn_highwatermark() - outbuf_len, cell size) in size_t
channel_num_cells_writeable(s) ==
  IF Open(s)
  THEN ((((high - s.outbuf) % SizeMod) + Cell - 1) % SizeMod) \div Cell
  ELSE 0

(***************************************************************************)
(* The circuit multiplexer of a channel                                    *)
(***************************************************************************)
IsActive(n) == IF n > 0 THEN 1 ELSE 0

\* Mutant: a circuit that runs dry stays counted as active.
SetNumCellsKeepsActive(s, c, n) ==
  LET old == s.circ[c].cell_count
  IN [s EXCEPT !.circ[c].cell_count = n,
               !.n_cells = @ - old + n,
               !.n_active = @ + (IF old = 0 THEN IsActive(n) ELSE 0)]

circuitmux_set_num_cells(s, c, n) ==
  LET old == s.circ[c].cell_count
  IN [s EXCEPT !.circ[c].cell_count = n,
               !.n_cells = @ - old + n,
               !.n_active = @ + IsActive(n) - IsActive(old)]

circuitmux_detach_circuit(s, c) ==
  IF s.circ[c].cell_count = Detached THEN s
  ELSE [circuitmux_set_num_cells(s, c, 0) EXCEPT !.circ[c].cell_count = Detached]

circuitmux_num_cells(s) == s.n_cells + Len(s.destroys)

\* Whose turn it is: destroys and relay cells alternate.
DestroyTurn(s) == s.destroys # <<>> /\ (~s.last_was_destroy \/ s.n_active = 0)

(***************************************************************************)
(* Circuits on a channel                                                   *)
(***************************************************************************)
On(s) == {c \in Circs : s.circ[c].id # 0}

\* The circuits an action marks are queued for circuit_close_all_marked.
NoteMarked ==
  circuits_pending_close' = circuits_pending_close \cup
    {p \in Chans \X Circs : /\ chans'[p[1]].circ[p[2]].marked
                           /\ ~chans[p[1]].circ[p[2]].marked}

\* What may still have to go through the outbuf: bounds the model.
Bytes(s) ==
  s.outbuf + Cell * (MapThenSumSet(LAMBDA c : s.circ[c].queue, Circs)
                     + Len(s.destroys) + Cardinality(On(s)))

\* append_cell_to_circuit_queue after its checks
QueueCell(s, c) ==
  LET n == s.circ[c].queue + 1
      t == [s EXCEPT !.circ[c].queue = n,
                     !.circ[c].blocked = @ \/ n >= CellqHigh]
  IN scheduler_channel_has_waiting_cells(circuitmux_set_num_cells(t, c, n))

circuit_set_circid_chan(s, c, id) ==
  [s EXCEPT !.circ[c] = [NoCirc EXCEPT !.id = id, !.cell_count = 0],
            !.map[id] = c]

\* Mutant: the id is free at once, whatever its DESTROY cell does.
ForgetsDelete(s, c) ==
  [circuitmux_detach_circuit(s, c) EXCEPT !.circ[c] = NoCirc,
                                          !.map[s.circ[c].id] = Unused]

\* circuit_set_[np]_circid_chan(circ, 0, NULL): the circuit leaves the
\* channel; while its DESTROY is queued the id stays reserved.
LeaveChannel(s, c) ==
  [circuitmux_detach_circuit(s, c) EXCEPT
     !.circ[c] = NoCirc,
     !.map[s.circ[c].id] =
        IF s.circ[c].delete_pending THEN Placeholder ELSE Unused]

channel_note_destroy_not_pending(s, id) ==
  IF s.map[id] \in Circs
  THEN [s EXCEPT !.circ[s.map[id]].delete_pending = FALSE]
  ELSE [s EXCEPT !.map[id] = Unused]

(***************************************************************************)
(* Cells move from the circuits to the outbuf                              *)
(***************************************************************************)
\* channel_write_packed_cell on an open channel: the cell is in the outbuf,
\* or the connection fails and the channel closes; both count as written.
WriteCell(s) == {[s EXCEPT !.outbuf = @ + Cell], channel_mark_for_close(s)}

\* An iteration of channel_flush_from_first_active_circuit that was given the
\* destroy queue.  On a closing channel the cell is dropped.
FlushDestroy(s) ==
  LET id == Head(s.destroys)
      t == [s EXCEPT !.destroys = Tail(@), !.last_was_destroy = TRUE]
  IN IF Open(s) THEN WriteCell(channel_note_destroy_not_pending(t, id)) ELSE {t}

\* Mutant: streams are told to go on only when the queue is empty.
UnblockAtZero(s, c) ==
  [s EXCEPT !.circ[c].blocked = @ /\ s.circ[c].queue > 0]

Unblock(s, c) ==
  [s EXCEPT !.circ[c].blocked = @ /\ s.circ[c].queue > CellqLow]

\* An iteration that was given the active circuit c.
FlushRelay(s, c) ==
  LET t == [s EXCEPT !.last_was_destroy = FALSE]
      popped == [t EXCEPT !.circ[c].queue = @ - 1]
      n == popped.circ[c].queue
  IN CASE s.circ[c].queue = 0 ->
            {[circuitmux_set_num_cells(t, c, 0) EXCEPT !.circ[c].marked = TRUE]}
       [] s.circ[c].queue > 0 /\ ~Open(s) -> {popped}
       [] OTHER ->
            WriteCell(Unblock(circuitmux_set_num_cells(popped, c, n), c))

\* main enters the loop for at most n cells of ch and goes on at `then'.
FlushSome(m, ch, n, then) ==
  [m EXCEPT !.at = then, !.chan = ch, !.max = n, !.flushed = 0]

InFlush == main.at \in {"flush", "prime", "refuse"}

FlushDone ==
  LET s == chans[main.chan]
  IN main.flushed >= main.max \/ (s.destroys = <<>> /\ s.n_active = 0)

\* One iteration of the loop in channel_flush_from_first_active_circuit.
FlushCell ==
  /\ InFlush /\ ~FlushDone
  /\ LET s == chans[main.chan]
     IN \E r \in
          IF DestroyTurn(s)
          THEN {[chan |-> t, n |-> IF Open(s) THEN 1 ELSE 0]
                  : t \in FlushDestroy(s)}
          ELSE UNION {{[chan |-> t,
                        n |-> IF Open(s) /\ s.circ[c].queue > 0 THEN 1 ELSE 0]
                         : t \in FlushRelay(s, c)}
                      : c \in {x \in Circs : s.circ[x].cell_count > 0}} :
          /\ Set(main.chan, r.chan)
          /\ main' = [main EXCEPT !.flushed = @ + r.n]
  /\ NoteMarked
  /\ UNCHANGED <<run_sched_ev, the_scheduler, high>>

(***************************************************************************)
(* The kernel                                                              *)
(***************************************************************************)
\* connection_handle_write takes `k' units, then connection_or_flushed_some.
FlushedSome(s, k) ==
  LET t == [s EXCEPT !.outbuf = @ - k]
  IN IF k > 0 /\ t.outbuf < LowMark THEN scheduler_channel_wants_writes(t) ELSE t

\* channel_write_to_kernel; a failed write closes the channel.
WriteToKernel(s) ==
  IF s.outbuf = 0 \/ Condemned(s) THEN {s}
  ELSE {FlushedSome(s, k) : k \in 0 .. s.outbuf} \cup {channel_mark_for_close(s)}

\* The socket becomes writeable.
connection_handle_write(ch) ==
  /\ main.at = "loop"
  /\ chans[ch].outbuf > 0 /\ ~Condemned(chans[ch])
  /\ \E k \in 1 .. chans[ch].outbuf : Set(ch, FlushedSome(chans[ch], k))
  /\ schedule
  /\ UNCHANGED <<the_scheduler, high, circuits_pending_close, main>>

(***************************************************************************)
(* The scheduler's event                                                   *)
(***************************************************************************)
\* What the kernel, or the outbuf, lets KIST write on a channel in this run.
Limits(s) ==
  IF the_scheduler = "KIST"
  THEN {(IF k > s.outbuf THEN k - s.outbuf ELSE 0) \div Cell : k \in KernelRooms}
  ELSE {channel_num_cells_writeable(s)}

scheduler_evt_callback ==
  /\ main.at = "loop" /\ run_sched_ev
  /\ \E room \in [Pending -> UNION {Limits(chans[ch]) : ch \in Pending}] :
       /\ \A ch \in Pending : room[ch] \in Limits(chans[ch])
       /\ main' = [main EXCEPT !.at = "run", !.room = room]
  /\ run_sched_ev' = FALSE
  /\ UNCHANGED <<chans, the_scheduler, high, circuits_pending_close>>

Popped(ch) == [chans[ch] EXCEPT !.pending = FALSE]

\* kist_scheduler_run takes the next channel.  The channel served before it
\* is written to the kernel if enough has gathered.
KistPop(ch) ==
  /\ main.at = "run" /\ the_scheduler # "Vanilla" /\ ch \in Pending
  /\ LET prev == main.chan
         writes == /\ prev \notin {0, ch}
                   /\ chans[prev].outbuf > Batch
         m == [main EXCEPT !.outbufs = (@ \cup {ch}) \ (IF writes THEN {prev} ELSE {})]
     IN /\ \E t \in IF writes THEN WriteToKernel(chans[prev]) ELSE {NewChannel} :
             chans' = [x \in Chans |-> CASE x = ch -> Popped(ch)
                                         [] x = prev /\ writes -> t
                                         [] OTHER -> chans[x]]
        /\ main' = FlushSome(m, ch,
                     IF main.room[ch] > 0 /\ Open(chans[ch]) THEN 1 ELSE 0,
                     IF main.room[ch] > 0 THEN "flush" ELSE "decide")
  /\ schedule
  /\ UNCHANGED <<the_scheduler, high, circuits_pending_close>>

\* What kist_scheduler_run does with the channel it has just served.
KistDecide ==
  /\ the_scheduler # "Vanilla"
  /\ main.at = "decide" \/ (main.at = "flush" /\ FlushDone)
  /\ LET ch == main.chan
         s == chans[ch]
         room == main.room[ch] - main.flushed
         stops == main.at = "flush" /\ (~Open(s) \/ main.flushed = 0)
         more == circuitmux_num_cells(s) > 0
         again == ~stops /\ more /\ room = 0
     IN /\ CASE stops /\ ~Open(s) ->
                  Set(ch, [s EXCEPT !.scheduler_state = "IDLE"])
             [] (stops /\ Open(s)) \/ (~stops /\ ~more) ->
                  Set(ch, [s EXCEPT !.scheduler_state = "WAITING_FOR_CELLS"])
             [] again -> UNCHANGED chans
             [] OTHER -> Set(ch, MakePending(s))
        /\ main' = [main EXCEPT !.at = "run", !.room[ch] = room,
                                !.readd = IF again THEN @ \cup {ch} ELSE @]
  /\ UNCHANGED <<run_sched_ev, the_scheduler, high, circuits_pending_close>>

\* vanilla_scheduler_run takes the next channel.
VanillaPop(ch) ==
  /\ main.at = "run" /\ the_scheduler = "Vanilla" /\ ch \in Pending
  /\ LET n == channel_num_cells_writeable(chans[ch])
     IN IF n > 0
        THEN /\ Set(ch, Popped(ch))
             /\ main' = FlushSome(main, ch, n, "flush")
        ELSE /\ Set(ch, [Popped(ch) EXCEPT !.scheduler_state = "WAITING_TO_WRITE"])
             /\ UNCHANGED main
  /\ UNCHANGED <<run_sched_ev, the_scheduler, high, circuits_pending_close>>

VanillaState(s, ranOut) ==
  CASE ranOut -> "WAITING_FOR_CELLS"
    [] ~ranOut /\ circuitmux_num_cells(s) > 0 -> "WAITING_TO_WRITE"
    [] ~ranOut /\ circuitmux_num_cells(s) = 0 ->
         IF channel_num_cells_writeable(s) > 0 THEN "WAITING_FOR_CELLS" ELSE "IDLE"

VanillaDecide ==
  /\ the_scheduler = "Vanilla" /\ main.at = "flush" /\ FlushDone
  /\ LET ch == main.chan
         s == chans[ch]
         ranOut == main.flushed < main.max
         again == /\ ~ranOut /\ circuitmux_num_cells(s) > 0
                  /\ channel_num_cells_writeable(s) > 0
     IN /\ IF again THEN UNCHANGED chans
           ELSE Set(ch, [s EXCEPT !.scheduler_state = VanillaState(s, ranOut)])
        /\ main' = [main EXCEPT !.at = "run",
                                !.readd = IF again THEN @ \cup {ch} ELSE @]
  /\ UNCHANGED <<run_sched_ev, the_scheduler, high, circuits_pending_close>>

\* KIST writes the outbufs of the channels it served.
KistWrite(ch) ==
  /\ main.at = "write" \/ (main.at = "run" /\ Pending = {})
  /\ ch \in main.outbufs
  /\ \E t \in WriteToKernel(chans[ch]) : Set(ch, t)
  /\ schedule
  /\ main' = [main EXCEPT !.at = "write", !.outbufs = @ \ {ch}]
  /\ UNCHANGED <<the_scheduler, high, circuits_pending_close>>

\* Mutant: the channels set aside are forgotten.
ReaddNothing(ch) == chans[ch]

Readd(ch) == IF ch \in main.readd THEN MakePending(chans[ch]) ELSE chans[ch]

\* The end of a run: the channels set aside are pending again, and
\* scheduler_evt_callback schedules the next run if there is work.
RunEnds ==
  /\ main.at = "write" \/ (main.at = "run" /\ Pending = {})
  /\ main.outbufs = {}
  /\ chans' = [ch \in Chans |-> Readd(ch)]
  /\ run_sched_ev' = (run_sched_ev \/ \E ch \in Chans : chans'[ch].pending)
  /\ main' = AtLoop
  /\ UNCHANGED <<the_scheduler, high, circuits_pending_close>>

(***************************************************************************)
(* Circuits come, fill and go                                              *)
(***************************************************************************)
\* A CREATE cell arrives (n = 0), or a circuit is built or extended over the
\* channel and its CREATE cell is queued (n = 1).  Ids in use, placeholders
\* included, are refused and not chosen.
NewCircuit(ch, c, id, n) ==
  LET s == chans[ch]
      t == circuit_set_circid_chan(s, c, id)
  IN /\ main.at = "loop" /\ Open(s) /\ (c \in Own => n = 1)
     /\ s.circ[c].id = 0 /\ s.map[id] = Unused
     /\ Bytes(s) + Cell * (n + 1) <= MaxBytes
     /\ Set(ch, IF n = 0 THEN t ELSE QueueCell(t, c))
     /\ schedule
     /\ UNCHANGED <<the_scheduler, high, circuits_pending_close, main>>

\* A CREATE cell is refused (hibernating, a defense, not a server, an id of
\* the wrong half): a DESTROY is queued for an id that no circuit has, and
\* primes the outbuf if that is empty.
RefuseCreate(ch, id) ==
  LET s == chans[ch]
  IN /\ main.at = "loop" /\ Open(s) /\ s.map[id] = Unused
     /\ Bytes(s) + Cell <= MaxBytes
     /\ Set(ch, [s EXCEPT !.map[id] = Placeholder, !.destroys = Append(@, id)])
     /\ main' = IF s.outbuf > 0 THEN main ELSE FlushSome(main, ch, 1, "refuse")
     /\ UNCHANGED <<the_scheduler, high, circuits_pending_close, run_sched_ev>>

RefuseEnds ==
  /\ main.at = "refuse" /\ FlushDone
  /\ main' = AtLoop
  /\ UNCHANGED <<chans, circuits_pending_close, run_sched_ev, the_scheduler, high>>

\* Mutant: the queues are emptied but the circuits are not marked.
OomForgetsMark(f, dead) ==
  [ch \in Chans |-> [f[ch] EXCEPT !.circ =
     [c \in Circs |-> IF <<ch, c>> \in dead
                      THEN [f[ch].circ[c] EXCEPT !.queue = 0]
                      ELSE f[ch].circ[c]]]]

\* circuits_handle_oom marks circuits and empties their queues at once; the
\* multiplexers are not told.
circuits_handle_oom(f, dead) ==
  [ch \in Chans |-> [f[ch] EXCEPT !.circ =
     [c \in Circs |-> IF <<ch, c>> \in dead
                      THEN [f[ch].circ[c] EXCEPT !.queue = 0, !.marked = TRUE]
                      ELSE f[ch].circ[c]]]]

OnSomeChannel == {p \in Chans \X Circs : p[2] \in On(chans[p[1]])}

\* A cell is queued on circuit c, unless the out-of-memory run closes it.
QueueAfterOom(f, ch, c, dead) ==
  LET g == circuits_handle_oom(f, dead)
  IN IF <<ch, c>> \in dead THEN g ELSE [g EXCEPT ![ch] = QueueCell(@, c)]

\* The channels `f' after a cell for circuit c: a queue that is too long closes
\* the circuit, and when memory runs out some circuits of the global list are
\* closed (none if there is memory).
Appended(f, ch, c, list) ==
  IF f[ch].circ[c].queue >= MaxQueue
  THEN {[f EXCEPT ![ch] = [@ EXCEPT !.circ[c].marked = TRUE]]}
  ELSE {QueueAfterOom(f, ch, c, dead) : dead \in SUBSET list}

append_cell_to_circuit_queue(ch, c) ==
  LET s == chans[ch]
  IN /\ main.at = "loop"
     /\ s.circ[c].id # 0 /\ ~s.circ[c].marked
     /\ s.circ[c].queue >= MaxQueue \/ Bytes(s) + Cell <= MaxBytes
     /\ chans' \in Appended(chans, ch, c, OnSomeChannel)
     /\ schedule
     /\ NoteMarked
     /\ UNCHANGED <<the_scheduler, high, main>>

circuit_mark_for_close(ch, c) ==
  /\ main.at = "loop"
  /\ chans[ch].circ[c].id # 0 /\ ~chans[ch].circ[c].marked
  /\ Set(ch, [chans[ch] EXCEPT !.circ[c].marked = TRUE])
  /\ NoteMarked
  /\ UNCHANGED <<run_sched_ev, the_scheduler, high, main>>

\* The peer's DESTROY: the circuit leaves the channel without one of ours.
command_process_destroy_cell(ch, c) ==
  /\ main.at = "loop" /\ Open(chans[ch])
  /\ chans[ch].circ[c].id # 0 /\ ~chans[ch].circ[c].marked
  /\ Set(ch, LeaveChannel(chans[ch], c))
  /\ UNCHANGED <<circuits_pending_close, run_sched_ev, the_scheduler, high, main>>

\* circuit_close_all_marked: the post-loop event walks over the list.
CloseAllMarked ==
  /\ main.at = "loop" /\ circuits_pending_close # {}
  /\ main' = [main EXCEPT !.at = "closing", !.victims = circuits_pending_close]
  /\ UNCHANGED <<chans, circuits_pending_close, run_sched_ev, the_scheduler, high>>

\* circuit_build_failed, called for a victim that is already off the global
\* list: hs_circ_retry_service_rendezvous_point launches another circuit, or
\* extends one that is there, and either has a cell to send.  A launch that
\* sends none changes nothing here.
circuit_build_failed(ch, c) ==
  /\ main.at = "closing" /\ <<ch, c>> \in main.victims /\ c \in Own
  /\ \E d \in Chans, x \in Own :
       LET s == chans[d]
       IN \/ \E id \in Ids :
               /\ Open(s) /\ s.circ[x].id = 0 /\ s.map[id] = Unused
               /\ Bytes(s) + 2 * Cell <= MaxBytes
               /\ chans' \in Appended(
                    [chans EXCEPT ![d] = circuit_set_circid_chan(s, x, id)],
                    d, x, OnSomeChannel \ {<<ch, c>>})
          \/ /\ s.circ[x].id # 0 /\ ~s.circ[x].marked
             /\ s.circ[x].queue >= MaxQueue \/ Bytes(s) + Cell <= MaxBytes
             /\ chans' \in Appended(chans, d, x, OnSomeChannel \ {<<ch, c>>})
  /\ schedule
  /\ NoteMarked
  /\ main' = [main EXCEPT !.at = "failed", !.chan = ch, !.circ = c]
  /\ UNCHANGED <<the_scheduler, high>>

\* The walk frees this circuit next.
Freeing(ch, c) ==
  /\ <<ch, c>> \in main.victims
  /\ main.at = "closing" \/ (main.at = "failed" /\ main.chan = ch /\ main.circ = c)

\* The rest of circuit_about_to_free, up to the call that primes the outbuf.
circuit_about_to_free(ch, c) ==
  LET s == chans[ch]
      empty == circuitmux_set_num_cells([s EXCEPT !.circ[c].queue = 0], c, 0)
      sent == [empty EXCEPT !.circ[c].delete_pending = TRUE,
                            !.destroys = Append(@, s.circ[c].id)]
      m == [main EXCEPT !.at = "closing", !.victims = @ \ {<<ch, c>>}]
  IN /\ Freeing(ch, c)
     /\ \/ /\ Condemned(s)
           /\ Set(ch, LeaveChannel(empty, c))
           /\ main' = m
        \/ /\ ~Condemned(s) /\ s.outbuf > 0
           /\ Set(ch, LeaveChannel(sent, c))
           /\ main' = m
        \/ /\ ~Condemned(s) /\ s.outbuf = 0
           /\ Set(ch, sent)
           /\ main' = [FlushSome(main, ch, 1, "prime") EXCEPT !.circ = c]
     /\ UNCHANGED <<circuits_pending_close, run_sched_ev, the_scheduler, high>>

\* ... and from there on.
PrimeEnds ==
  /\ main.at = "prime" /\ FlushDone
  /\ Set(main.chan, LeaveChannel(chans[main.chan], main.circ))
  /\ main' = [main EXCEPT !.at = "closing",
                          !.victims = @ \ {<<main.chan, main.circ>>}]
  /\ UNCHANGED <<circuits_pending_close, run_sched_ev, the_scheduler, high>>

CloseAllEnds ==
  /\ main.at = "closing" /\ main.victims = {}
  /\ circuits_pending_close' = {}
  /\ main' = AtLoop
  /\ UNCHANGED <<chans, run_sched_ev, the_scheduler, high>>

(***************************************************************************)
(* Channels open and close; the rest of the world                          *)
(***************************************************************************)
\* The handshake is done: a circuit that waited for the channel queues its
\* CREATE cell, then the scheduler hears that the channel can be written.
channel_change_state_open(ch) ==
  LET t == [chans[ch] EXCEPT !.state = "OPEN"]
      waited == {QueueCell(circuit_set_circid_chan(t, c, id), c)
                   : c \in Circs, id \in Ids}
  IN /\ main.at = "loop" /\ chans[ch].state = "OPENING"
     /\ \E u \in {t} \cup {w \in waited : Bytes(w) <= MaxBytes} :
          Set(ch, IF u.outbuf < high THEN scheduler_channel_wants_writes(u) ELSE u)
     /\ schedule
     /\ UNCHANGED <<circuits_pending_close, the_scheduler, high, main>>

\* Handshake cells and padding commands bypass the circuits' queues.
channel_write_cell(ch) ==
  /\ main.at = "loop" /\ ~Condemned(chans[ch])
  /\ chans[ch].outbuf < DirectMark /\ Bytes(chans[ch]) + Cell <= MaxBytes
  /\ Set(ch, [chans[ch] EXCEPT !.outbuf = @ + Cell])
  /\ UNCHANGED <<circuits_pending_close, run_sched_ev, the_scheduler, high, main>>

\* Closed by us, by the peer, or by an error of the connection.
CloseChannel(ch) ==
  /\ main.at = "loop" /\ ~Condemned(chans[ch])
  /\ Set(ch, channel_mark_for_close(chans[ch]))
  /\ UNCHANGED <<circuits_pending_close, run_sched_ev, the_scheduler, high, main>>

\* The connection is gone: circuit_unlink_all_from_channel.
channel_closed(ch) ==
  LET s == chans[ch]
  IN /\ main.at = "loop" /\ s.state = "CLOSING"
     /\ Set(ch, scheduler_release_channel(
                  [s EXCEPT !.state = "CLOSED", !.outbuf = 0,
                            !.circ = [c \in Circs |-> NoCirc],
                            !.n_cells = 0, !.n_active = 0,
                            !.map = [i \in Ids |-> IF s.map[i] \in Circs
                                                   THEN Unused ELSE s.map[i]]]))
     /\ circuits_pending_close' =
          {p \in circuits_pending_close : p[1] # ch}
     /\ UNCHANGED <<run_sched_ev, the_scheduler, high, main>>

\* channel_run_cleanup frees it: circuitmux_mark_destroyed_circids_usable.
channel_free(ch) ==
  LET s == chans[ch]
      queued == {s.destroys[k] : k \in DOMAIN s.destroys}
  IN /\ main.at = "loop" /\ s.state = "CLOSED"
     /\ Set(ch, scheduler_release_channel(
                  [s EXCEPT !.state = "FREED", !.destroys = <<>>,
                            !.map = [i \in Ids |-> IF i \in queued
                                                   THEN Unused ELSE @[i]]]))
     /\ UNCHANGED <<circuits_pending_close, run_sched_ev, the_scheduler, high, main>>

\* congestion_control_new_consensus_params
NewHighwater(h) ==
  /\ main.at = "loop" /\ h # high
  /\ high' = h
  /\ UNCHANGED <<chans, circuits_pending_close, run_sched_ev, the_scheduler, main>>

\* scheduler_conf_changed
set_scheduler(type) ==
  /\ main.at = "loop" /\ type # the_scheduler
  /\ the_scheduler' = type
  /\ UNCHANGED <<chans, circuits_pending_close, run_sched_ev, high, main>>

(***************************************************************************)
(* The specification                                                       *)
(***************************************************************************)
\* The main thread goes on with what it is in.
Step ==
  \/ FlushCell \/ KistDecide \/ VanillaDecide \/ RunEnds
  \/ RefuseEnds \/ PrimeEnds \/ CloseAllEnds
  \/ \E ch \in Chans :
       \/ KistPop(ch) \/ VanillaPop(ch) \/ KistWrite(ch)
       \/ \E c \in Circs : circuit_build_failed(ch, c) \/ circuit_about_to_free(ch, c)

\* The event loop runs a callback.
Callback ==
  \/ scheduler_evt_callback \/ CloseAllMarked
  \/ \E ch \in Chans :
       \/ channel_change_state_open(ch) \/ channel_write_cell(ch)
       \/ connection_handle_write(ch)
       \/ CloseChannel(ch) \/ channel_closed(ch) \/ channel_free(ch)
       \/ \E c \in Circs :
            \/ append_cell_to_circuit_queue(ch, c)
            \/ circuit_mark_for_close(ch, c)
            \/ command_process_destroy_cell(ch, c)
            \/ \E id \in Ids, n \in {0, 1} : NewCircuit(ch, c, id, n)
       \/ \E id \in Ids : RefuseCreate(ch, id)
  \/ \E h \in HighMarks : NewHighwater(h)
  \/ \E type \in Schedulers : set_scheduler(type)

Next == Step \/ Callback

Spec == Init /\ [][Next]_vars

\* A run of the scheduler that finds room on a pending channel.
RunWithRoom(ch) ==
  /\ ch \in Pending
  /\ scheduler_evt_callback
  /\ IF the_scheduler = "Vanilla" THEN channel_num_cells_writeable(chans[ch]) > 0
                                  ELSE main'.room[ch] > 0

\* The kernel takes all it is offered.
KernelCatchesUp(ch) == connection_handle_write(ch) /\ chans'[ch].outbuf = 0

\* The main thread does not stop inside a callback; events that stay due are
\* served; the network keeps taking bytes and the kernel says so now and then.
Fairness ==
  /\ WF_vars(Step)
  /\ SF_vars(CloseAllMarked)
  /\ \A ch \in Chans : SF_vars(KernelCatchesUp(ch)) /\ SF_vars(RunWithRoom(ch))

FairSpec == Spec /\ Fairness

(***************************************************************************)
(* Properties                                                              *)
(***************************************************************************)
CircType ==
  [id : Ids \cup {0}, queue : Nat, cell_count : Nat \cup {Detached},
   marked : BOOLEAN, blocked : BOOLEAN, delete_pending : BOOLEAN]

ChanType ==
  [state : {"OPENING", "OPEN", "CLOSING", "CLOSED", "FREED"},
   scheduler_state : {"IDLE", "WAITING_FOR_CELLS", "WAITING_TO_WRITE", "PENDING"},
   pending : BOOLEAN, outbuf : Nat, circ : [Circs -> CircType],
   n_cells : Int, n_active : Int, destroys : Seq(Ids),
   last_was_destroy : BOOLEAN, map : [Ids -> Circs \cup {Unused, Placeholder}]]

\* `limited' are the channels whose limit this run has computed.
MainType(limited) ==
  [at : {"loop", "run", "flush", "decide", "write", "closing", "failed", "prime",
         "refuse"},
   chan : Chans \cup {0}, max : Nat, flushed : Nat, circ : Circs \cup {0},
   room : [limited -> Int], outbufs : SUBSET Chans, readd : SUBSET Chans,
   victims : SUBSET (Chans \X Circs)]

\* Every variable has the type of what it stands for.
TypeOK ==
  /\ chans \in [Chans -> ChanType]
  /\ circuits_pending_close \subseteq Chans \X Circs
  /\ run_sched_ev \in BOOLEAN
  /\ the_scheduler \in {"KIST", "KISTLite", "Vanilla"}
  /\ high \in HighMarks
  /\ main \in MainType(DOMAIN main.room) /\ DOMAIN main.room \subseteq Chans

\* The cells the multiplexer counts, numbered on each circuit.
Counted(s) == UNION {{c} \X (1 .. s.circ[c].cell_count) : c \in Circs}

Active(s) == {c \in Circs : s.circ[c].cell_count > 0}

\* The multiplexer's counters are the sums they stand for, and the count of a
\* circuit is the length of its queue unless an out-of-memory run emptied the
\* queue of a marked circuit or a closing channel dropped its cells: the
\* assertions of circuitmux_get_first_active_circuit and
\* circuitmux_notify_xmit_cells.
CountersExact ==
  \A ch \in Chans :
    LET s == chans[ch]
    IN /\ s.n_cells = Cardinality(Counted(s))
       /\ s.n_active = Cardinality(Active(s))
       /\ \A c \in On(s) :
            \/ s.circ[c].cell_count = s.circ[c].queue
            \/ s.circ[c].marked /\ s.circ[c].queue = 0
            \/ Condemned(s) /\ s.circ[c].queue < s.circ[c].cell_count

\* Between callbacks the pending list holds just the channels in state
\* PENDING, the event that will serve them is due, and no finished channel is
\* left in the list for a run to use after it is freed (scheduler.c:643-652).
PendingExact ==
  /\ main.at = "loop" =>
       \A ch \in Chans :
         /\ chans[ch].pending <=> chans[ch].scheduler_state = "PENDING"
         /\ chans[ch].pending => run_sched_ev
  /\ \A ch \in Chans :
       chans[ch].state \in {"CLOSED", "FREED"} =>
         ~chans[ch].pending /\ ch \notin main.outbufs \cup main.readd

\* No channel is lost by the scheduler ("Sometimes the scheduling system would
\* lose track of channels", scheduler_kist.c:695-709): an open channel with
\* relay cells is pending, or its outbuf still has something to flush, and
\* that flush will tell the scheduler.
NoLostChannel ==
  main.at = "loop" =>
    \A ch \in Chans :
      Open(chans[ch]) /\ chans[ch].n_cells > 0 =>
        \/ chans[ch].scheduler_state = "PENDING"
        \/ chans[ch].scheduler_state = "WAITING_TO_WRITE" /\ chans[ch].outbuf > 0

\* A circuit id is not given to a new circuit while the DESTROY of the old one
\* is queued on the channel, and is given back once it is written: outside a
\* call, the placeholders of an open channel are the ids of its destroy queue,
\* each queued once (circuitlist.c:367-370, 401-403).
IdsReserved ==
  \A ch \in Chans :
    LET s == chans[ch]
        queued == {s.destroys[k] : k \in DOMAIN s.destroys}
    IN /\ Cardinality(queued) = Len(s.destroys)
       /\ \A i \in queued : \/ s.map[i] = Placeholder
                            \/ s.map[i] \in Circs /\ s.circ[s.map[i]].delete_pending
       /\ Open(s) => \A i \in Ids : s.map[i] = Placeholder => i \in queued

\* Streams of a circuit that were told to stop because its queue was too long
\* are told to go on: a blocked circuit that is not being closed has more than
\* the low mark of cells left to send.
BlockedHasCells ==
  \A ch \in Chans, c \in Circs :
    LET s == chans[ch]
    IN s.circ[c].blocked /\ ~s.circ[c].marked /\ ~Condemned(s) =>
         s.circ[c].queue > CellqLow

Marked == {p \in Chans \X Circs : chans[p[1]].circ[p[2]].marked}

\* circuit_close_all_marked is on its way.
Walking == main.at \in {"closing", "failed", "prime"}

\* While circuit_close_all_marked walks over its list, which it clears when it
\* ends, only a launch in circuit_build_failed marks a circuit.  The loop that
\* primes an outbuf marks a circuit it finds active with an empty queue: that
\* was emptied by an out-of-memory run, and is marked already.
OnlyLaunchMarks ==
  [][Walking => Marked' \subseteq Marked \/ main'.at = "failed"]_vars

\* Between callbacks a marked circuit that is still on its channel is on the
\* list, so that circuit_close_all_marked will "detach from the global circuit
\* list, and deallocate, all circuits that have been marked for close"
\* (circuitlist.c:677-678).
NoZombie == main.at = "loop" => Marked \subseteq circuits_pending_close

-----------------------------------------------------------------------------
(* The inductive invariant behind these. *)

\* A circuit and the (channel, id) map agree; a channel that is opening has
\* no circuit yet and one that is closed has none left.
CircOK(s) ==
  /\ \A c \in Circs :
       IF s.circ[c].id = 0 THEN s.circ[c] = NoCirc
       ELSE /\ s.circ[c].cell_count # Detached
            /\ s.map[s.circ[c].id] = c
            /\ \/ s.circ[c].cell_count = s.circ[c].queue
               \/ s.circ[c].marked /\ s.circ[c].queue = 0
               \/ Condemned(s) /\ s.circ[c].queue < s.circ[c].cell_count
            /\ s.circ[c].blocked /\ ~s.circ[c].marked /\ ~Condemned(s)
                 => s.circ[c].queue > CellqLow
  /\ \A i \in Ids : s.map[i] \in Circs => s.circ[s.map[i]].id = i
  /\ s.state \in {"OPENING", "CLOSED", "FREED"} => \A c \in Circs : s.circ[c].id = 0

CountOK(s) ==
  /\ IsFiniteSet(Counted(s)) /\ s.n_cells = Cardinality(Counted(s))
  /\ s.n_active = Cardinality(Active(s))

Queued(s) == {s.destroys[k] : k \in DOMAIN s.destroys}

\* The DESTROY of a circuit that is being freed is queued until it is written,
\* and then the DESTROY of a placeholder.
IdsOK(s) ==
  /\ \A j, k \in DOMAIN s.destroys : s.destroys[j] = s.destroys[k] => j = k
  /\ \A i \in Queued(s) :
       \/ s.map[i] = Placeholder
       \/ s.map[i] \in Circs /\ s.circ[s.map[i]].delete_pending
  /\ Open(s) =>
       /\ \A i \in Ids : s.map[i] = Placeholder => i \in Queued(s)
       /\ \A c \in Circs : s.circ[c].delete_pending => s.circ[c].id \in Queued(s)
  /\ s.state = "OPENING" => s.destroys = <<>> /\ \A i \in Ids : s.map[i] = Unused

\* What the scheduler's state of a channel says about its cells and outbuf.
SchedOK(s) ==
  /\ s.pending => s.scheduler_state = "PENDING"
  /\ Open(s) =>
       /\ s.scheduler_state \in {"IDLE", "WAITING_FOR_CELLS"} => s.n_cells = 0
       /\ s.scheduler_state \in {"IDLE", "WAITING_TO_WRITE"} => s.outbuf > 0
  /\ s.state = "OPENING" => s.scheduler_state \in {"IDLE", "WAITING_FOR_CELLS"}
  /\ s.state \in {"CLOSED", "FREED"} => s.scheduler_state = "IDLE"

ChanOK(s) == CircOK(s) /\ CountOK(s) /\ IdsOK(s) /\ SchedOK(s)

\* The channels a run has popped and not yet decided about.
Held == main.readd \cup (IF main.at \in {"flush", "decide"} THEN {main.chan} ELSE {})

\* A channel in state PENDING is in the pending list or in the hands of the
\* run, which does not lose it.
RunInv ==
  /\ \A ch \in Chans :
       chans[ch].scheduler_state = "PENDING" /\ ~chans[ch].pending => ch \in Held
  /\ \A ch \in Held :
       /\ ch \in Chans /\ chans[ch].state \in {"OPEN", "CLOSING"}
       /\ ~chans[ch].pending
       /\ Open(chans[ch]) => chans[ch].scheduler_state = "PENDING"
  /\ \A ch \in main.outbufs : chans[ch].state \in {"OPEN", "CLOSING"}
  /\ main.at \in {"flush", "decide"} => main.chan \notin main.readd
  /\ main.at = "flush" /\ Open(chans[main.chan]) => main.max > 0
  /\ main.at \in {"run", "flush", "decide"} =>
       /\ \A ch \in Held : ch \in DOMAIN main.room
       /\ \A ch \in Chans : chans[ch].pending => ch \in DOMAIN main.room
       /\ main.chan \in {0} \cup DOMAIN main.room
  /\ main.at = "loop" => main.chan = 0
  /\ main.at \in {"loop", "closing", "failed", "prime", "refuse"} =>
       /\ main.readd = {} /\ main.outbufs = {}
       /\ \A ch \in Chans : chans[ch].pending => run_sched_ev

\* Who is marked, who is being freed and whose DESTROY is being primed.
CloseInv ==
  /\ IF Walking THEN main.victims \subseteq Marked
                ELSE circuits_pending_close \subseteq Marked
  /\ main.at \in {"failed", "prime"} => <<main.chan, main.circ>> \in main.victims
  /\ main.at = "refuse" => main.chan \in Chans
  /\ main.at = "prime" =>
       /\ main.max = 1
       /\ main.flushed = 0 => Open(chans[main.chan])
  /\ \A ch \in Chans, c \in Circs :
       chans[ch].circ[c].delete_pending =>
         main.at = "prime" /\ main.chan = ch /\ main.circ = c

IndInv ==
  /\ TypeOK /\ \A ch \in Chans : ChanOK(chans[ch])
  /\ RunInv /\ CloseInv

-----------------------------------------------------------------------------
\* An open channel with relay cells is served, whatever scheduler runs and
\* however often it is changed.
ChannelsServed ==
  \A ch \in Chans :
    (Open(chans[ch]) /\ chans[ch].n_cells > 0) ~>
      \/ ~Open(chans[ch]) \/ chans[ch].n_cells = 0
      \/ InFlush /\ main.chan = ch

\* A queued DESTROY is sent: "we can notice when it gets flushed,
\* flushed_some can get called, and we can start putting more data onto the
\* buffer then" (circuitmux.c:1199-1202).
DestroysServed ==
  \A ch \in Chans :
    (Open(chans[ch]) /\ chans[ch].destroys # <<>>) ~>
      ~Open(chans[ch]) \/ chans[ch].destroys = <<>> \/ (InFlush /\ main.chan = ch)

\* The schedulers that ask the channel how much it takes add no cell to an
\* outbuf that is at the high mark: "Stop writing on an orconn when its outbuf
\* is this large" (congestion_control_common.h).
StopsAtHighwater ==
  [][\A ch \in Chans :
       (main.at = "flush" /\ the_scheduler # "KIST"
        /\ chans'[ch].outbuf > chans[ch].outbuf) => chans[ch].outbuf < high]_vars
=============================================================================
