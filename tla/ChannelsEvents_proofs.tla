------------------------ MODULE ChannelsEvents_proofs -------------------------
(***************************************************************************)
(* One channel, and the callbacks of the event loop.  Every function on a  *)
(* channel leads from a sound channel to a sound one, and every callback   *)
(* outside of a run of the scheduler preserves the invariant of Channels.  *)
(***************************************************************************)
EXTENDS Channels, TLAPS

\* A leaf is tried with Zenon, then with SMT, then with both for longer.
USE ZenonT(2), SMT, SMTT(30), Zenon

-----------------------------------------------------------------------------
(* Counting cells. *)

\* For channel_num_cells_writeable: a number below the modulus is not changed.
LEMMA SmallMod == ASSUME NEW a \in Nat, NEW m \in Nat, a < m PROVE a % m = a
OBVIOUS

\* And a quotient of a number by a smaller one is not 0.
LEMMA DivPos == ASSUME NEW a \in Nat, NEW b \in Nat \ {0}, a >= b PROVE a \div b > 0
OBVIOUS

\* channel_num_cells_writeable of an open channel is 0 only when its outbuf is not empty.
LEMMA Writeable ==
    ASSUME NEW s, Open(s), s.outbuf \in Nat, high \in HighMarks,
           channel_num_cells_writeable(s) = 0
    PROVE  s.outbuf > 0
<1> SUFFICES ASSUME s.outbuf = 0 PROVE FALSE
    OBVIOUS
<1>1. /\ high \in Nat \ {0} /\ Cell \in Nat \ {0} /\ SizeMod \in Nat
      /\ high + Cell <= SizeMod
    BY ChannelsAssumption
<1>2. (high - s.outbuf) % SizeMod = high
    BY <1>1, SmallMod
<1>3. (high + Cell - 1) % SizeMod = high + Cell - 1
    BY <1>1, SmallMod, high + Cell - 1 \in Nat
<1>4. (high + Cell - 1) \div Cell > 0
    BY <1>1, DivPos, high + Cell - 1 \in Nat
<1> QED
    BY <1>1, <1>2, <1>3, <1>4 DEF channel_num_cells_writeable

\* What a cell_count adds to n_cells; a detached circuit adds nothing.
Size(n) == IF n > 0 THEN n ELSE 0

\* The counters of a multiplexer stay the sums when the count of one circuit
\* changes and they follow it.
RecountLaw ==
  \A s, t \in ChanType, c \in Circs :
    /\ CountOK(s)
    /\ \A x \in Circs \ {c} : t.circ[x].cell_count = s.circ[x].cell_count
    /\ t.n_cells = s.n_cells - Size(s.circ[c].cell_count)
                             + Size(t.circ[c].cell_count)
    /\ t.n_active = s.n_active - IsActive(s.circ[c].cell_count)
                               + IsActive(t.circ[c].cell_count)
    => CountOK(t)

\* Without cells no circuit is active, and the other way round.
NoneActiveLaw ==
  \A s \in ChanType : CountOK(s) =>
    s.n_cells \in Nat /\ s.n_active \in Nat /\ (s.n_active = 0 <=> s.n_cells = 0)

\* A circuit with cells makes the counters of its multiplexer positive.
SomeActiveLaw ==
  \A s \in ChanType, c \in Circs :
    CountOK(s) /\ s.circ[c].cell_count > 0 => s.n_cells > 0 /\ s.n_active > 0

\* No circuit of a channel has cells.
NoCellsLaw ==
  \A s : (\A c \in Circs : s.circ[c].cell_count = Detached)
    => /\ Counted(s) = {} /\ Active(s) = {}
       /\ IsFiniteSet(Counted(s)) /\ Cardinality(Counted(s)) = 0
       /\ Cardinality(Active(s)) = 0

\* The laws of counting that the lemmas on channels need.  They are proved in
\* Channels_proofs (lemma Counting) from the theorems on finite sets; until then
\* a lemma that counts takes them as an assumption, which keeps those theorems
\* out of the context of the lemmas that do not.
CountingLaws == RecountLaw /\ NoneActiveLaw /\ SomeActiveLaw /\ NoCellsLaw

\* The counters of a multiplexer stay the sums when the count of one circuit
\* changes and they follow it.
LEMMA Recount ==
    ASSUME CountingLaws, NEW s \in ChanType, NEW t \in ChanType, NEW c \in Circs, CountOK(s),
           \A x \in Circs \ {c} : t.circ[x].cell_count = s.circ[x].cell_count,
           t.n_cells = s.n_cells - Size(s.circ[c].cell_count)
                                 + Size(t.circ[c].cell_count),
           t.n_active = s.n_active - IsActive(s.circ[c].cell_count)
                                   + IsActive(t.circ[c].cell_count)
    PROVE  CountOK(t)
BY DEF CountingLaws, RecountLaw

\* Without cells no circuit is active, and the other way round.
LEMMA NoneActive ==
    ASSUME CountingLaws, NEW s \in ChanType, CountOK(s)
    PROVE  s.n_cells \in Nat /\ s.n_active \in Nat /\ (s.n_active = 0 <=> s.n_cells = 0)
BY DEF CountingLaws, NoneActiveLaw

-----------------------------------------------------------------------------
(* The scheduler and one channel. *)

\* s and t differ in what the scheduler knows of the channel only.
SameButSched(s, t) ==
  /\ t \in ChanType /\ t.state = s.state /\ t.outbuf = s.outbuf /\ t.circ = s.circ
  /\ t.n_cells = s.n_cells /\ t.n_active = s.n_active
  /\ t.destroys = s.destroys /\ t.map = s.map

\* The channel's circuits, counters and ids are in order, and with them the
\* scheduler's view of it.
CircuitsOK(s) == CircOK(s) /\ CountOK(s) /\ IdsOK(s)

Sound(s) == s \in ChanType /\ CircuitsOK(s) /\ SchedOK(s)

\* Between callbacks, a channel in state PENDING is in the list and no DESTROY is being primed.
Settled(s) ==
  /\ s.scheduler_state = "PENDING" => s.pending
  /\ \A c \in Circs : ~s.circ[c].delete_pending

\* What the scheduler's fields are does not matter to the circuits.
LEMMA Frame ==
    ASSUME NEW s, NEW t, CircuitsOK(s),
           t.state = s.state, t.circ = s.circ, t.map = s.map,
           t.n_cells = s.n_cells, t.n_active = s.n_active, t.destroys = s.destroys
    PROVE  CircuitsOK(t)
<1>1. CircOK(t)
    BY DEF CircuitsOK, CircOK, Condemned
<1>2. CountOK(t)
    BY DEF CircuitsOK, CountOK, Counted, Active
<1>3. IdsOK(t)
    BY DEF CircuitsOK, IdsOK, Queued, Open
<1> QED
    BY <1>1, <1>2, <1>3 DEF CircuitsOK

\* The functions of scheduler.c touch the scheduler's two fields only.
LEMMA SchedEffect ==
    ASSUME NEW s \in ChanType
    PROVE  /\ SameButSched(s, MakePending(s))
           /\ MakePending(s).scheduler_state = "PENDING" /\ MakePending(s).pending
           /\ SameButSched(s, scheduler_channel_has_waiting_cells(s))
           /\ SameButSched(s, scheduler_channel_wants_writes(s))
           /\ SameButSched(s, scheduler_release_channel(s))
           /\ scheduler_release_channel(s).scheduler_state = "IDLE"
           /\ ~scheduler_release_channel(s).pending
<1>1. /\ SameButSched(s, MakePending(s))
      /\ MakePending(s).scheduler_state = "PENDING" /\ MakePending(s).pending
    BY DEF SameButSched, ChanType, MakePending
<1>2. ASSUME NEW v \in {"IDLE", "WAITING_FOR_CELLS", "WAITING_TO_WRITE", "PENDING"}
      PROVE  SameButSched(s, [s EXCEPT !.scheduler_state = v])
    BY DEF SameButSched, ChanType
<1>3. SameButSched(s, s)
    BY DEF SameButSched
<1>4. SameButSched(s, scheduler_channel_has_waiting_cells(s))
    BY <1>1, <1>2, <1>3 DEF scheduler_channel_has_waiting_cells
<1>5. SameButSched(s, scheduler_channel_wants_writes(s))
    BY <1>1, <1>2, <1>3 DEF scheduler_channel_wants_writes
<1>6. /\ SameButSched(s, scheduler_release_channel(s))
      /\ scheduler_release_channel(s).scheduler_state = "IDLE"
      /\ ~scheduler_release_channel(s).pending
    BY DEF SameButSched, ChanType, scheduler_release_channel
<1> QED
    BY <1>1, <1>4, <1>5, <1>6

\* scheduler_channel_has_waiting_cells, by the state it finds.
LEMMA HasWaiting ==
    ASSUME NEW s \in ChanType, NEW t, t = scheduler_channel_has_waiting_cells(s)
    PROVE  \/ s.scheduler_state = "WAITING_FOR_CELLS" /\ t.scheduler_state = "PENDING" /\ t.pending
           \/ /\ s.scheduler_state = "IDLE" /\ t.scheduler_state = "WAITING_TO_WRITE"
              /\ t.pending = s.pending
           \/ /\ s.scheduler_state \in {"PENDING", "WAITING_TO_WRITE"}
              /\ t = s
<1>1. CASE s.scheduler_state = "WAITING_FOR_CELLS"
    BY <1>1, SchedEffect DEF scheduler_channel_has_waiting_cells
<1>2. CASE s.scheduler_state = "IDLE"
    BY <1>2 DEF scheduler_channel_has_waiting_cells, ChanType
<1>3. CASE s.scheduler_state \in {"PENDING", "WAITING_TO_WRITE"}
    BY <1>3 DEF scheduler_channel_has_waiting_cells
<1> QED
    BY <1>1, <1>2, <1>3 DEF ChanType

\* scheduler_channel_wants_writes, by the state it finds.
LEMMA WantsWrites ==
    ASSUME NEW s \in ChanType, NEW t, t = scheduler_channel_wants_writes(s)
    PROVE  \/ s.scheduler_state = "WAITING_TO_WRITE" /\ t.scheduler_state = "PENDING" /\ t.pending
           \/ /\ s.scheduler_state = "IDLE" /\ t.scheduler_state = "WAITING_FOR_CELLS"
              /\ t.pending = s.pending
           \/ /\ s.scheduler_state \in {"PENDING", "WAITING_FOR_CELLS"}
              /\ t = s
<1>1. CASE s.scheduler_state = "WAITING_TO_WRITE"
    BY <1>1, SchedEffect DEF scheduler_channel_wants_writes
<1>2. CASE s.scheduler_state = "IDLE"
    BY <1>2 DEF scheduler_channel_wants_writes, ChanType
<1>3. CASE s.scheduler_state \in {"PENDING", "WAITING_FOR_CELLS"}
    BY <1>3 DEF scheduler_channel_wants_writes
<1> QED
    BY <1>1, <1>2, <1>3 DEF ChanType

\* A table of circuits with one cell_count changed.
CountRec(f, c, n) == [f EXCEPT ![c] = [@ EXCEPT !.cell_count = n]]

\* circuitmux_set_num_cells keeps the counters exact.
LEMMA SetNumCells ==
    ASSUME CountingLaws, NEW s \in ChanType, NEW c \in Circs, NEW n \in Nat,
           s.circ[c].cell_count \in Nat, NEW t, t = circuitmux_set_num_cells(s, c, n)
    PROVE  /\ t \in ChanType
           /\ t.state = s.state /\ t.scheduler_state = s.scheduler_state
           /\ t.pending = s.pending /\ t.outbuf = s.outbuf
           /\ t.destroys = s.destroys /\ t.map = s.map
           /\ t.circ = CountRec(s.circ, c, n)
           /\ t.n_cells = s.n_cells - s.circ[c].cell_count + n
           /\ CountOK(s) => CountOK(t)
<1> DEFINE r == [s.circ[c] EXCEPT !.cell_count = n]
           f == [s.circ EXCEPT ![c] = r]
           na == s.n_active + IsActive(n) - IsActive(s.circ[c].cell_count)
           nc == s.n_cells - s.circ[c].cell_count + n
<1>a. r \in CircType /\ r.cell_count = n
    BY DEF ChanType, CircType
<1>b. f \in [Circs -> CircType] /\ f[c] = r /\ \A x \in Circs \ {c} : f[x] = s.circ[x]
    BY <1>a DEF ChanType
<1>c. nc \in Int /\ na \in Int
    BY DEF ChanType, IsActive
<1>d. t = [s EXCEPT !.circ = f, !.n_cells = nc, !.n_active = na]
    BY DEF circuitmux_set_num_cells, ChanType
<1> HIDE DEF f, nc, na
<1>1. /\ t \in ChanType
      /\ t.state = s.state /\ t.scheduler_state = s.scheduler_state
      /\ t.pending = s.pending /\ t.outbuf = s.outbuf
      /\ t.destroys = s.destroys /\ t.map = s.map
      /\ t.circ = f /\ t.n_cells = nc /\ t.n_active = na
    BY <1>b, <1>c, <1>d DEF ChanType
<1>2. CountOK(s) => CountOK(t)
  <2>1. /\ t.circ[c].cell_count = n
        /\ \A x \in Circs \ {c} : t.circ[x].cell_count = s.circ[x].cell_count
      BY <1>1, <1>a, <1>b
  <2>2. s.n_cells \in Int /\ s.n_active \in Int
      BY DEF ChanType
  <2>3. /\ t.n_cells = s.n_cells - Size(s.circ[c].cell_count) + Size(t.circ[c].cell_count)
        /\ t.n_active = s.n_active - IsActive(s.circ[c].cell_count)
                                   + IsActive(t.circ[c].cell_count)
      BY <1>1, <2>1, <2>2 DEF Size, IsActive, nc, na
  <2> QED
      BY <1>1, <2>1, <2>3, Recount
<1>3. t.circ = CountRec(s.circ, c, n)
    BY <1>1 DEF f, CountRec
<1> QED
    BY <1>1, <1>2, <1>3 DEF nc

-----------------------------------------------------------------------------
(* Circuits and ids of one channel. *)

\* What CircOK asks of the record r of a circuit on a channel.
Legal(s, r) ==
  /\ r.cell_count # Detached
  /\ \/ r.cell_count = r.queue
     \/ r.marked /\ r.queue = 0
     \/ Condemned(s) /\ r.queue < r.cell_count
  /\ r.blocked /\ ~r.marked /\ ~Condemned(s) => r.queue > CellqLow

\* A circuit's rules only look at some of its fields.
LEMMA SameLegal ==
    ASSUME NEW s, NEW r, NEW t, NEW q, Legal(s, r), t.state = s.state,
           q.cell_count = r.cell_count, q.queue = r.queue, q.marked = r.marked,
           q.blocked = r.blocked
    PROVE  Legal(t, q)
BY DEF Legal, Condemned

\* CircOK and IdsOK, put together from their parts.
CircuitOK(s, c) ==
  IF s.circ[c].id = 0 THEN s.circ[c] = NoCirc
  ELSE s.map[s.circ[c].id] = c /\ Legal(s, s.circ[c])

\* CircOK, circuit by circuit.
LEMMA CircOKParts ==
    ASSUME NEW s
    PROVE  CircOK(s) <=>
             /\ \A c \in Circs : CircuitOK(s, c)
             /\ \A i \in Ids : s.map[i] \in Circs => s.circ[s.map[i]].id = i
             /\ s.state \in {"OPENING", "CLOSED", "FREED"} =>
                  \A c \in Circs : s.circ[c].id = 0
BY DEF CircOK, CircuitOK, Legal

\* An entry of the destroy queue is backed by the map.
Backed(s, i) ==
  \/ s.map[i] = Placeholder
  \/ s.map[i] \in Circs /\ s.circ[s.map[i]].delete_pending

\* No DESTROY is queued twice.
Distinct(q) == \A j, k \in DOMAIN q : q[j] = q[k] => j = k

\* IdsOK of a channel that has been opened.
LEMMA IdsOKParts ==
    ASSUME NEW s, s.state # "OPENING"
    PROVE  IdsOK(s) <=>
             /\ Distinct(s.destroys)
             /\ \A i \in Queued(s) : Backed(s, i)
             /\ Open(s) => \A i \in Ids : s.map[i] = Placeholder => i \in Queued(s)
             /\ Open(s) =>
                  \A c \in Circs : s.circ[c].delete_pending => s.circ[c].id \in Queued(s)
BY DEF IdsOK, Backed, Distinct

\* The destroy queue holds ids.
LEMMA QueuedIds == ASSUME NEW s \in ChanType PROVE Queued(s) \subseteq Ids
<1>1. s.destroys \in Seq(Ids)
    BY DEF ChanType
<1> QED
    BY <1>1 DEF Queued

\* What is known of a circuit that is on its channel ...
LEMMA OnChannel ==
    ASSUME NEW s \in ChanType, CircOK(s), NEW c \in Circs, s.circ[c].id # 0
    PROVE  /\ s.circ[c].id \in Ids /\ s.map[s.circ[c].id] = c
           /\ s.circ[c].cell_count \in Nat /\ s.circ[c].queue \in Nat
           /\ Legal(s, s.circ[c])
           /\ s.state \in {"OPEN", "CLOSING"}
<1>1. /\ s.circ[c] \in CircType
      /\ s.state \in {"OPENING", "OPEN", "CLOSING", "CLOSED", "FREED"}
    BY DEF ChanType
<1>2. /\ s.circ[c].cell_count # Detached /\ s.map[s.circ[c].id] = c
      /\ Legal(s, s.circ[c])
    BY DEF CircOK, Legal
<1>3. s.state \notin {"OPENING", "CLOSED", "FREED"}
    BY DEF CircOK
<1> QED
    BY <1>1, <1>2, <1>3 DEF CircType

\* ... and of a slot without a circuit.
LEMMA OffChannel ==
    ASSUME NEW s \in ChanType, CircOK(s), NEW c \in Circs, s.circ[c].id = 0
    PROVE  /\ s.circ[c] = NoCirc /\ s.circ[c].queue = 0 /\ s.circ[c].cell_count = Detached
           /\ ~s.circ[c].marked /\ ~s.circ[c].blocked /\ ~s.circ[c].delete_pending
<1>1. s.circ[c] = NoCirc
    BY DEF CircOK
<1> QED
    BY <1>1 DEF NoCirc

\* The record of one circuit changes, and nothing else of what the circuits
\* and the map say.
LEMMA ChangeCircuit ==
    ASSUME NEW s \in ChanType, NEW t \in ChanType, CircOK(s), IdsOK(s),
           NEW c \in Circs, NEW r \in CircType, s.circ[c].id # 0,
           t.state = s.state, t.map = s.map, t.destroys = s.destroys,
           t.circ[c] = r, \A x \in Circs \ {c} : t.circ[x] = s.circ[x],
           r.id = s.circ[c].id, r.delete_pending = s.circ[c].delete_pending,
           Legal(s, r)
    PROVE  CircOK(t) /\ IdsOK(t)
<1>2. \A x \in Circs : t.circ[x].id = s.circ[x].id
                       /\ t.circ[x].delete_pending = s.circ[x].delete_pending
    OBVIOUS
<1>3. CircOK(t)
  <2>1. ASSUME NEW x \in Circs
        PROVE IF t.circ[x].id = 0 THEN t.circ[x] = NoCirc
              ELSE t.map[t.circ[x].id] = x /\ Legal(t, t.circ[x])
    <3>1. CASE x = c
        BY <3>1, OnChannel DEF Legal, Condemned
    <3>2. CASE x # c
        BY <3>2 DEF CircOK, Legal, Condemned
    <3> QED
        BY <3>1, <3>2
  <2>2. \A i \in Ids : t.map[i] \in Circs => t.circ[t.map[i]].id = i
      BY <1>2 DEF CircOK
  <2>3. t.state \in {"OPENING", "CLOSED", "FREED"} => \A x \in Circs : t.circ[x].id = 0
      BY <1>2 DEF CircOK
  <2> QED
      BY <2>1, <2>2, <2>3 DEF CircOK, Legal
<1>4. IdsOK(t)
    BY <1>2 DEF IdsOK, Queued, Open
<1> QED
    BY <1>3, <1>4

\* append_cell_to_circuit_queue on one channel: a cell is queued and counted,
\* and the scheduler is told.
LEMMA QueueCellEffect ==
    ASSUME CountingLaws, NEW s \in ChanType, CircuitsOK(s), NEW c \in Circs,
           s.circ[c].id # 0, ~s.circ[c].marked, NEW t, t = QueueCell(s, c)
    PROVE  /\ t \in ChanType /\ CircuitsOK(t)
           /\ t.state = s.state /\ t.outbuf = s.outbuf
           /\ \A x \in Circs : /\ t.circ[x].marked = s.circ[x].marked
                               /\ t.circ[x].delete_pending = s.circ[x].delete_pending
           /\ \/ /\ s.scheduler_state = "WAITING_FOR_CELLS"
                 /\ t.scheduler_state = "PENDING" /\ t.pending
              \/ /\ s.scheduler_state = "IDLE" /\ t.scheduler_state = "WAITING_TO_WRITE"
                 /\ t.pending = s.pending
              \/ /\ s.scheduler_state \in {"PENDING", "WAITING_TO_WRITE"}
                 /\ t.scheduler_state = s.scheduler_state /\ t.pending = s.pending
<1> DEFINE n == s.circ[c].queue + 1
           b == s.circ[c].blocked \/ n >= CellqHigh
           r == [s.circ[c] EXCEPT !.queue = n, !.blocked = b]
           u == [s EXCEPT !.circ = [s.circ EXCEPT ![c] = r]]
           v == circuitmux_set_num_cells(u, c, n)
<1>1. s.circ[c] \in CircType /\ s.circ[c].cell_count \in Nat /\ s.circ[c].queue \in Nat
      /\ Legal(s, s.circ[c])
    BY OnChannel DEF CircuitsOK, ChanType
<1>2. n \in Nat /\ b \in BOOLEAN
    BY <1>1 DEF CircType
<1>3. /\ r \in CircType /\ r.queue = n /\ r.blocked = b
      /\ r.id = s.circ[c].id /\ r.cell_count = s.circ[c].cell_count
      /\ r.marked = s.circ[c].marked /\ r.delete_pending = s.circ[c].delete_pending
    BY <1>1, <1>2 DEF CircType
<1>4. /\ [s.circ EXCEPT ![c] = r] \in [Circs -> CircType]
      /\ [s.circ EXCEPT ![c] = r][c] = r
      /\ \A x \in Circs \ {c} : [s.circ EXCEPT ![c] = r][x] = s.circ[x]
    BY <1>3 DEF ChanType
<1>5. t = scheduler_channel_has_waiting_cells(v)
    BY DEF QueueCell, ChanType
<1> HIDE DEF r, b
<1>6. /\ u \in ChanType /\ u.state = s.state /\ u.scheduler_state = s.scheduler_state
      /\ u.pending = s.pending /\ u.outbuf = s.outbuf
      /\ u.destroys = s.destroys /\ u.map = s.map /\ u.n_cells = s.n_cells
      /\ u.n_active = s.n_active /\ u.circ = [s.circ EXCEPT ![c] = r]
    BY <1>4 DEF ChanType
<1> HIDE DEF u, n
<1>7. CountOK(u)
  <2>1. \A x \in Circs : u.circ[x].cell_count = s.circ[x].cell_count
      BY <1>3, <1>4, <1>6
  <2>2. Counted(u) = Counted(s) /\ Active(u) = Active(s)
      BY <2>1 DEF Counted, Active
  <2> QED
      BY <2>2, <1>6 DEF CountOK, CircuitsOK
<1> DEFINE q == [r EXCEPT !.cell_count = n]
<1>8. /\ v \in ChanType /\ v.state = s.state /\ v.scheduler_state = s.scheduler_state
      /\ v.pending = s.pending /\ v.outbuf = s.outbuf
      /\ v.destroys = s.destroys /\ v.map = s.map
      /\ v.circ = CountRec(u.circ, c, n)
      /\ CountOK(v)
    BY <1>1, <1>2, <1>3, <1>4, <1>6, <1>7, SetNumCells
<1> HIDE DEF v
<1>9. /\ q \in CircType /\ q.id = r.id /\ q.queue = n /\ q.cell_count = n /\ q.blocked = b
      /\ q.marked = r.marked /\ q.delete_pending = r.delete_pending
    BY <1>2, <1>3 DEF CircType
<1>10. v.circ[c] = q /\ \A x \in Circs \ {c} : v.circ[x] = s.circ[x]
    BY <1>4, <1>6, <1>8 DEF ChanType, CountRec
<1>11. Legal(s, q)
  <2>1. b => q.queue > CellqLow \/ Condemned(s)
      BY <1>1, <1>3, <1>9, ChannelsAssumption DEF Legal, b, n
  <2> QED
      BY <1>2, <1>9, <2>1 DEF Legal, Detached
<1> HIDE DEF q
<1>12. CircOK(v) /\ IdsOK(v)
  <2>1. /\ v \in ChanType /\ v.state = s.state /\ v.map = s.map /\ v.destroys = s.destroys
        /\ CircOK(s) /\ IdsOK(s)
      BY <1>8 DEF CircuitsOK
  <2>2. q \in CircType /\ q.id = s.circ[c].id /\ q.delete_pending = s.circ[c].delete_pending
      BY <1>3, <1>9
  <2> QED
      BY <2>1, <2>2, <1>10, <1>11, ChangeCircuit
<1>13. \A x \in Circs : /\ v.circ[x].marked = s.circ[x].marked
                        /\ v.circ[x].delete_pending = s.circ[x].delete_pending
    BY <1>3, <1>9, <1>10 DEF ChanType
<1>14. SameButSched(v, t)
    BY <1>5, <1>8, SchedEffect
<1>15. CircuitsOK(t)
    BY <1>8, <1>12, <1>14, Frame DEF CircuitsOK, SameButSched
<1>16. \/ /\ s.scheduler_state = "WAITING_FOR_CELLS"
          /\ t.scheduler_state = "PENDING" /\ t.pending
       \/ /\ s.scheduler_state = "IDLE" /\ t.scheduler_state = "WAITING_TO_WRITE"
          /\ t.pending = s.pending
       \/ /\ s.scheduler_state \in {"PENDING", "WAITING_TO_WRITE"}
          /\ t.scheduler_state = s.scheduler_state /\ t.pending = s.pending
    BY <1>5, <1>8, HasWaiting
<1> QED
    BY <1>8, <1>13, <1>14, <1>15, <1>16 DEF SameButSched

\* An empty slot has the type of a circuit.
LEMMA NoCircType == NoCirc \in CircType
BY DEF NoCirc, CircType, Detached

\* circuit_set_circid_chan
LEMMA SetCircid ==
    ASSUME CountingLaws, NEW s \in ChanType, CircuitsOK(s), NEW c \in Circs, NEW id \in Ids, Open(s),
           s.circ[c].id = 0, s.map[id] = Unused,
           NEW t, t = circuit_set_circid_chan(s, c, id)
    PROVE  /\ t \in ChanType /\ CircuitsOK(t)
           /\ t.state = s.state /\ t.outbuf = s.outbuf /\ t.n_cells = s.n_cells
           /\ t.scheduler_state = s.scheduler_state /\ t.pending = s.pending
           /\ t.circ[c].id # 0
           /\ \A x \in Circs : /\ t.circ[x].marked = s.circ[x].marked
                               /\ t.circ[x].delete_pending = s.circ[x].delete_pending
<1> DEFINE r == [NoCirc EXCEPT !.id = id, !.cell_count = 0]
           f == [s.circ EXCEPT ![c] = r]
           m == [s.map EXCEPT ![id] = c]
<1>1. /\ r \in CircType /\ r.id = id /\ r.cell_count = 0 /\ r.queue = 0
      /\ ~r.marked /\ ~r.blocked /\ ~r.delete_pending
    BY DEF NoCirc, CircType
<1>2. f \in [Circs -> CircType] /\ f[c] = r /\ \A x \in Circs \ {c} : f[x] = s.circ[x]
    BY <1>1 DEF ChanType
<1>3. /\ m \in [Ids -> Circs \cup {Unused, Placeholder}]
      /\ m[id] = c /\ \A i \in Ids \ {id} : m[i] = s.map[i]
    BY DEF ChanType
<1>4. t = [s EXCEPT !.circ = f, !.map = m]
    BY DEF circuit_set_circid_chan, ChanType
<1> HIDE DEF f, m, r
<1>5. /\ t \in ChanType /\ t.circ = f /\ t.map = m /\ t.destroys = s.destroys
      /\ t.state = s.state /\ t.outbuf = s.outbuf /\ t.n_cells = s.n_cells
      /\ t.n_active = s.n_active
      /\ t.scheduler_state = s.scheduler_state /\ t.pending = s.pending
    BY ONLY <1>2, <1>3, <1>4, s \in ChanType, ZenonT(30) DEF ChanType
<1>6. /\ s.circ[c].cell_count = Detached
      /\ ~s.circ[c].marked /\ ~s.circ[c].delete_pending
    BY OffChannel DEF CircuitsOK
<1>n. id # 0 /\ 0 \notin Circs /\ -1 \notin Circs /\ 0 \notin Ids
    BY ChannelsAssumption
<1>7. CircOK(t)
  <2>1. ASSUME NEW x \in Circs
        PROVE IF t.circ[x].id = 0 THEN t.circ[x] = NoCirc
              ELSE t.map[t.circ[x].id] = x /\ Legal(t, t.circ[x])
    <3>1. CASE x = c
        BY <3>1, <1>1, <1>2, <1>3, <1>5, <1>n DEF Legal, Detached
    <3>2. CASE x # c /\ s.circ[x].id = 0
        BY <3>2, <1>2, <1>5, OffChannel DEF CircuitsOK
    <3>3. CASE x # c /\ s.circ[x].id # 0
      <4>1. s.circ[x].id \in Ids /\ s.map[s.circ[x].id] = x /\ Legal(s, s.circ[x])
          BY <3>3, OnChannel DEF CircuitsOK
      <4>2. s.circ[x].id # id
          BY <4>1, <1>n DEF Unused
      <4> QED
          BY <3>3, <4>1, <4>2, <1>2, <1>3, <1>5 DEF Legal, Condemned
    <3> QED
        BY <3>1, <3>2, <3>3
  <2>2. ASSUME NEW i \in Ids, t.map[i] \in Circs PROVE t.circ[t.map[i]].id = i
    <3>1. CASE i = id
        BY <3>1, <1>1, <1>2, <1>3, <1>5
    <3>2. CASE i # id
      <4>1. t.map[i] = s.map[i] /\ s.circ[s.map[i]].id = i
          BY <3>2, <2>2, <1>3, <1>5 DEF CircuitsOK, CircOK
      <4>2. s.map[i] # c
          BY <4>1, <1>n
      <4> QED
          BY <2>2, <4>1, <4>2, <1>2, <1>5
    <3> QED
        BY <3>1, <3>2
  <2> QED
      BY <2>1, <2>2, <1>5 DEF CircOK, Legal, Open
<1>8. CountOK(t)
  <2>1. /\ \A x \in Circs \ {c} : t.circ[x].cell_count = s.circ[x].cell_count
        /\ t.circ[c].cell_count = 0
      BY <1>1, <1>2, <1>5
  <2>2. s.n_cells \in Int /\ s.n_active \in Int /\ CountOK(s)
      BY DEF ChanType, CircuitsOK
  <2> QED
      BY <2>1, <2>2, <1>5, <1>6, Recount DEF Size, IsActive, Detached
<1>9. IdsOK(t)
  <2>1. id \notin Queued(s)
      BY <1>n DEF CircuitsOK, IdsOK, Unused, Placeholder
  <2>2. Queued(t) = Queued(s)
      BY <1>5 DEF Queued
  <2>3. Queued(s) \subseteq Ids
      BY DEF Queued, ChanType
  <2>4. ASSUME NEW i \in Queued(t)
        PROVE  \/ t.map[i] = Placeholder
               \/ t.map[i] \in Circs /\ t.circ[t.map[i]].delete_pending
    <3>1. i \in Ids /\ t.map[i] = s.map[i]
        BY <2>1, <2>2, <2>3, <1>3, <1>5
    <3>2. \/ s.map[i] = Placeholder
          \/ s.map[i] \in Circs /\ s.circ[s.map[i]].delete_pending
        BY <2>2 DEF CircuitsOK, IdsOK
    <3> QED
        BY <3>1, <3>2, <1>2, <1>5, <1>6
  <2>5. \A i \in Ids : t.map[i] = Placeholder => i \in Queued(t)
    <3>1. Placeholder # c
        BY <1>n DEF Placeholder
    <3> QED
        BY <3>1, <1>3, <1>5, <2>2 DEF CircuitsOK, IdsOK
  <2>6. \A x \in Circs : t.circ[x].delete_pending => t.circ[x].id \in Queued(t)
      BY <1>1, <1>2, <1>5, <2>2 DEF CircuitsOK, IdsOK
  <2>7. \A j, k \in DOMAIN t.destroys : t.destroys[j] = t.destroys[k] => j = k
      BY <1>5 DEF CircuitsOK, IdsOK
  <2> QED
      BY <2>4, <2>5, <2>6, <2>7, <1>5 DEF IdsOK, Open
<1>10. \A x \in Circs : /\ t.circ[x].marked = s.circ[x].marked
                        /\ t.circ[x].delete_pending = s.circ[x].delete_pending
  <2>1. r \in CircType /\ s.circ \in [Circs -> CircType]
      BY <1>1 DEF ChanType
  <2> QED
      BY <2>1, <1>1, <1>2, <1>5, <1>6 DEF CircType
<1> QED
    BY <1>1, <1>2, <1>5, <1>7, <1>8, <1>9, <1>10, <1>n DEF CircuitsOK

\* circuit_set_[np]_circid_chan(circ, 0, NULL)
LEMMA LeavesChannel ==
    ASSUME CountingLaws, NEW s \in ChanType, CircuitsOK(s), NEW c \in Circs, s.circ[c].id # 0,
           NEW t, t = LeaveChannel(s, c)
    PROVE  /\ t \in ChanType /\ CircuitsOK(t)
           /\ t.state = s.state /\ t.outbuf = s.outbuf /\ t.destroys = s.destroys
           /\ s.n_cells = 0 => t.n_cells = 0
           /\ t.scheduler_state = s.scheduler_state /\ t.pending = s.pending
           /\ t.circ[c] = NoCirc /\ \A x \in Circs \ {c} : t.circ[x] = s.circ[x]
<1> DEFINE id == s.circ[c].id
           old == s.circ[c].cell_count
           p == IF s.circ[c].delete_pending THEN Placeholder ELSE Unused
           v == circuitmux_set_num_cells(s, c, 0)
           f == [s.circ EXCEPT ![c] = NoCirc]
           m == [s.map EXCEPT ![id] = p]
<1>1. id \in Ids /\ old \in Nat /\ s.map[id] = c /\ s.state \in {"OPEN", "CLOSING"}
    BY OnChannel DEF CircuitsOK
<1>2. f \in [Circs -> CircType] /\ f[c] = NoCirc /\ \A x \in Circs \ {c} : f[x] = s.circ[x]
    BY NoCircType DEF ChanType
<1>3. /\ m \in [Ids -> Circs \cup {Unused, Placeholder}]
      /\ m[id] = p /\ \A i \in Ids \ {id} : m[i] = s.map[i]
    BY <1>1 DEF ChanType
<1>4. /\ v \in ChanType /\ v.state = s.state /\ v.scheduler_state = s.scheduler_state
      /\ v.pending = s.pending /\ v.outbuf = s.outbuf
      /\ v.destroys = s.destroys /\ v.map = s.map
      /\ v.circ = CountRec(s.circ, c, 0)
      /\ v.n_cells = s.n_cells - old + 0
      /\ CountOK(v)
    BY <1>1, SetNumCells DEF CircuitsOK
<1>a. /\ v.circ[c].cell_count = 0
      /\ \A x \in Circs \ {c} : v.circ[x].cell_count = s.circ[x].cell_count
  <2>1. s.circ \in [Circs -> CircType]
      BY DEF ChanType
  <2> QED
      BY <2>1, <1>4 DEF CircType, CountRec
<1> DEFINE g == [v.circ EXCEPT ![c] = [@ EXCEPT !.cell_count = Detached]]
           w == [v EXCEPT !.circ = g]
<1>5. t = [w EXCEPT !.circ = [w.circ EXCEPT ![c] = NoCirc], !.map = [w.map EXCEPT ![id] = p]]
  <2>1. old # Detached
      BY <1>1 DEF Detached
  <2>2. circuitmux_detach_circuit(s, c) = w
      BY <2>1 DEF circuitmux_detach_circuit
  <2> HIDE DEF w, p
  <2> QED
      BY <2>2 DEF LeaveChannel, p
<1> HIDE DEF v, p
<1>b. [g EXCEPT ![c] = NoCirc] = f
    BY <1>4, <1>2 DEF ChanType, CountRec
<1> HIDE DEF g
<1>6. /\ w.circ = g /\ w.map = s.map /\ w.destroys = s.destroys
      /\ w.state = s.state /\ w.outbuf = s.outbuf
      /\ w.n_cells = v.n_cells /\ w.n_active = v.n_active
      /\ w.scheduler_state = s.scheduler_state /\ w.pending = s.pending
      /\ w.last_was_destroy = v.last_was_destroy
      /\ DOMAIN w = DOMAIN v
    BY <1>4 DEF ChanType
<1>c. t = [v EXCEPT !.circ = f, !.map = m]
  <2>1. t = [w EXCEPT !.circ = f, !.map = m]
      BY <1>5, <1>6, <1>b
  <2> HIDE DEF f, m
  <2> QED
      BY <2>1, <1>4 DEF ChanType
<1> HIDE DEF f, m, w
<1>7. /\ t \in ChanType /\ t.circ = f /\ t.map = m /\ t.destroys = s.destroys
      /\ t.state = s.state /\ t.outbuf = s.outbuf
      /\ t.n_cells = v.n_cells /\ t.n_active = v.n_active
      /\ t.scheduler_state = s.scheduler_state /\ t.pending = s.pending
    BY ONLY <1>2, <1>3, <1>4, <1>c, s \in ChanType, ZenonT(30) DEF ChanType
<1>n. id # 0 /\ 0 \notin Circs /\ -1 \notin Circs /\ 0 \notin Ids
    BY ChannelsAssumption
<1>8. CountOK(t)
  <2>1. /\ \A x \in Circs \ {c} : t.circ[x].cell_count = v.circ[x].cell_count
        /\ t.circ[c].cell_count = Detached
      BY <1>2, <1>a, <1>7 DEF NoCirc
  <2>2. v.n_cells \in Int /\ v.n_active \in Int
      BY <1>4 DEF ChanType
  <2>3. v.circ[c].cell_count = 0 /\ t.n_cells = v.n_cells /\ t.n_active = v.n_active
      BY <1>a, <1>7
  <2>4. /\ t.n_cells = v.n_cells - Size(v.circ[c].cell_count) + Size(t.circ[c].cell_count)
        /\ t.n_active = v.n_active - IsActive(v.circ[c].cell_count)
                                   + IsActive(t.circ[c].cell_count)
      BY <2>1, <2>2, <2>3 DEF Size, IsActive, Detached
  <2>5. v \in ChanType /\ CountOK(v) /\ t \in ChanType
      BY <1>4, <1>7
  <2> QED
      BY <2>1, <2>4, <2>5, Recount
<1>9. s.n_cells = 0 => t.n_cells = 0
  <2>1. t.n_cells \in Nat
      BY <1>7, <1>8, NoneActive
  <2>2. s.n_cells \in Int
      BY DEF ChanType
  <2>3. t.n_cells = s.n_cells - old + 0
      BY <1>4, <1>7
  <2>4. old \in Nat
      BY <1>1
  <2> HIDE DEF old
  <2> QED
      BY ONLY <2>1, <2>2, <2>3, <2>4, SMTT(30)
<1>10. CircOK(t)
  <2>1. ASSUME NEW x \in Circs
        PROVE IF t.circ[x].id = 0 THEN t.circ[x] = NoCirc
              ELSE t.map[t.circ[x].id] = x /\ Legal(t, t.circ[x])
    <3>1. CASE x = c
        BY <3>1, <1>2, <1>7 DEF NoCirc
    <3>2. CASE x # c /\ s.circ[x].id = 0
        BY <3>2, <1>2, <1>7, OffChannel DEF CircuitsOK
    <3>3. CASE x # c /\ s.circ[x].id # 0
      <4>1. s.circ[x].id \in Ids /\ s.map[s.circ[x].id] = x /\ Legal(s, s.circ[x])
          BY <3>3, OnChannel DEF CircuitsOK
      <4>2. s.circ[x].id # id
          BY <4>1, <1>1, <3>3
      <4> QED
          BY <3>3, <4>1, <4>2, <1>2, <1>3, <1>7 DEF Legal, Condemned
    <3> QED
        BY <3>1, <3>2, <3>3
  <2>2. ASSUME NEW i \in Ids, t.map[i] \in Circs PROVE t.circ[t.map[i]].id = i
    <3>1. i # id
        BY <2>2, <1>3, <1>7, <1>n DEF p, Placeholder, Unused
    <3>2. t.map[i] = s.map[i] /\ s.circ[s.map[i]].id = i
        BY <3>1, <2>2, <1>3, <1>7 DEF CircuitsOK, CircOK
    <3>3. s.map[i] # c
        BY <3>1, <3>2
    <3> QED
        BY <2>2, <3>2, <3>3, <1>2, <1>7
  <2> QED
      BY <2>1, <2>2, <1>1, <1>7 DEF CircOK, Legal
<1>11. IdsOK(t)
  <2>1. Queued(t) = Queued(s) /\ Queued(s) \subseteq Ids
      BY <1>7 DEF Queued, ChanType
  <2>2. ASSUME NEW i \in Queued(t)
        PROVE  \/ t.map[i] = Placeholder
               \/ t.map[i] \in Circs /\ t.circ[t.map[i]].delete_pending
    <3>1. /\ i \in Ids
          /\ \/ s.map[i] = Placeholder
             \/ s.map[i] \in Circs /\ s.circ[s.map[i]].delete_pending
        BY <2>1 DEF CircuitsOK, IdsOK
    <3>2. CASE i = id
      <4>1. s.circ[c].delete_pending
          BY <3>1, <3>2, <1>1, <1>n DEF Placeholder
      <4> QED
          BY <4>1, <3>2, <1>3, <1>7 DEF p
    <3>3. CASE i # id
      <4>1. s.map[i] \in Circs => s.circ[s.map[i]].id = i
          BY <3>1 DEF CircuitsOK, CircOK
      <4>2. s.map[i] # c
          BY <4>1, <3>3
      <4> QED
          BY <4>2, <3>1, <3>3, <1>2, <1>3, <1>7
    <3> QED
        BY <3>2, <3>3
  <2>3. ASSUME Open(s), NEW i \in Ids, t.map[i] = Placeholder PROVE i \in Queued(t)
    <3>1. CASE i = id
      <4>1. s.circ[c].delete_pending
          BY <3>1, <2>3, <1>3, <1>7 DEF p, Unused, Placeholder
      <4> QED
          BY <4>1, <3>1, <2>1, <2>3 DEF CircuitsOK, IdsOK
    <3>2. CASE i # id
        BY <3>2, <2>1, <2>3, <1>3, <1>7 DEF CircuitsOK, IdsOK
    <3> QED
        BY <3>1, <3>2
  <2>4. ASSUME Open(s), NEW x \in Circs, t.circ[x].delete_pending
        PROVE  t.circ[x].id \in Queued(t)
    <3>1. x # c
        BY <2>4, <1>2, <1>7 DEF NoCirc
    <3> QED
        BY <3>1, <2>1, <2>4, <1>2, <1>7 DEF CircuitsOK, IdsOK
  <2>5. \A j, k \in DOMAIN t.destroys : t.destroys[j] = t.destroys[k] => j = k
      BY <1>7 DEF CircuitsOK, IdsOK
  <2> QED
      BY <2>2, <2>3, <2>4, <2>5, <1>1, <1>7 DEF IdsOK, Open
<1> QED
    BY <1>2, <1>7, <1>8, <1>9, <1>10, <1>11 DEF CircuitsOK

-----------------------------------------------------------------------------
(* Cells leave the circuits. *)

\* A channel with the record of one circuit replaced.
Put(s, c, r) == [s EXCEPT !.circ = [s.circ EXCEPT ![c] = r]]

\* s and t differ in the record of circuit c only.
SameButCircuit(s, t, c) ==
  /\ t \in ChanType /\ t.state = s.state /\ t.scheduler_state = s.scheduler_state
  /\ t.pending = s.pending /\ t.outbuf = s.outbuf
  /\ t.destroys = s.destroys /\ t.map = s.map /\ t.n_cells = s.n_cells
  /\ t.n_active = s.n_active /\ \A x \in Circs \ {c} : t.circ[x] = s.circ[x]

\* Only that circuit is different.
LEMMA PutCircuit ==
    ASSUME NEW s \in ChanType, NEW c \in Circs, NEW r \in CircType,
           NEW t, t = Put(s, c, r)
    PROVE  SameButCircuit(s, t, c) /\ t.circ[c] = r
<1> DEFINE f == [s.circ EXCEPT ![c] = r]
<1>1. f \in [Circs -> CircType] /\ f[c] = r /\ \A x \in Circs \ {c} : f[x] = s.circ[x]
    BY DEF ChanType
<1> HIDE DEF f
<1>2. /\ t \in ChanType /\ t.state = s.state /\ t.scheduler_state = s.scheduler_state
      /\ t.pending = s.pending /\ t.outbuf = s.outbuf
      /\ t.destroys = s.destroys /\ t.map = s.map /\ t.n_cells = s.n_cells
      /\ t.n_active = s.n_active /\ t.circ = f
    BY <1>1 DEF ChanType, f, Put
<1> QED
    BY <1>1, <1>2 DEF SameButCircuit

\* A change that keeps cell_count keeps the sums.
LEMMA CountKept ==
    ASSUME NEW s, NEW t, NEW c, CountOK(s), SameButCircuit(s, t, c),
           t.circ[c].cell_count = s.circ[c].cell_count
    PROVE  CountOK(t)
<1>1. \A x \in Circs : t.circ[x].cell_count = s.circ[x].cell_count
    BY DEF SameButCircuit
<1>2. Counted(t) = Counted(s) /\ Active(t) = Active(s)
    BY <1>1 DEF Counted, Active
<1> QED
    BY <1>2 DEF CountOK, SameButCircuit

\* The record of a circuit changes in a legal way and keeps its cell count.
LEMMA EditCircuit ==
    ASSUME NEW s \in ChanType, CircuitsOK(s), NEW c \in Circs, s.circ[c].id # 0,
           NEW t, SameButCircuit(s, t, c), t.circ[c] \in CircType,
           t.circ[c].id = s.circ[c].id,
           t.circ[c].delete_pending = s.circ[c].delete_pending,
           t.circ[c].cell_count = s.circ[c].cell_count, Legal(s, t.circ[c])
    PROVE  CircuitsOK(t)
<1>1. CountOK(t)
    BY CountKept DEF CircuitsOK
<1>2. t \in ChanType /\ t.state = s.state /\ t.map = s.map /\ t.destroys = s.destroys
      /\ \A x \in Circs \ {c} : t.circ[x] = s.circ[x]
    BY DEF SameButCircuit
<1>3. CircOK(t) /\ IdsOK(t)
    BY <1>2, ChangeCircuit DEF CircuitsOK
<1> QED
    BY <1>1, <1>3 DEF CircuitsOK

\* channel_mark_for_close takes the channel from the scheduler.
LEMMA MarkForClose ==
    ASSUME NEW s \in ChanType, CircuitsOK(s), SchedOK(s), NEW t, t = channel_mark_for_close(s)
    PROVE  /\ t \in ChanType /\ CircuitsOK(t) /\ SchedOK(t) /\ t.circ = s.circ
           /\ Condemned(s) => t = s
           /\ ~Condemned(s) =>
                t.state = "CLOSING" /\ t.scheduler_state = "IDLE" /\ ~t.pending
<1>1. CASE Condemned(s)
    BY <1>1 DEF channel_mark_for_close
<1>2. CASE ~Condemned(s)
  <2> DEFINE u == [s EXCEPT !.state = "CLOSING"]
  <2>1. /\ u \in ChanType /\ u.state = "CLOSING" /\ u.circ = s.circ /\ u.map = s.map
        /\ u.n_cells = s.n_cells /\ u.n_active = s.n_active /\ u.destroys = s.destroys
      BY DEF ChanType
  <2>2. t = scheduler_release_channel(u)
      BY <1>2 DEF channel_mark_for_close
  <2> HIDE DEF u
  <2>3. /\ t \in ChanType /\ t.state = "CLOSING" /\ t.circ = s.circ /\ t.map = s.map
        /\ t.n_cells = s.n_cells /\ t.n_active = s.n_active /\ t.destroys = s.destroys
        /\ t.scheduler_state = "IDLE" /\ ~t.pending
      BY <2>1, <2>2, SchedEffect DEF SameButSched
  <2>4. CircOK(t)
      BY <2>3 DEF CircuitsOK, CircOK, Condemned
  <2>5. CountOK(t)
      BY <2>3 DEF CircuitsOK, CountOK, Counted, Active
  <2>6. IdsOK(t)
      BY <2>3 DEF CircuitsOK, IdsOK, Queued, Open
  <2>7. SchedOK(t)
      BY <2>3 DEF SchedOK, Open
  <2> QED
      BY <1>2, <2>3, <2>4, <2>5, <2>6, <2>7 DEF CircuitsOK
<1> QED
    BY <1>1, <1>2

\* An iteration of the flushing loop may turn s into t.
Flushed(s, t) ==
  /\ t \in ChanType /\ CircuitsOK(t) /\ SchedOK(t)
  /\ \/ /\ t.state = s.state /\ t.scheduler_state = s.scheduler_state
        /\ t.pending = s.pending
     \/ Open(s) /\ t.state = "CLOSING" /\ t.scheduler_state = "IDLE" /\ ~t.pending
  /\ \A x \in Circs :
       /\ s.circ[x].marked => t.circ[x].marked
       /\ Open(s) => t.circ[x].marked = s.circ[x].marked
       /\ t.circ[x].delete_pending => s.circ[x].delete_pending

\* channel_write_packed_cell, whether it works or closes the channel.
LEMMA WriteCellOK ==
    ASSUME NEW s \in ChanType, CircuitsOK(s), SchedOK(s), Open(s), NEW t \in WriteCell(s)
    PROVE  Flushed(s, t)
<1>1. CASE t = [s EXCEPT !.outbuf = @ + Cell]
  <2> DEFINE n == s.outbuf + Cell
  <2>1. s.outbuf \in Nat /\ Cell \in Nat /\ n \in Nat /\ n >= s.outbuf
      BY ChannelsAssumption DEF ChanType
  <2>a. t = [s EXCEPT !.outbuf = n]
      BY <1>1
  <2> HIDE DEF n
  <2>2. /\ t \in ChanType /\ t.state = s.state /\ t.circ = s.circ /\ t.map = s.map
        /\ t.n_cells = s.n_cells /\ t.n_active = s.n_active /\ t.destroys = s.destroys
        /\ t.scheduler_state = s.scheduler_state /\ t.pending = s.pending
        /\ t.outbuf = n
      BY <2>a, <2>1 DEF ChanType
  <2>3. CircuitsOK(t)
      BY <2>2, Frame
  <2>4. SchedOK(t)
      BY <2>1, <2>2 DEF SchedOK, Open
  <2> QED
      BY <2>2, <2>3, <2>4 DEF Flushed
<1>2. CASE t = channel_mark_for_close(s)
    BY <1>2, MarkForClose DEF Flushed, Open, Condemned
<1> QED
    BY <1>1, <1>2 DEF WriteCell

\* Two parts of an iteration, one after the other.
LEMMA FlushedTrans ==
    ASSUME NEW s, NEW u, NEW t, Open(s), Flushed(s, u), u.state = s.state, Flushed(u, t)
    PROVE  Flushed(s, t)
BY DEF Flushed, Open

\* The first DESTROY leaves the queue.
PopDestroy(s) == [s EXCEPT !.destroys = Tail(@), !.last_was_destroy = TRUE]

\* Popping the destroy queue removes one id, which was there once.
LEMMA PopsDestroy ==
    ASSUME NEW s \in ChanType, IdsOK(s), s.destroys # <<>>, NEW t, t = PopDestroy(s)
    PROVE  /\ t \in ChanType /\ t.state = s.state /\ t.scheduler_state = s.scheduler_state
           /\ t.pending = s.pending /\ t.outbuf = s.outbuf /\ t.map = s.map
           /\ t.n_cells = s.n_cells /\ t.n_active = s.n_active /\ t.circ = s.circ
           /\ Head(s.destroys) \in Queued(s)
           /\ Queued(t) = Queued(s) \ {Head(s.destroys)}
           /\ Distinct(t.destroys)
<1> DEFINE q == s.destroys
           d == Tail(q)
<1>1. /\ q \in Seq(Ids) /\ q # <<>>
      /\ \A j, k \in DOMAIN q : q[j] = q[k] => j = k
    BY DEF ChanType, IdsOK
<1>2. /\ t \in ChanType /\ t.state = s.state /\ t.scheduler_state = s.scheduler_state
      /\ t.pending = s.pending /\ t.outbuf = s.outbuf /\ t.map = s.map
      /\ t.n_cells = s.n_cells /\ t.n_active = s.n_active /\ t.circ = s.circ
      /\ t.destroys = d
  <2>1. d \in Seq(Ids)
      BY <1>1
  <2> HIDE DEF d
  <2>2. t = [s EXCEPT !.destroys = d, !.last_was_destroy = TRUE]
      BY DEF d, PopDestroy
  <2> QED
      BY <2>1, <2>2 DEF ChanType
<1>3. /\ DOMAIN q = 1 .. Len(q) /\ Len(q) \in Nat /\ Len(q) >= 1
      /\ DOMAIN d = 1 .. Len(q) - 1 /\ \A k \in DOMAIN d : d[k] = q[k + 1]
      /\ Head(q) = q[1]
    BY <1>1
<1> HIDE DEF d, q
<1>4. Head(q) \in Queued(s)
    BY <1>1, <1>3 DEF Queued, q
<1>5. Queued(t) = Queued(s) \ {Head(q)}
  <2>1. ASSUME NEW k \in DOMAIN d PROVE d[k] \in Queued(s) \ {Head(q)}
    <3>1. k + 1 \in DOMAIN q /\ k + 1 # 1 /\ 1 \in DOMAIN q /\ d[k] = q[k + 1]
        BY <1>3
    <3> QED
        BY <3>1, <1>1, <1>3 DEF Queued, q
  <2>2. ASSUME NEW k \in DOMAIN q, q[k] # Head(q) PROVE \E j \in DOMAIN d : d[j] = q[k]
    <3>1. k # 1 /\ k \in 1 .. Len(q)
        BY <2>2, <1>3
    <3>2. k - 1 \in DOMAIN d /\ d[k - 1] = q[k]
        BY <3>1, <1>3
    <3> QED
        BY <3>2
  <2> QED
      BY <2>1, <2>2, <1>2 DEF Queued, q
<1>6. ASSUME NEW j \in DOMAIN d, NEW k \in DOMAIN d, d[j] = d[k] PROVE j = k
  <2>1. /\ j \in Nat /\ k \in Nat /\ j + 1 \in DOMAIN q /\ k + 1 \in DOMAIN q
        /\ q[j + 1] = q[k + 1]
      BY <1>3, <1>6
  <2>2. j + 1 = k + 1
      BY <2>1, <1>1
  <2> QED
      BY <2>1, <2>2
<1> QED
    BY <1>2, <1>4, <1>5, <1>6 DEF q, Distinct

\* FlushDestroy on a channel that is not open: the cell is dropped.
LEMMA DropDestroy ==
    ASSUME NEW s \in ChanType, CircuitsOK(s), SchedOK(s), ~Open(s), s.destroys # <<>>,
           NEW t, t = PopDestroy(s)
    PROVE  Flushed(s, t)
<1>0. IdsOK(s)
    BY DEF CircuitsOK
<1>1. /\ t \in ChanType /\ t.state = s.state /\ t.scheduler_state = s.scheduler_state
      /\ t.pending = s.pending /\ t.outbuf = s.outbuf /\ t.map = s.map
      /\ t.n_cells = s.n_cells /\ t.n_active = s.n_active /\ t.circ = s.circ
      /\ Queued(t) = Queued(s) \ {Head(s.destroys)}
      /\ Distinct(t.destroys)
    BY <1>0, PopsDestroy
<1>2. CircOK(t)
    BY <1>1 DEF CircuitsOK, CircOK, Condemned
<1>3. CountOK(t)
    BY <1>1 DEF CircuitsOK, CountOK, Counted, Active
<1>4. IdsOK(t)
    BY <1>0, <1>1 DEF IdsOK, Open, Distinct
<1>5. SchedOK(t)
    BY <1>1 DEF SchedOK, Open
<1> QED
    BY <1>1, <1>2, <1>3, <1>4, <1>5 DEF Flushed, CircuitsOK, Open

\* FlushDestroy on an open channel, up to the write.  The circuit of the
\* DESTROY is still being freed: it has nothing pending any more.
LEMMA NoteCircuit ==
    ASSUME NEW s \in ChanType, CircuitsOK(s), SchedOK(s), Open(s),
           NEW id \in Queued(s), NEW c \in Circs, s.map[id] = c,
           NEW t \in ChanType, CountOK(t), t.state = s.state,
           t.scheduler_state = s.scheduler_state, t.pending = s.pending,
           t.outbuf = s.outbuf, t.map = s.map, t.n_cells = s.n_cells,
           Queued(t) = Queued(s) \ {id}, Distinct(t.destroys),
           \A x \in Circs \ {c} : t.circ[x] = s.circ[x],
           t.circ[c].id = s.circ[c].id, t.circ[c].queue = s.circ[c].queue,
           t.circ[c].cell_count = s.circ[c].cell_count,
           t.circ[c].marked = s.circ[c].marked, t.circ[c].blocked = s.circ[c].blocked,
           ~t.circ[c].delete_pending
    PROVE  Flushed(s, t)
<1>0. IdsOK(s) /\ CircOK(s)
    BY DEF CircuitsOK
<1>2. Queued(s) \subseteq Ids /\ id \in Ids /\ 0 \notin Ids /\ -1 \notin Circs
    BY QueuedIds, ChannelsAssumption
<1>3. /\ \A i \in Queued(s) : Backed(s, i)
      /\ \A i \in Ids : s.map[i] = Placeholder => i \in Queued(s)
      /\ \A x \in Circs : s.circ[x].delete_pending => s.circ[x].id \in Queued(s)
    BY <1>0, IdsOKParts DEF Open
<1>4. \A i \in Ids : s.map[i] \in Circs => s.circ[s.map[i]].id = i
    BY <1>0, CircOKParts
<1>5. s.circ[c].id = id /\ s.circ[c].id # 0
    BY <1>2, <1>4
<1>9. CircOK(t)
  <2>1. \A x \in Circs : CircuitOK(s, x)
      BY <1>0, CircOKParts
  <2>2. CircuitOK(t, c)
    <3>1. Legal(s, s.circ[c])
        BY <2>1, <1>5 DEF CircuitOK
    <3>2. Legal(t, t.circ[c])
        BY <3>1, SameLegal
    <3> QED
        BY <3>2, <1>5 DEF CircuitOK
  <2>3. ASSUME NEW x \in Circs \ {c} PROVE CircuitOK(t, x)
    <3>1. t.circ[x] = s.circ[x] /\ CircuitOK(s, x)
        BY <2>1
    <3>2. Legal(s, s.circ[x]) => Legal(t, t.circ[x])
        BY <3>1, SameLegal
    <3> QED
        BY <3>1, <3>2 DEF CircuitOK
  <2>4. ASSUME NEW i \in Ids, t.map[i] \in Circs PROVE t.circ[t.map[i]].id = i
    <3>1. s.circ[s.map[i]].id = i /\ s.map[i] \in Circs
        BY <2>4, <1>4
    <3> QED
        BY <3>1
  <2>5. t.state = "OPEN"
      BY DEF Open
  <2>6. \A x \in Circs : CircuitOK(t, x)
      BY <2>2, <2>3
  <2> QED
      BY <2>4, <2>5, <2>6, CircOKParts
<1>10. IdsOK(t)
  <2>2. ASSUME NEW i \in Queued(t) PROVE Backed(t, i)
    <3>1. i \in Queued(s) /\ i # id /\ i \in Ids
        BY <1>2
    <3>2. s.map[i] # c
        BY <3>1, <1>4, <1>5
    <3>3. Backed(s, i)
        BY <3>1, <1>3
    <3> QED
        BY <3>2, <3>3 DEF Backed
  <2>3. ASSUME NEW i \in Ids, t.map[i] = Placeholder PROVE i \in Queued(t)
    <3>1. i \in Queued(s)
        BY <2>3, <1>3
    <3>2. i # id
        BY <2>3, <1>2 DEF Placeholder
    <3> QED
        BY <3>1, <3>2
  <2>4. ASSUME NEW x \in Circs, t.circ[x].delete_pending PROVE t.circ[x].id \in Queued(t)
    <3>1. x # c /\ t.circ[x] = s.circ[x]
        BY <2>4
    <3>2. s.circ[x].id \in Queued(s)
        BY <2>4, <3>1, <1>3
    <3>3. s.map[s.circ[x].id] = x
        BY <3>2, <1>2, <1>0, OnChannel
    <3> QED
        BY <3>1, <3>2, <3>3
  <2>5. t.state # "OPENING"
      BY DEF Open
  <2> QED
      BY <2>2, <2>3, <2>4, <2>5, IdsOKParts
<1>11. SchedOK(t)
    BY DEF SchedOK, Open
<1>12. \A x \in Circs : /\ t.circ[x].marked = s.circ[x].marked
                        /\ t.circ[x].delete_pending => s.circ[x].delete_pending
    OBVIOUS
<1> QED
    BY <1>9, <1>10, <1>11, <1>12 DEF Flushed, CircuitsOK

\* ... or it has left the channel and the id is given back.
LEMMA NotePlaceholder ==
    ASSUME NEW s \in ChanType, CircuitsOK(s), SchedOK(s), Open(s),
           NEW id \in Queued(s), s.map[id] \notin Circs,
           NEW t \in ChanType, CountOK(t), t.state = s.state,
           t.scheduler_state = s.scheduler_state, t.pending = s.pending,
           t.outbuf = s.outbuf, t.circ = s.circ, t.n_cells = s.n_cells,
           Queued(t) = Queued(s) \ {id}, Distinct(t.destroys),
           t.map[id] = Unused, \A i \in Ids \ {id} : t.map[i] = s.map[i]
    PROVE  Flushed(s, t)
<1>0. IdsOK(s) /\ CircOK(s)
    BY DEF CircuitsOK
<1>2. Queued(s) \subseteq Ids /\ id \in Ids /\ 0 \notin Ids /\ 0 \notin Circs
    BY QueuedIds, ChannelsAssumption
<1>3. /\ \A i \in Queued(s) : Backed(s, i)
      /\ \A i \in Ids : s.map[i] = Placeholder => i \in Queued(s)
      /\ \A x \in Circs : s.circ[x].delete_pending => s.circ[x].id \in Queued(s)
    BY <1>0, IdsOKParts DEF Open
<1>4. \A i \in Ids : s.map[i] \in Circs => s.circ[s.map[i]].id = i
    BY <1>0, CircOKParts
<1>8. CircOK(t)
  <2>1. ASSUME NEW x \in Circs PROVE CircuitOK(t, x)
    <3>1. CircuitOK(s, x)
        BY <1>0, CircOKParts
    <3>2. CASE s.circ[x].id = 0
        BY <3>1, <3>2 DEF CircuitOK
    <3>3. CASE s.circ[x].id # 0
      <4>1. s.circ[x].id \in Ids /\ s.map[s.circ[x].id] = x /\ Legal(s, s.circ[x])
          BY <3>3, <1>0, OnChannel
      <4>2. t.map[s.circ[x].id] = x
          BY <4>1
      <4>3. Legal(t, t.circ[x])
          BY <4>1, SameLegal
      <4> QED
          BY <4>2, <4>3, <3>3 DEF CircuitOK
    <3> QED
        BY <3>2, <3>3
  <2>2. ASSUME NEW i \in Ids, t.map[i] \in Circs PROVE t.circ[t.map[i]].id = i
    <3>1. i # id
        BY <2>2, <1>2 DEF Unused
    <3> QED
        BY <2>2, <3>1, <1>4
  <2>3. t.state = "OPEN"
      BY DEF Open
  <2> QED
      BY <2>1, <2>2, <2>3, CircOKParts
<1>9. IdsOK(t)
  <2>2. ASSUME NEW i \in Queued(t) PROVE Backed(t, i)
    <3>1. i \in Queued(s) /\ i # id /\ i \in Ids
        BY <1>2
    <3> QED
        BY <3>1, <1>3 DEF Backed
  <2>3. ASSUME NEW i \in Ids, t.map[i] = Placeholder PROVE i \in Queued(t)
    <3>1. i # id
        BY <2>3 DEF Unused, Placeholder
    <3> QED
        BY <3>1, <2>3, <1>3
  <2>4. ASSUME NEW x \in Circs, t.circ[x].delete_pending PROVE t.circ[x].id \in Queued(t)
    <3>1. s.circ[x].id \in Queued(s)
        BY <2>4, <1>3
    <3>2. s.map[s.circ[x].id] = x
        BY <3>1, <1>0, <1>2, OnChannel
    <3> QED
        BY <3>1, <3>2
  <2>5. t.state # "OPENING"
      BY DEF Open
  <2> QED
      BY <2>2, <2>3, <2>4, <2>5, IdsOKParts
<1>10. SchedOK(t)
    BY DEF SchedOK, Open
<1> QED
    BY <1>8, <1>9, <1>10 DEF Flushed, CircuitsOK

\* An iteration of the flush loop that was given the destroy queue.
LEMMA FlushDestroyOK ==
    ASSUME NEW s \in ChanType, CircuitsOK(s), SchedOK(s), s.destroys # <<>>,
           NEW t \in FlushDestroy(s)
    PROVE  Flushed(s, t)
<1> DEFINE u == PopDestroy(s)
           id == Head(s.destroys)
           w == channel_note_destroy_not_pending(u, id)
<1>1. CASE ~Open(s)
    BY <1>1, DropDestroy DEF FlushDestroy, PopDestroy
<1>2. CASE Open(s)
  <2>0. IdsOK(s) /\ CircOK(s) /\ CountOK(s)
      BY DEF CircuitsOK
  <2>1. /\ u \in ChanType /\ u.state = s.state /\ u.scheduler_state = s.scheduler_state
        /\ u.pending = s.pending /\ u.outbuf = s.outbuf /\ u.map = s.map
        /\ u.n_cells = s.n_cells /\ u.n_active = s.n_active /\ u.circ = s.circ
        /\ id \in Queued(s) /\ Queued(u) = Queued(s) \ {id} /\ Distinct(u.destroys)
      BY <2>0, PopsDestroy
  <2>t. t \in WriteCell(w)
      BY <1>2 DEF FlushDestroy, PopDestroy
  <2>w. w = IF u.map[id] \in Circs THEN [u EXCEPT !.circ[u.map[id]].delete_pending = FALSE]
            ELSE [u EXCEPT !.map[id] = Unused]
      BY DEF channel_note_destroy_not_pending
  <2> HIDE DEF u, w, id
  <2>2. CountOK(u)
      BY <2>0, <2>1 DEF CountOK, Counted, Active
  <2>3. Flushed(s, w) /\ w.state = s.state
    <3>1. CASE s.map[id] \in Circs
      <4> DEFINE c == s.map[id]
                 r == [s.circ[c] EXCEPT !.delete_pending = FALSE]
      <4>1. /\ r \in CircType /\ r.id = s.circ[c].id /\ r.queue = s.circ[c].queue
            /\ r.cell_count = s.circ[c].cell_count /\ r.marked = s.circ[c].marked
            /\ r.blocked = s.circ[c].blocked /\ ~r.delete_pending
        <5>1. s.circ[c] \in CircType
            BY <3>1 DEF ChanType
        <5> QED
            BY <5>1 DEF CircType
      <4>2. w = Put(u, c, r)
          BY <3>1, <2>1, <2>w DEF Put
      <4> HIDE DEF r, c
      <4>3. /\ c \in Circs /\ s.map[id] = c /\ u.circ[c] = s.circ[c]
          BY <3>1, <2>1 DEF c
      <4>4. /\ w \in ChanType /\ w.state = s.state /\ w.scheduler_state = s.scheduler_state
            /\ w.pending = s.pending /\ w.outbuf = s.outbuf
            /\ w.destroys = u.destroys /\ w.map = s.map /\ w.n_cells = s.n_cells
            /\ w.circ[c] = r /\ \A x \in Circs \ {c} : w.circ[x] = s.circ[x]
            /\ CountOK(w)
        <5>1. u \in ChanType /\ r \in CircType /\ c \in Circs
            BY <2>1, <4>1, <4>3
        <5>2. SameButCircuit(u, w, c) /\ w.circ[c] = r
            BY <5>1, <4>2, PutCircuit
        <5>3. r.cell_count = u.circ[c].cell_count
            BY <4>1, <4>3
        <5>4. CountOK(w)
            BY <5>2, <5>3, <2>2, CountKept
        <5> QED
            BY <5>2, <5>4, <2>1 DEF SameButCircuit
      <4>5. Queued(w) = Queued(s) \ {id} /\ Distinct(w.destroys) /\ id \in Queued(s)
          BY <4>4, <2>1 DEF Queued
      <4> QED
          BY <1>2, <4>1, <4>3, <4>4, <4>5, NoteCircuit
    <3>2. CASE s.map[id] \notin Circs
      <4> DEFINE m == [u.map EXCEPT ![id] = Unused]
      <4>1. id \in Ids
          BY <2>1, QueuedIds
      <4>2. /\ m \in [Ids -> Circs \cup {Unused, Placeholder}]
            /\ m[id] = Unused /\ \A i \in Ids \ {id} : m[i] = s.map[i]
        <5>1. s.map \in [Ids -> Circs \cup {Unused, Placeholder}]
            BY DEF ChanType
        <5> QED
            BY <5>1, <4>1, <2>1
      <4>3. w = [u EXCEPT !.map = m]
          BY <3>2, <2>1, <2>w
      <4> HIDE DEF m
      <4>4. /\ w \in ChanType /\ w.state = u.state /\ w.scheduler_state = u.scheduler_state
            /\ w.pending = u.pending /\ w.outbuf = u.outbuf
            /\ w.destroys = u.destroys /\ w.map = m /\ w.n_cells = u.n_cells
            /\ w.n_active = u.n_active /\ w.circ = u.circ
        <5>1. u \in ChanType
            BY <2>1
        <5> QED
            BY <5>1, <4>2, <4>3 DEF ChanType
      <4>5. Queued(w) = Queued(s) \ {id} /\ Distinct(w.destroys) /\ id \in Queued(s)
          BY <4>4, <2>1 DEF Queued
      <4>6. CountOK(w)
          BY <4>4, <2>2 DEF CountOK, Counted, Active
      <4>7. /\ w.state = s.state /\ w.scheduler_state = s.scheduler_state
            /\ w.pending = s.pending /\ w.outbuf = s.outbuf /\ w.n_cells = s.n_cells
            /\ w.circ = s.circ /\ w.map[id] = Unused
            /\ \A i \in Ids \ {id} : w.map[i] = s.map[i]
          BY <4>2, <4>4, <2>1
      <4> QED
          BY <1>2, <3>2, <4>4, <4>5, <4>6, <4>7, NotePlaceholder
    <3> QED
        BY <3>1, <3>2
  <2>4. w \in ChanType /\ CircuitsOK(w) /\ SchedOK(w) /\ Open(w)
      BY <1>2, <2>3 DEF Flushed, Open
  <2>5. Flushed(w, t)
      BY <2>4, <2>t, WriteCellOK
  <2> QED
      BY <1>2, <2>3, <2>5, FlushedTrans
<1> QED
    BY <1>1, <1>2

\* A circuit with cells makes the counters of its multiplexer positive.
LEMMA SomeActive ==
    ASSUME CountingLaws, NEW s \in ChanType, CountOK(s), NEW c \in Circs, s.circ[c].cell_count > 0
    PROVE  s.n_cells > 0 /\ s.n_active > 0
BY DEF CountingLaws, SomeActiveLaw

\* s and t differ in the record of circuit c and in the counters only.
Beside(s, t, c) ==
  /\ t \in ChanType /\ t.state = s.state /\ t.scheduler_state = s.scheduler_state
  /\ t.pending = s.pending /\ t.outbuf = s.outbuf
  /\ t.destroys = s.destroys /\ t.map = s.map
  /\ \A x \in Circs \ {c} : t.circ[x] = s.circ[x]

\* A circuit stays on the channel under its id.
Stays(r, q) == q \in CircType /\ q.id = r.id /\ q.delete_pending = r.delete_pending

\* Changes of the same circuit add up.
LEMMA BesideTrans ==
    ASSUME NEW s, NEW u, NEW t, NEW c, Beside(s, u, c) \/ SameButCircuit(s, u, c),
           SameButCircuit(u, t, c)
    PROVE  Beside(s, t, c)
BY DEF Beside, SameButCircuit

\* circuitmux_set_num_cells
LEMMA RecountCircuit ==
    ASSUME CountingLaws, NEW s \in ChanType, CircuitsOK(s), NEW c \in Circs, s.circ[c].id # 0,
           NEW u, SameButCircuit(s, u, c), Stays(s.circ[c], u.circ[c]),
           u.circ[c].cell_count = s.circ[c].cell_count,
           NEW n \in Nat, NEW v, v = circuitmux_set_num_cells(u, c, n)
    PROVE  /\ Beside(s, v, c) /\ CountOK(v) /\ Stays(s.circ[c], v.circ[c])
           /\ v.n_cells = s.n_cells - s.circ[c].cell_count + n
           /\ v.circ[c].marked = u.circ[c].marked /\ v.circ[c].blocked = u.circ[c].blocked
           /\ v.circ[c].queue = u.circ[c].queue /\ v.circ[c].cell_count = n
<1>1. CountOK(u)
    BY CountKept DEF CircuitsOK
<1>2. s.circ[c].cell_count \in Nat
    BY OnChannel DEF CircuitsOK
<1>3. u \in ChanType /\ u.circ[c].cell_count \in Nat
    BY <1>2 DEF SameButCircuit
<1>4. /\ v \in ChanType /\ v.state = u.state /\ v.scheduler_state = u.scheduler_state
      /\ v.pending = u.pending /\ v.outbuf = u.outbuf
      /\ v.destroys = u.destroys /\ v.map = u.map
      /\ v.circ = CountRec(u.circ, c, n)
      /\ v.n_cells = u.n_cells - u.circ[c].cell_count + n
      /\ CountOK(v)
    BY <1>1, <1>3, SetNumCells
<1>5. v.circ[c] = [u.circ[c] EXCEPT !.cell_count = n] /\ \A x \in Circs \ {c} : v.circ[x] = u.circ[x]
  <2>1. u.circ \in [Circs -> CircType] /\ v.circ = CountRec(u.circ, c, n)
      BY <1>3, <1>4 DEF ChanType
  <2> QED
      BY <2>1 DEF CountRec
<1>6. /\ Stays(u.circ[c], v.circ[c])
      /\ v.circ[c].marked = u.circ[c].marked /\ v.circ[c].blocked = u.circ[c].blocked
      /\ v.circ[c].queue = u.circ[c].queue /\ v.circ[c].cell_count = n
    BY <1>5 DEF CircType, Stays
<1>7. Beside(s, v, c)
    BY <1>4, <1>5 DEF SameButCircuit, Beside
<1>8. Stays(s.circ[c], v.circ[c])
    BY <1>6 DEF Stays
<1>9. v.n_cells = s.n_cells - s.circ[c].cell_count + n
    BY <1>4 DEF SameButCircuit
<1> QED
    BY <1>4, <1>6, <1>7, <1>8, <1>9

\* An iteration of the flushing loop that served circuit c.
LEMMA ServedCircuit ==
    ASSUME CountingLaws, NEW s \in ChanType, CircuitsOK(s), SchedOK(s), NEW c \in Circs,
           s.circ[c].cell_count > 0, s.circ[c].id # 0,
           NEW w, Beside(s, w, c), CountOK(w), Stays(s.circ[c], w.circ[c]),
           s.circ[c].marked => w.circ[c].marked,
           Open(s) => w.circ[c].marked = s.circ[c].marked,
           Legal(s, w.circ[c])
    PROVE  Flushed(s, w)
<1>1. /\ w.circ[c] \in CircType /\ w.circ[c].id = s.circ[c].id
      /\ w.circ[c].delete_pending = s.circ[c].delete_pending
    BY DEF Stays
<1>a. /\ w \in ChanType /\ w.state = s.state /\ w.map = s.map /\ w.destroys = s.destroys
      /\ \A x \in Circs \ {c} : w.circ[x] = s.circ[x]
      /\ CircOK(s) /\ IdsOK(s)
    BY DEF Beside, CircuitsOK
<1>2. CircOK(w) /\ IdsOK(w)
    BY <1>1, <1>a, ChangeCircuit
<1>3. s.n_cells > 0 /\ s.n_cells \in Int
    BY SomeActive DEF CircuitsOK, ChanType
<1>4. SchedOK(w)
    BY <1>3 DEF SchedOK, Open, Beside
<1>5. \A x \in Circs : /\ s.circ[x].marked => w.circ[x].marked
                       /\ Open(s) => w.circ[x].marked = s.circ[x].marked
                       /\ w.circ[x].delete_pending => s.circ[x].delete_pending
    BY <1>1, <1>a
<1> QED
    BY <1>2, <1>4, <1>5 DEF Flushed, CircuitsOK, Beside

\* channel_flush_from_first_active_circuit notes that a relay cell came last.
LEMMA NoteRelay ==
    ASSUME NEW s \in ChanType, NEW c, NEW t, t = [s EXCEPT !.last_was_destroy = FALSE]
    PROVE  SameButCircuit(s, t, c) /\ t.circ = s.circ
BY DEF ChanType, SameButCircuit

\* A circuit marked, with one cell less, with its streams told to go on.
MarkedRec(r) == [r EXCEPT !.marked = TRUE]

PoppedRec(r) == [r EXCEPT !.queue = r.queue - 1]

UnblockedRec(r) == [r EXCEPT !.blocked = r.blocked /\ r.queue > CellqLow]

\* What these do to a circuit's record.
LEMMA Records ==
    ASSUME NEW r \in CircType
    PROVE  /\ Stays(r, MarkedRec(r)) /\ MarkedRec(r).marked /\ MarkedRec(r).queue = r.queue
           /\ MarkedRec(r).cell_count = r.cell_count /\ MarkedRec(r).blocked = r.blocked
           /\ Stays(r, UnblockedRec(r)) /\ UnblockedRec(r).marked = r.marked
           /\ UnblockedRec(r).queue = r.queue /\ UnblockedRec(r).cell_count = r.cell_count
           /\ UnblockedRec(r).blocked => r.queue > CellqLow
<1>1. /\ Stays(r, MarkedRec(r)) /\ MarkedRec(r).marked /\ MarkedRec(r).queue = r.queue
      /\ MarkedRec(r).cell_count = r.cell_count /\ MarkedRec(r).blocked = r.blocked
    BY DEF Stays, MarkedRec, CircType
<1> DEFINE b == r.blocked /\ r.queue > CellqLow
<1>2. b \in BOOLEAN /\ UnblockedRec(r) = [r EXCEPT !.blocked = b]
    BY DEF CircType, UnblockedRec
<1>3. b => r.queue > CellqLow
    OBVIOUS
<1> HIDE DEF b
<1>4. /\ Stays(r, UnblockedRec(r)) /\ UnblockedRec(r).marked = r.marked
      /\ UnblockedRec(r).queue = r.queue /\ UnblockedRec(r).cell_count = r.cell_count
      /\ UnblockedRec(r).blocked = b
    BY <1>2 DEF CircType, Stays
<1> QED
    BY <1>1, <1>3, <1>4

\* The circuit is counted as active and its queue is empty: it is closed.
LEMMA FlushEmptied ==
    ASSUME CountingLaws, NEW s \in ChanType, CircuitsOK(s), SchedOK(s), NEW c \in Circs,
           s.circ[c].cell_count > 0, s.circ[c].id # 0, s.circ[c].queue = 0,
           NEW t, SameButCircuit(s, t, c), t.circ = s.circ,
           NEW v, v = circuitmux_set_num_cells(t, c, 0),
           NEW w, w = Put(v, c, MarkedRec(v.circ[c]))
    PROVE  Flushed(s, w) /\ w.state = s.state
<1> DEFINE q == MarkedRec(v.circ[c])
<1>1. s.circ[c] \in CircType /\ Legal(s, s.circ[c]) /\ 0 \in Nat
    BY OnChannel DEF CircuitsOK, ChanType
<1>a. Stays(s.circ[c], t.circ[c]) /\ t.circ[c].cell_count = s.circ[c].cell_count
    BY <1>1 DEF Stays
<1>2. /\ Beside(s, v, c) /\ CountOK(v) /\ Stays(s.circ[c], v.circ[c])
      /\ v.circ[c].queue = t.circ[c].queue /\ v.circ[c].cell_count = 0
    BY <1>1, <1>a, RecountCircuit
<1>3. v.circ[c] \in CircType /\ v \in ChanType /\ v.circ[c].queue = 0
    BY <1>2 DEF Stays, Beside
<1>4. Stays(v.circ[c], q) /\ q.marked /\ q.queue = 0 /\ q.cell_count = 0
    BY <1>2, <1>3, Records
<1>5. SameButCircuit(v, w, c) /\ w.circ[c] = q
    BY <1>3, <1>4, PutCircuit DEF Stays
<1> HIDE DEF q
<1>6. CountOK(w)
    BY <1>2, <1>4, <1>5, CountKept
<1>7. Beside(s, w, c) /\ Stays(s.circ[c], q)
  <2>1. Beside(s, w, c)
      BY <1>2, <1>5, BesideTrans
  <2> QED
      BY <2>1, <1>2, <1>4 DEF Stays
<1>8. Open(s) => s.circ[c].marked
    BY <1>1 DEF Legal, Condemned, Open
<1>9. Legal(s, q)
    BY <1>4 DEF Legal, Detached
<1>10. Open(s) => q.marked = s.circ[c].marked
  <2>1. s.circ[c].marked \in BOOLEAN /\ q.marked \in BOOLEAN
      BY <1>1, <1>4 DEF CircType, Stays
  <2> QED
      BY <2>1, <1>4, <1>8
<1>11. Flushed(s, w)
    BY <1>4, <1>5, <1>6, <1>7, <1>9, <1>10, ServedCircuit
<1> QED
    BY ONLY <1>7, <1>11, SMTT(30) DEF Beside

\* p is s with one cell taken from the queue of c.
TookCell(s, p, c) ==
  /\ SameButCircuit(s, p, c) /\ Stays(s.circ[c], p.circ[c])
  /\ p.circ[c].marked = s.circ[c].marked /\ p.circ[c].blocked = s.circ[c].blocked
  /\ p.circ[c].cell_count = s.circ[c].cell_count
  /\ p.circ[c].queue = s.circ[c].queue - 1 /\ p.circ[c].queue \in Nat

\* Popping the circuit's queue.
LEMMA PopCell ==
    ASSUME NEW s \in ChanType, NEW c \in Circs, s.circ[c].queue > 0,
           NEW t, SameButCircuit(s, t, c), t.circ = s.circ,
           NEW p, p = Put(t, c, PoppedRec(s.circ[c]))
    PROVE  TookCell(s, p, c)
<1> DEFINE n == s.circ[c].queue - 1
           q == PoppedRec(s.circ[c])
<1>1. s.circ[c] \in CircType /\ s.circ[c].queue \in Nat /\ t \in ChanType
    BY DEF ChanType, CircType, SameButCircuit
<1>2. n \in Nat
    BY <1>1
<1>3. /\ Stays(s.circ[c], q) /\ q.marked = s.circ[c].marked
      /\ q.blocked = s.circ[c].blocked
      /\ q.cell_count = s.circ[c].cell_count /\ q.queue = n
  <2>1. q = [s.circ[c] EXCEPT !.queue = n]
      BY DEF PoppedRec
  <2> HIDE DEF n, q
  <2> QED
      BY <2>1, <1>1, <1>2 DEF CircType, Stays
<1>5. SameButCircuit(t, p, c) /\ p.circ[c] = q
    BY <1>1, <1>3, PutCircuit DEF Stays
<1> HIDE DEF q
<1>6. SameButCircuit(s, p, c)
    BY <1>5 DEF SameButCircuit
<1> QED
    BY <1>2, <1>3, <1>5, <1>6 DEF TookCell

\* On a closing channel the cell is dropped and the multiplexer not told.
LEMMA FlushClosing ==
    ASSUME CountingLaws, NEW s \in ChanType, CircuitsOK(s), SchedOK(s), NEW c \in Circs, ~Open(s),
           s.circ[c].cell_count > 0, s.circ[c].id # 0, s.circ[c].queue > 0,
           NEW p, TookCell(s, p, c)
    PROVE  Flushed(s, p)
<1>1. Legal(s, s.circ[c]) /\ s.circ[c].queue \in Nat /\ s.circ[c].cell_count \in Nat
      /\ s.state \in {"OPEN", "CLOSING"}
    BY OnChannel DEF CircuitsOK
<1>2. Condemned(s)
    BY <1>1 DEF Condemned, Open
<1>a. /\ SameButCircuit(s, p, c) /\ Stays(s.circ[c], p.circ[c])
      /\ p.circ[c].marked = s.circ[c].marked
      /\ p.circ[c].cell_count = s.circ[c].cell_count
      /\ p.circ[c].queue = s.circ[c].queue - 1
    BY DEF TookCell
<1>3. p.circ[c].queue < p.circ[c].cell_count /\ p.circ[c].cell_count # Detached
    BY <1>1, <1>a DEF Legal, Detached
<1>4. Legal(s, p.circ[c])
    BY <1>2, <1>3 DEF Legal
<1>5. CountOK(p)
    BY <1>a, CountKept DEF CircuitsOK
<1>6. Beside(s, p, c)
    BY <1>a DEF SameButCircuit, Beside
<1> QED
    BY <1>a, <1>4, <1>5, <1>6, ServedCircuit

\* On an open channel the cell is counted off, and streams that were told to
\* stop are told to go on when the queue is short enough.
LEMMA FlushOpen ==
    ASSUME CountingLaws, NEW s \in ChanType, CircuitsOK(s), SchedOK(s), NEW c \in Circs, Open(s),
           s.circ[c].cell_count > 0, s.circ[c].id # 0, s.circ[c].queue > 0,
           NEW p, TookCell(s, p, c),
           NEW n \in Nat, p.circ[c].queue = n,
           NEW v, v = circuitmux_set_num_cells(p, c, n),
           NEW w, w = Put(v, c, UnblockedRec(v.circ[c]))
    PROVE  Flushed(s, w) /\ w.state = s.state
<1> DEFINE q == UnblockedRec(v.circ[c])
<1>1. Legal(s, s.circ[c]) /\ p.circ[c].marked = s.circ[c].marked
    BY OnChannel DEF CircuitsOK, TookCell
<1>a. /\ SameButCircuit(s, p, c) /\ Stays(s.circ[c], p.circ[c])
      /\ p.circ[c].cell_count = s.circ[c].cell_count
    BY DEF TookCell
<1>2. /\ Beside(s, v, c) /\ CountOK(v) /\ Stays(s.circ[c], v.circ[c])
      /\ v.circ[c].marked = p.circ[c].marked
      /\ v.circ[c].queue = p.circ[c].queue /\ v.circ[c].cell_count = n
    BY <1>1, <1>a, RecountCircuit
<1>3. v.circ[c] \in CircType /\ v \in ChanType /\ v.circ[c].queue = n
      /\ v.circ[c].marked = s.circ[c].marked
    BY <1>1, <1>2 DEF Stays, Beside
<1>4. /\ Stays(v.circ[c], q) /\ q.marked = s.circ[c].marked /\ q.queue = n
      /\ q.cell_count = n /\ (q.blocked => n > CellqLow)
    BY <1>2, <1>3, Records
<1>5. SameButCircuit(v, w, c) /\ w.circ[c] = q
    BY <1>3, <1>4, PutCircuit DEF Stays
<1> HIDE DEF q
<1>6. CountOK(w)
    BY <1>2, <1>4, <1>5, CountKept
<1>7. Beside(s, w, c) /\ Stays(s.circ[c], q)
  <2>1. Beside(s, w, c)
      BY <1>2, <1>5, BesideTrans
  <2> QED
      BY <2>1, <1>2, <1>4 DEF Stays
<1>9. Legal(s, q)
    BY <1>1, <1>4 DEF Legal, Detached
<1>10. Flushed(s, w)
    BY <1>4, <1>5, <1>6, <1>7, <1>9, ServedCircuit
<1> QED
    BY ONLY <1>7, <1>10, SMTT(30) DEF Beside

\* An iteration of the flush loop that was given an active circuit.
LEMMA FlushRelayOK ==
    ASSUME CountingLaws, NEW s \in ChanType, CircuitsOK(s), SchedOK(s), NEW c \in Circs,
           s.circ[c].cell_count > 0, NEW w \in FlushRelay(s, c)
    PROVE  Flushed(s, w) /\ (s.circ[c].queue = 0 => w.state = s.state)
<1> DEFINE t == [s EXCEPT !.last_was_destroy = FALSE]
           p == Put(t, c, PoppedRec(s.circ[c]))
           e == circuitmux_set_num_cells(t, c, 0)
           y == circuitmux_set_num_cells(p, c, p.circ[c].queue)
           x == Put(y, c, UnblockedRec(y.circ[c]))
<1>1. s.circ[c].id # 0
    BY OffChannel DEF CircuitsOK, Detached
<1>2. s.circ[c].queue \in Nat
    BY <1>1, OnChannel DEF CircuitsOK
<1>3. SameButCircuit(s, t, c) /\ t.circ = s.circ
    BY NoteRelay
<1>4. \/ s.circ[c].queue = 0
         /\ w = Put(e, c, MarkedRec(e.circ[c]))
      \/ s.circ[c].queue > 0 /\ ~Open(s) /\ w = p
      \/ /\ s.circ[c].queue > 0 /\ Open(s)
         /\ w \in WriteCell(x)
  <2>1. p = [t EXCEPT !.circ[c].queue = @ - 1]
      BY <1>3 DEF Put, PoppedRec
  <2>2. x = Unblock(y, c)
      BY DEF Put, UnblockedRec, Unblock
  <2>3. Put(e, c, MarkedRec(e.circ[c])) = [e EXCEPT !.circ[c].marked = TRUE]
      BY DEF Put, MarkedRec
  <2>4. FlushRelay(s, c) =
          CASE s.circ[c].queue = 0 -> {[e EXCEPT !.circ[c].marked = TRUE]}
            [] s.circ[c].queue > 0 /\ ~Open(s) -> {p}
            [] OTHER -> WriteCell(Unblock(y, c))
    <3> HIDE DEF p
    <3> QED
      BY <2>1 DEF FlushRelay
  <2> HIDE DEF p, x, e, y
  <2> QED
      BY <1>2, <2>2, <2>3, <2>4
<1> HIDE DEF t, e, y, x
<1>5. CASE s.circ[c].queue = 0
  <2>1. w = Put(e, c, MarkedRec(e.circ[c]))
      BY <1>4, <1>5
  <2> QED
      BY <1>1, <1>3, <1>5, <2>1, FlushEmptied DEF e
<1>6. CASE s.circ[c].queue > 0
  <2>1. TookCell(s, p, c)
      BY <1>3, <1>6, PopCell
  <2> HIDE DEF p
  <2>2. CASE ~Open(s)
    <3>1. w = p
        BY <1>4, <1>6, <2>2
    <3> QED
        BY <1>1, <1>6, <2>1, <2>2, <3>1, FlushClosing
  <2>3. CASE Open(s)
    <3>1. w \in WriteCell(x)
        BY <1>4, <1>6, <2>3
    <3>2. Flushed(s, x) /\ x.state = s.state
      <4>1. p.circ[c].queue \in Nat
          BY <2>1 DEF TookCell
      <4> QED
          BY <4>1, <1>1, <1>6, <2>1, <2>3, FlushOpen DEF x, y
    <3>3. x \in ChanType /\ CircuitsOK(x) /\ SchedOK(x) /\ Open(x)
        BY <2>3, <3>2 DEF Flushed, Open
    <3>4. Flushed(x, w)
        BY <3>1, <3>3, WriteCellOK
    <3> QED
        BY <1>6, <2>3, <3>2, <3>4, FlushedTrans
  <2> QED
      BY <2>2, <2>3
<1> QED
    BY <1>2, <1>5, <1>6

-----------------------------------------------------------------------------
(* The kernel. *)

\* What the kernel may take from an outbuf turns s into t.
Wrote(s, t) ==
  /\ Sound(t) /\ t.circ = s.circ /\ (Condemned(s) => t = s)
  /\ \/ /\ t.state = s.state
        /\ \/ t.scheduler_state = s.scheduler_state /\ t.pending = s.pending
           \/ s.scheduler_state # "PENDING" /\ t.scheduler_state = "PENDING" /\ t.pending
           \/ /\ s.scheduler_state # "PENDING" /\ t.scheduler_state # "PENDING"
              /\ t.pending = s.pending
     \/ ~Condemned(s) /\ t.state = "CLOSING" /\ t.scheduler_state = "IDLE" /\ ~t.pending

\* connection_or_flushed_some: below the low mark the scheduler is told.
LEMMA FlushedSomeOK ==
    ASSUME NEW s, Sound(s), NEW k \in 0 .. s.outbuf, NEW t, t = FlushedSome(s, k),
           s.outbuf > 0, ~Condemned(s)
    PROVE  Wrote(s, t)
<1> DEFINE n == s.outbuf - k
           u == [s EXCEPT !.outbuf = n]
<1>0. s \in ChanType /\ CircuitsOK(s) /\ SchedOK(s)
    BY DEF Sound
<1>1. n \in Nat /\ (k = 0 => n > 0) /\ LowMark \in Nat \ {0} /\ k \in Nat
    BY <1>0, ChannelsAssumption DEF ChanType
<1>2. t = IF k > 0 /\ u.outbuf < LowMark THEN scheduler_channel_wants_writes(u) ELSE u
    BY DEF FlushedSome
<1> HIDE DEF n
<1>3. /\ u \in ChanType /\ u.state = s.state /\ u.circ = s.circ /\ u.map = s.map
      /\ u.n_cells = s.n_cells /\ u.n_active = s.n_active /\ u.destroys = s.destroys
      /\ u.scheduler_state = s.scheduler_state /\ u.pending = s.pending /\ u.outbuf = n
    BY <1>0, <1>1 DEF ChanType
<1> HIDE DEF u
<1>4. CircuitsOK(u)
    BY <1>0, <1>3, Frame
<1>5. /\ s.pending => s.scheduler_state = "PENDING"
      /\ Open(s) =>
           /\ s.scheduler_state \in {"IDLE", "WAITING_FOR_CELLS"} => s.n_cells = 0
           /\ s.scheduler_state \in {"IDLE", "WAITING_TO_WRITE"} => s.outbuf > 0
      /\ s.state = "OPENING" => s.scheduler_state \in {"IDLE", "WAITING_FOR_CELLS"}
      /\ s.state \in {"CLOSED", "FREED"} => s.scheduler_state = "IDLE"
    BY <1>0 DEF SchedOK
<1>6. CASE k > 0 /\ u.outbuf < LowMark
  <2>1. t = scheduler_channel_wants_writes(u)
      BY <1>2, <1>6
  <2>2. SameButSched(u, t)
      BY <1>3, <2>1, SchedEffect
  <2>3. \/ s.scheduler_state = "WAITING_TO_WRITE" /\ t.scheduler_state = "PENDING" /\ t.pending
        \/ /\ s.scheduler_state = "IDLE" /\ t.scheduler_state = "WAITING_FOR_CELLS"
           /\ t.pending = s.pending
        \/ /\ s.scheduler_state \in {"PENDING", "WAITING_FOR_CELLS"}
           /\ t = u
      BY <1>3, <2>1, WantsWrites
  <2>4. CircuitsOK(t)
      BY <1>4, <2>2, Frame DEF SameButSched
  <2>5. t \in ChanType /\ t.state = s.state /\ t.circ = s.circ /\ t.n_cells = s.n_cells
      BY <1>3, <2>2 DEF SameButSched
  <2>6. SchedOK(t)
      BY <1>3, <1>5, <2>3, <2>5 DEF SchedOK, Open, Condemned
  <2> QED
      BY <1>3, <2>3, <2>4, <2>5, <2>6 DEF Wrote, Sound
<1>7. CASE ~(k > 0 /\ u.outbuf < LowMark)
  <2>1. t = u /\ n > 0
      BY <1>1, <1>2, <1>3, <1>7
  <2>2. SchedOK(t)
      BY <1>3, <1>5, <2>1 DEF SchedOK, Open
  <2> QED
      BY <1>3, <1>4, <2>1, <2>2 DEF Wrote, Sound
<1> QED
    BY <1>6, <1>7

\* channel_write_to_kernel, which may also close the channel.
LEMMA WriteToKernelOK ==
    ASSUME NEW s, Sound(s), NEW t \in WriteToKernel(s)
    PROVE  Wrote(s, t)
<1>0. s \in ChanType /\ CircuitsOK(s) /\ SchedOK(s) /\ s.outbuf \in Nat
    BY DEF Sound, ChanType
<1>1. CASE s.outbuf = 0 \/ Condemned(s)
    BY <1>1 DEF WriteToKernel, Wrote
<1>2. CASE ~(s.outbuf = 0 \/ Condemned(s))
  <2>1. \/ \E k \in 0 .. s.outbuf : t = FlushedSome(s, k)
        \/ t = channel_mark_for_close(s)
      BY <1>2 DEF WriteToKernel
  <2>2. s.outbuf > 0
      BY <1>0, <1>2
  <2>3. ASSUME NEW k \in 0 .. s.outbuf, t = FlushedSome(s, k) PROVE Wrote(s, t)
      BY <1>2, <2>2, <2>3, FlushedSomeOK
  <2>4. CASE t = channel_mark_for_close(s)
      BY <1>0, <1>2, <2>4, MarkForClose DEF Wrote, Sound
  <2> QED
      BY <2>1, <2>3, <2>4
<1> QED
    BY <1>1, <1>2

\* channel_write_cell
LEMMA DirectCell ==
    ASSUME NEW s, Sound(s), ~Condemned(s), NEW t, t = [s EXCEPT !.outbuf = @ + Cell]
    PROVE  Wrote(s, t)
<1> DEFINE n == s.outbuf + Cell
<1>1. s \in ChanType /\ CircuitsOK(s) /\ SchedOK(s) /\ n \in Nat /\ n > 0
      /\ t = [s EXCEPT !.outbuf = n]
    BY ChannelsAssumption DEF Sound, ChanType
<1> HIDE DEF n
<1>3. /\ t \in ChanType /\ t.state = s.state /\ t.circ = s.circ /\ t.map = s.map
      /\ t.n_cells = s.n_cells /\ t.n_active = s.n_active /\ t.destroys = s.destroys
      /\ t.scheduler_state = s.scheduler_state /\ t.pending = s.pending /\ t.outbuf = n
    BY <1>1 DEF ChanType
<1>4. CircuitsOK(t)
    BY <1>1, <1>3, Frame
<1>5. SchedOK(t)
    BY <1>1, <1>3 DEF SchedOK, Open
<1> QED
    BY <1>3, <1>4, <1>5 DEF Wrote, Sound

\* circuit_mark_for_close
LEMMA MarkCircuit ==
    ASSUME NEW s, Sound(s), NEW c \in Circs, s.circ[c].id # 0,
           NEW t, t = Put(s, c, MarkedRec(s.circ[c]))
    PROVE  /\ Sound(t) /\ SameButCircuit(s, t, c) /\ t.circ[c].marked
           /\ t.circ[c].delete_pending = s.circ[c].delete_pending
<1>0. s \in ChanType /\ CircuitsOK(s) /\ SchedOK(s) /\ s.circ[c] \in CircType
    BY DEF Sound, ChanType
<1> DEFINE q == MarkedRec(s.circ[c])
<1>1. /\ Stays(s.circ[c], q) /\ q.marked /\ q.queue = s.circ[c].queue
      /\ q.cell_count = s.circ[c].cell_count /\ q.blocked = s.circ[c].blocked
    BY <1>0, Records
<1>2. SameButCircuit(s, t, c) /\ t.circ[c] = q
    BY <1>0, <1>1, PutCircuit DEF Stays
<1> HIDE DEF q
<1>3. Legal(s, s.circ[c])
    BY <1>0, OnChannel DEF CircuitsOK
<1>4. Legal(s, q)
    BY <1>1, <1>3 DEF Legal
<1>5. CircuitsOK(t)
    BY <1>0, <1>1, <1>2, <1>4, EditCircuit DEF Stays
<1>6. SchedOK(t)
    BY <1>0, <1>2 DEF SchedOK, SameButCircuit, Open
<1> QED
    BY <1>1, <1>2, <1>5, <1>6 DEF Sound, Stays, SameButCircuit

-----------------------------------------------------------------------------
(* Marked circuits. *)

\* A circuit as circuits_handle_oom leaves it.
EmptiedRec(r) == [r EXCEPT !.queue = 0, !.marked = TRUE]

\* What circuits_handle_oom does on one channel.
Emptied(s, D) ==
  [s EXCEPT !.circ = [c \in Circs |-> IF c \in D THEN EmptiedRec(s.circ[c]) ELSE s.circ[c]]]

\* circuits_handle_oom leaves every channel it touches in order, although the
\* multiplexer still counts the cells that are gone.
LEMMA OomEmpties ==
    ASSUME NEW s, Sound(s), NEW D, D \subseteq On(s), NEW t, t = Emptied(s, D)
    PROVE  /\ Sound(t) /\ t.state = s.state /\ t.scheduler_state = s.scheduler_state
           /\ t.pending = s.pending
           /\ \A x \in D : /\ t.circ[x].marked
                           /\ t.circ[x].delete_pending = s.circ[x].delete_pending
           /\ \A x \in Circs \ D : t.circ[x] = s.circ[x]
<1> DEFINE f == [c \in Circs |-> IF c \in D THEN EmptiedRec(s.circ[c]) ELSE s.circ[c]]
<1>0. s \in ChanType /\ CircOK(s) /\ CountOK(s) /\ IdsOK(s) /\ SchedOK(s)
      /\ \A x \in Circs : s.circ[x] \in CircType
    BY DEF Sound, CircuitsOK, ChanType
<1>1. \A x \in Circs : /\ Stays(s.circ[x], EmptiedRec(s.circ[x]))
                       /\ EmptiedRec(s.circ[x]).marked /\ EmptiedRec(s.circ[x]).queue = 0
                       /\ EmptiedRec(s.circ[x]).cell_count = s.circ[x].cell_count
  <2>1. ASSUME NEW r \in CircType
        PROVE  /\ Stays(r, EmptiedRec(r)) /\ EmptiedRec(r).marked
               /\ EmptiedRec(r).queue = 0 /\ EmptiedRec(r).cell_count = r.cell_count
      BY DEF EmptiedRec, Stays, CircType
  <2> QED
      BY <2>1, <1>0
<1>2. D \subseteq Circs /\ \A x \in D : s.circ[x].id # 0
    BY DEF On
<1>3. /\ f \in [Circs -> CircType]
      /\ \A x \in D : f[x] = EmptiedRec(s.circ[x])
      /\ \A x \in Circs \ D : f[x] = s.circ[x]
    BY <1>0, <1>1, <1>2 DEF Stays
<1>4. t = [s EXCEPT !.circ = f]
    BY DEF Emptied
<1> HIDE DEF f
<1>5. /\ t \in ChanType /\ t.state = s.state /\ t.scheduler_state = s.scheduler_state
      /\ t.pending = s.pending /\ t.outbuf = s.outbuf
      /\ t.destroys = s.destroys /\ t.map = s.map /\ t.n_cells = s.n_cells
      /\ t.n_active = s.n_active /\ t.circ = f
    BY <1>0, <1>3, <1>4 DEF ChanType
<1>6. \A x \in Circs : /\ t.circ[x].id = s.circ[x].id
                       /\ t.circ[x].delete_pending = s.circ[x].delete_pending
                       /\ t.circ[x].cell_count = s.circ[x].cell_count
    BY <1>1, <1>3, <1>5 DEF Stays
<1>7. CountOK(t)
  <2>1. Counted(t) = Counted(s) /\ Active(t) = Active(s)
      BY <1>6 DEF Counted, Active
  <2> QED
      BY <2>1, <1>0, <1>5 DEF CountOK
<1>8. CircOK(t)
  <2>1. ASSUME NEW x \in Circs PROVE CircuitOK(t, x)
    <3>1. CircuitOK(s, x)
        BY <1>0, CircOKParts
    <3>2. CASE x \in D
      <4>1. s.map[s.circ[x].id] = x /\ Legal(s, s.circ[x])
          BY <3>1, <3>2, <1>2 DEF CircuitOK
      <4>2. t.circ[x].marked /\ t.circ[x].queue = 0
          BY <3>2, <1>1, <1>3, <1>5
      <4>3. Legal(t, t.circ[x])
          BY <4>1, <4>2, <1>6 DEF Legal
      <4> QED
          BY <4>1, <4>3, <1>2, <1>5, <1>6, <3>2 DEF CircuitOK
    <3>3. CASE x \notin D
      <4>1. t.circ[x] = s.circ[x]
          BY <3>3, <1>3, <1>5
      <4>2. Legal(s, s.circ[x]) => Legal(t, t.circ[x])
          BY <4>1, <1>5, SameLegal
      <4> QED
          BY <4>1, <4>2, <3>1, <1>5 DEF CircuitOK
    <3> QED
        BY <3>2, <3>3
  <2>2. \A i \in Ids : t.map[i] \in Circs => t.circ[t.map[i]].id = i
      BY <1>0, <1>5, <1>6, CircOKParts
  <2>3. t.state \in {"OPENING", "CLOSED", "FREED"} => \A x \in Circs : t.circ[x].id = 0
      BY <1>0, <1>5, <1>6, CircOKParts
  <2> QED
      BY <2>1, <2>2, <2>3, CircOKParts
<1>9. IdsOK(t)
    BY <1>0, <1>5, <1>6 DEF IdsOK, Queued, Open
<1>10. SchedOK(t)
    BY <1>0, <1>5 DEF SchedOK, Open
<1>11. \A x \in D : t.circ[x].marked
    BY <1>1, <1>2, <1>3, <1>5
<1> QED
    BY <1>2, <1>3, <1>5, <1>6, <1>7, <1>8, <1>9, <1>10, <1>11 DEF Sound, CircuitsOK

\* A circuit whose queue has been cleared.
ClearedRec(r) == [r EXCEPT !.queue = 0]

\* A marked circuit without cells is legal.
LEMMA LegalCleared ==
    ASSUME NEW s, NEW r, r.marked, r.queue = 0, r.cell_count = 0
    PROVE  Legal(s, r)
BY DEF Legal, Detached

\* circuit_about_to_free clears the queue and tells the multiplexer.
LEMMA ClearQueue ==
    ASSUME CountingLaws, NEW s, Sound(s), NEW c \in Circs, s.circ[c].id # 0, s.circ[c].marked,
           NEW u, u = Put(s, c, ClearedRec(s.circ[c])),
           NEW e, e = circuitmux_set_num_cells(u, c, 0)
    PROVE  /\ Sound(e) /\ Beside(s, e, c) /\ Stays(s.circ[c], e.circ[c])
           /\ e.circ[c].marked /\ (s.n_cells = 0 => e.n_cells = 0)
<1>0. s \in ChanType /\ CircuitsOK(s) /\ SchedOK(s) /\ s.circ[c] \in CircType /\ 0 \in Nat
    BY DEF Sound, ChanType
<1> DEFINE q == ClearedRec(s.circ[c])
<1>1. /\ Stays(s.circ[c], q) /\ q.marked /\ q.queue = 0
      /\ q.cell_count = s.circ[c].cell_count
    BY <1>0 DEF Stays, ClearedRec, CircType
<1>2. SameButCircuit(s, u, c) /\ u.circ[c] = q
    BY <1>0, <1>1, PutCircuit DEF Stays
<1> HIDE DEF q
<1>3. /\ Beside(s, e, c) /\ CountOK(e) /\ Stays(s.circ[c], e.circ[c])
      /\ e.n_cells = s.n_cells - s.circ[c].cell_count + 0
      /\ e.circ[c].marked = u.circ[c].marked
      /\ e.circ[c].queue = u.circ[c].queue /\ e.circ[c].cell_count = 0
  <2>1. Stays(s.circ[c], u.circ[c]) /\ u.circ[c].cell_count = s.circ[c].cell_count
      BY <1>1, <1>2
  <2> QED
      BY <2>1, <1>0, <1>2, RecountCircuit
<1>4. e.circ[c].marked /\ e.circ[c].queue = 0
    BY <1>1, <1>2, <1>3
<1>5. Legal(s, e.circ[c])
    BY ONLY <1>3, <1>4, LegalCleared, SMTT(30)
<1>6. /\ e \in ChanType /\ e.state = s.state /\ e.map = s.map /\ e.destroys = s.destroys
      /\ \A x \in Circs \ {c} : e.circ[x] = s.circ[x]
      /\ CircOK(s) /\ IdsOK(s)
      /\ e.circ[c] \in CircType /\ e.circ[c].id = s.circ[c].id
      /\ e.circ[c].delete_pending = s.circ[c].delete_pending
  <2>1. /\ e \in ChanType /\ e.state = s.state /\ e.map = s.map /\ e.destroys = s.destroys
        /\ \A x \in Circs \ {c} : e.circ[x] = s.circ[x]
      BY <1>3 DEF Beside
  <2>2. CircOK(s) /\ IdsOK(s)
      BY <1>0 DEF CircuitsOK
  <2>3. /\ e.circ[c] \in CircType /\ e.circ[c].id = s.circ[c].id
        /\ e.circ[c].delete_pending = s.circ[c].delete_pending
      BY <1>3 DEF Stays
  <2> QED
      BY <2>1, <2>2, <2>3
<1>7. CircOK(e) /\ IdsOK(e)
  <2>1. s.circ[c].id # 0 /\ c \in Circs
      OBVIOUS
  <2> QED
      BY ONLY <2>1, <1>0, <1>5, <1>6, ChangeCircuit, SMTT(30)
<1>8. s.n_cells = 0 => e.n_cells = 0
  <2>1. e.n_cells \in Nat /\ s.n_cells \in Int
      BY <1>0, <1>3, <1>6, NoneActive DEF ChanType
  <2>2. s.circ[c].cell_count \in Nat
      BY <1>0, OnChannel DEF CircuitsOK
  <2>3. e.n_cells = s.n_cells - s.circ[c].cell_count + 0
      BY <1>3
  <2> QED
      BY ONLY <2>1, <2>2, <2>3, SMTT(30)
<1>9. SchedOK(e)
    BY <1>0, <1>3, <1>8 DEF SchedOK, Beside, Open
<1> QED
    BY <1>3, <1>4, <1>6, <1>7, <1>8, <1>9 DEF Sound, CircuitsOK

\* channel_send_destroy: the DESTROY is queued and the circuit noted.
SendDestroyRec(r) == [r EXCEPT !.delete_pending = TRUE]

\* A DESTROY for the id joins the queue.
QueueDestroy(s, id) == [s EXCEPT !.destroys = Append(@, id)]

\* The queue grows by one id that was not in it.
LEMMA AppendQueued ==
    ASSUME NEW s \in ChanType, NEW id \in Ids, id \notin Queued(s), Distinct(s.destroys),
           NEW t, t = QueueDestroy(s, id)
    PROVE  /\ t \in ChanType /\ t.state = s.state /\ t.scheduler_state = s.scheduler_state
           /\ t.pending = s.pending /\ t.outbuf = s.outbuf
           /\ t.circ = s.circ /\ t.map = s.map /\ t.n_cells = s.n_cells
           /\ t.n_active = s.n_active
           /\ Queued(t) = Queued(s) \cup {id} /\ Distinct(t.destroys)
<1> DEFINE d == Append(s.destroys, id)
<1>1. s.destroys \in Seq(Ids) /\ d \in Seq(Ids)
    BY DEF ChanType
<1>2. /\ DOMAIN s.destroys = 1 .. Len(s.destroys) /\ Len(s.destroys) \in Nat
      /\ DOMAIN d = 1 .. (Len(s.destroys) + 1)
      /\ d[Len(s.destroys) + 1] = id
      /\ \A k \in DOMAIN s.destroys : d[k] = s.destroys[k]
    BY <1>1
<1>3. {d[k] : k \in DOMAIN d} = Queued(s) \cup {id}
    BY <1>2 DEF Queued
<1>4. Distinct(d)
  <2>1. ASSUME NEW j \in DOMAIN d, NEW k \in DOMAIN d, d[j] = d[k] PROVE j = k
    <3>1. \A i \in DOMAIN s.destroys : s.destroys[i] # id
        BY DEF Queued
    <3>2. CASE j \in DOMAIN s.destroys /\ k \in DOMAIN s.destroys
        BY <3>2, <2>1, <1>2 DEF Distinct
    <3>3. CASE j \notin DOMAIN s.destroys \/ k \notin DOMAIN s.destroys
        BY <3>1, <3>3, <2>1, <1>2
    <3> QED
        BY <3>2, <3>3
  <2> QED
      BY <2>1 DEF Distinct
<1>5. t = [s EXCEPT !.destroys = d]
    BY DEF QueueDestroy
<1> HIDE DEF d
<1>6. /\ t \in ChanType /\ t.state = s.state /\ t.scheduler_state = s.scheduler_state
      /\ t.pending = s.pending /\ t.outbuf = s.outbuf
      /\ t.circ = s.circ /\ t.map = s.map /\ t.n_cells = s.n_cells
      /\ t.n_active = s.n_active /\ t.destroys = d
    BY <1>1, <1>5 DEF ChanType
<1> QED
    BY <1>3, <1>4, <1>6 DEF Queued

\* The id in the queue is backed by the circuit that waits for it.
LEMMA DestroyNoted ==
    ASSUME NEW s \in ChanType, CircOK(s), IdsOK(s), SchedOK(s), Open(s),
           NEW c \in Circs, NEW id \in Ids, s.circ[c].id = id, id \notin Queued(s),
           NEW t \in ChanType, t.state = s.state, t.scheduler_state = s.scheduler_state,
           t.pending = s.pending, t.outbuf = s.outbuf, t.map = s.map,
           t.n_cells = s.n_cells, Queued(t) = Queued(s) \cup {id}, Distinct(t.destroys),
           \A x \in Circs \ {c} : t.circ[x] = s.circ[x],
           t.circ[c].id = id, t.circ[c].queue = s.circ[c].queue,
           t.circ[c].cell_count = s.circ[c].cell_count,
           t.circ[c].marked = s.circ[c].marked, t.circ[c].blocked = s.circ[c].blocked,
           t.circ[c].delete_pending
    PROVE  CircOK(t) /\ IdsOK(t) /\ SchedOK(t)
<1>n. 0 \notin Circs /\ -1 \notin Circs /\ 0 \notin Ids
    BY ChannelsAssumption
<1>3. s.map[id] = c /\ Legal(s, s.circ[c])
    BY <1>n, OnChannel
<1>4. /\ \A i \in Queued(s) : Backed(s, i)
      /\ \A i \in Ids : s.map[i] = Placeholder => i \in Queued(s)
      /\ \A x \in Circs : s.circ[x].delete_pending => s.circ[x].id \in Queued(s)
    BY IdsOKParts DEF Open
<1>10. CircOK(t)
  <2>1. ASSUME NEW x \in Circs PROVE CircuitOK(t, x)
    <3>1. CircuitOK(s, x)
        BY CircOKParts
    <3>2. CASE x = c
      <4>1. Legal(t, t.circ[c])
          BY <1>3, SameLegal
      <4>2. t.circ[c].id = id /\ id # 0 /\ t.map[id] = c
          BY <1>3, <1>n
      <4> QED
          BY ONLY <4>1, <4>2, <3>2, SMTT(30) DEF CircuitOK
    <3>3. CASE x # c
      <4>1. t.circ[x] = s.circ[x]
          BY <3>3
      <4>2. Legal(s, s.circ[x]) => Legal(t, t.circ[x])
          BY <4>1, SameLegal
      <4> QED
          BY <4>1, <4>2, <3>1 DEF CircuitOK
    <3> QED
        BY <3>2, <3>3
  <2>2. ASSUME NEW i \in Ids, t.map[i] \in Circs PROVE t.circ[t.map[i]].id = i
    <3>1. s.map[i] \in Circs /\ s.circ[s.map[i]].id = i
        BY <2>2, CircOKParts
    <3> QED
        BY <3>1
  <2>3. t.state = "OPEN"
      BY DEF Open
  <2> QED
      BY <2>1, <2>2, <2>3, CircOKParts
<1>11. IdsOK(t)
  <2>1. ASSUME NEW i \in Queued(t) PROVE Backed(t, i)
    <3>1. CASE i = id
        BY <3>1, <1>3 DEF Backed
    <3>2. CASE i \in Queued(s)
      <4>1. Backed(s, i)
          BY <3>2, <1>4
      <4> QED
          BY <4>1 DEF Backed
    <3> QED
        BY <3>1, <3>2
  <2>2. \A i \in Ids : t.map[i] = Placeholder => i \in Queued(t)
      BY <1>4
  <2>3. \A x \in Circs : t.circ[x].delete_pending => t.circ[x].id \in Queued(t)
      BY <1>4
  <2>4. t.state # "OPENING"
      BY DEF Open
  <2> QED
      BY <2>1, <2>2, <2>3, <2>4, IdsOKParts
<1>12. SchedOK(t)
    BY DEF SchedOK, Open
<1> QED
    BY <1>10, <1>11, <1>12

\* A channel on which the DESTROY of circuit c has been queued.
DestroySent(s, t, c) ==
  /\ Sound(t) /\ t.state = s.state /\ t.scheduler_state = s.scheduler_state
  /\ t.pending = s.pending /\ t.outbuf = s.outbuf
  /\ \A x \in Circs \ {c} : t.circ[x] = s.circ[x]
  /\ t.circ[c].id = s.circ[c].id /\ t.circ[c].marked = s.circ[c].marked

\* circuitmux_append_destroy_cell for a circuit on its channel.
LEMMA SendDestroy ==
    ASSUME NEW s, Sound(s), Open(s), NEW c \in Circs, s.circ[c].id # 0,
           ~s.circ[c].delete_pending,
           NEW u, u = Put(s, c, SendDestroyRec(s.circ[c])),
           NEW t, t = QueueDestroy(u, s.circ[c].id)
    PROVE  DestroySent(s, t, c)
<1> DEFINE id == s.circ[c].id
           q == SendDestroyRec(s.circ[c])
<1>0. /\ s \in ChanType /\ CircOK(s) /\ CountOK(s) /\ IdsOK(s) /\ SchedOK(s)
      /\ s.circ[c] \in CircType
    BY DEF Sound, ChanType, CircuitsOK
<1>1. /\ q \in CircType /\ q.id = id /\ q.marked = s.circ[c].marked
      /\ q.queue = s.circ[c].queue /\ q.delete_pending
      /\ q.cell_count = s.circ[c].cell_count /\ q.blocked = s.circ[c].blocked
    BY <1>0 DEF SendDestroyRec, CircType
<1>2. SameButCircuit(s, u, c) /\ u.circ[c] = q
    BY <1>0, <1>1, PutCircuit
<1>3. id \in Ids /\ s.map[id] = c
    BY <1>0, OnChannel
<1>n. -1 \notin Circs
    BY ChannelsAssumption
<1>4. Distinct(s.destroys) /\ \A i \in Queued(s) : Backed(s, i)
    BY <1>0, IdsOKParts DEF Open
<1>5. id \notin Queued(s)
    BY <1>3, <1>4, <1>n DEF Backed, Placeholder
<1>a. t = QueueDestroy(u, id) /\ s.circ[c].id = id /\ Open(s) /\ c \in Circs
    OBVIOUS
<1> HIDE DEF q, id
<1>6. u \in ChanType /\ Queued(u) = Queued(s) /\ Distinct(u.destroys)
    BY ONLY <1>2, <1>4, SMTT(30) DEF SameButCircuit, Queued
<1>7. /\ t \in ChanType /\ t.state = u.state /\ t.scheduler_state = u.scheduler_state
      /\ t.pending = u.pending /\ t.outbuf = u.outbuf
      /\ t.circ = u.circ /\ t.map = u.map /\ t.n_cells = u.n_cells
      /\ t.n_active = u.n_active
      /\ Queued(t) = Queued(u) \cup {id} /\ Distinct(t.destroys)
    BY ONLY <1>a, <1>3, <1>5, <1>6, AppendQueued, SMTT(30)
<1>8. /\ t.state = s.state /\ t.scheduler_state = s.scheduler_state
      /\ t.pending = s.pending /\ t.outbuf = s.outbuf
      /\ t.circ[c] = q /\ \A x \in Circs \ {c} : t.circ[x] = s.circ[x]
      /\ t.map = s.map /\ t.n_cells = s.n_cells /\ t.n_active = s.n_active
      /\ Queued(t) = Queued(s) \cup {id} /\ t \in ChanType /\ Distinct(t.destroys)
    BY ONLY <1>2, <1>6, <1>7, SMTT(30) DEF SameButCircuit
<1>9. CountOK(t)
  <2>1. CountOK(u)
      BY <1>0, <1>1, <1>2, CountKept
  <2> QED
      BY ONLY <2>1, <1>7, SMTT(30) DEF CountOK, Counted, Active
<1>10. CircOK(t) /\ IdsOK(t) /\ SchedOK(t)
    BY ONLY <1>a, <1>0, <1>1, <1>3, <1>5, <1>8, DestroyNoted, SMTT(30)
<1> QED
    BY ONLY <1>a, <1>1, <1>8, <1>9, <1>10, SMTT(30) DEF DestroySent, Sound, CircuitsOK

-----------------------------------------------------------------------------
(* Channels open, fill and close. *)

\* append_cell_to_circuit_queue and the CREATE cell of a new circuit
LEMMA QueueCellOK ==
    ASSUME CountingLaws, NEW s, Sound(s), s.state \in {"OPEN", "CLOSING"}, NEW c \in Circs,
           s.circ[c].id # 0, ~s.circ[c].marked, NEW t, t = QueueCell(s, c)
    PROVE  /\ Sound(t) /\ t.state = s.state
           /\ \A x \in Circs : /\ t.circ[x].marked = s.circ[x].marked
                               /\ t.circ[x].delete_pending = s.circ[x].delete_pending
           /\ \/ s.scheduler_state # "PENDING" /\ t.scheduler_state = "PENDING" /\ t.pending
              \/ s.scheduler_state # "PENDING" /\ t.scheduler_state # "PENDING"
                 /\ t.pending = s.pending
              \/ t.scheduler_state = s.scheduler_state /\ t.pending = s.pending
<1>0. s \in ChanType /\ CircuitsOK(s) /\ SchedOK(s)
    BY DEF Sound
<1>1. /\ t \in ChanType /\ CircuitsOK(t)
      /\ t.state = s.state /\ t.outbuf = s.outbuf
      /\ \A x \in Circs : /\ t.circ[x].marked = s.circ[x].marked
                          /\ t.circ[x].delete_pending = s.circ[x].delete_pending
      /\ \/ /\ s.scheduler_state = "WAITING_FOR_CELLS"
            /\ t.scheduler_state = "PENDING" /\ t.pending
         \/ /\ s.scheduler_state = "IDLE" /\ t.scheduler_state = "WAITING_TO_WRITE"
            /\ t.pending = s.pending
         \/ /\ s.scheduler_state \in {"PENDING", "WAITING_TO_WRITE"}
            /\ t.scheduler_state = s.scheduler_state /\ t.pending = s.pending
    BY <1>0, QueueCellEffect
<1>2. SchedOK(t)
    BY ONLY <1>0, <1>1, s.state \in {"OPEN", "CLOSING"}, SMTT(30) DEF SchedOK, Open
<1> QED
    BY ONLY <1>1, <1>2, SMTT(30) DEF Sound

\* No circuit of a channel has cells.
LEMMA NoCells ==
    ASSUME CountingLaws, NEW s, \A c \in Circs : s.circ[c].cell_count = Detached
    PROVE  /\ Counted(s) = {} /\ Active(s) = {}
           /\ IsFiniteSet(Counted(s)) /\ Cardinality(Counted(s)) = 0
           /\ Cardinality(Active(s)) = 0
BY DEF CountingLaws, NoCellsLaw

\* The sets a channel's fields are in.  The provers do not look into them.
ChanStates == {"OPENING", "OPEN", "CLOSING", "CLOSED", "FREED"}

\* The sets the fields of a channel are taken from.
SchedStates == {"IDLE", "WAITING_FOR_CELLS", "WAITING_TO_WRITE", "PENDING"}

CircTable == [Circs -> CircType]

IdMap == [Ids -> Circs \cup {Unused, Placeholder}]

IdQueue == Seq(Ids)

\* The type of a channel in terms of these.
LEMMA ChanFields ==
    ChanType = [state : ChanStates, scheduler_state : SchedStates,
                pending : BOOLEAN, outbuf : Nat, circ : CircTable,
                n_cells : Int, n_active : Int, destroys : IdQueue,
                last_was_destroy : BOOLEAN, map : IdMap]
BY DEF ChanType, ChanStates, SchedStates, CircTable, IdMap, IdQueue

\* channel_closed
LEMMA ClosedOK ==
    ASSUME CountingLaws, NEW s, Sound(s), Settled(s), s.state = "CLOSING",
           NEW u, u = [s EXCEPT !.state = "CLOSED", !.outbuf = 0,
                            !.circ = [c \in Circs |-> NoCirc],
                            !.n_cells = 0, !.n_active = 0,
                            !.map = [i \in Ids |-> IF s.map[i] \in Circs
                                                   THEN Unused ELSE s.map[i]]],
           NEW t, t = scheduler_release_channel(u)
    PROVE  /\ Sound(t) /\ Settled(t) /\ ~t.pending
           /\ \A c \in Circs : ~t.circ[c].marked
<1> DEFINE f == [c \in Circs |-> NoCirc]
           m == [i \in Ids |-> IF s.map[i] \in Circs THEN Unused ELSE s.map[i]]
<1>0. /\ s \in ChanType /\ CircOK(s) /\ CountOK(s) /\ IdsOK(s) /\ SchedOK(s)
      /\ s.map \in [Ids -> Circs \cup {Unused, Placeholder}]
    BY DEF Sound, CircuitsOK, ChanType
<1>n. 0 \notin Circs /\ -1 \notin Circs
    BY ChannelsAssumption
<1>1. f \in [Circs -> CircType] /\ \A c \in Circs : f[c] = NoCirc
    BY NoCircType
<1>2. /\ m \in [Ids -> Circs \cup {Unused, Placeholder}]
      /\ \A i \in Ids : m[i] \notin Circs /\ (s.map[i] = Placeholder => m[i] = Placeholder)
    BY <1>0, <1>n DEF Unused, Placeholder
<1>3. u = [s EXCEPT !.state = "CLOSED", !.outbuf = 0, !.circ = f, !.n_cells = 0,
                    !.n_active = 0, !.map = m]
    OBVIOUS
<1> HIDE DEF f, m
<1>4. /\ u \in ChanType /\ u.state = "CLOSED" /\ u.circ = f /\ u.map = m
      /\ u.n_cells = 0 /\ u.n_active = 0 /\ u.destroys = s.destroys
  <2>1. s \in ChanType /\ "CLOSED" \in ChanStates /\ f \in CircTable /\ m \in IdMap
        /\ 0 \in Nat /\ 0 \in Int
      BY <1>0, <1>1, <1>2 DEF ChanStates, CircTable, IdMap
  <2> QED
      BY ONLY <2>1, <1>3, ChanFields, ZenonT(30)
<1>a. t = scheduler_release_channel(u) /\ Settled(s)
    OBVIOUS
<1>5. /\ t \in ChanType /\ t.state = "CLOSED" /\ t.circ = f /\ t.map = m
      /\ t.n_cells = 0 /\ t.n_active = 0 /\ t.destroys = s.destroys
      /\ t.scheduler_state = "IDLE" /\ ~t.pending
    BY ONLY <1>a, <1>4, SchedEffect, SMTT(30) DEF SameButSched
<1>6. \A c \in Circs : /\ t.circ[c] = NoCirc /\ t.circ[c].id = 0 /\ ~t.circ[c].marked
                       /\ t.circ[c].cell_count = Detached /\ ~t.circ[c].delete_pending
    BY ONLY <1>1, <1>5, SMTT(30) DEF NoCirc
<1>7. CountOK(t)
    BY ONLY CountingLaws, <1>5, <1>6, NoCells, SMTT(30) DEF CountOK
<1>8. CircOK(t)
    BY ONLY <1>2, <1>5, <1>6, SMTT(30) DEF CircOK
<1>9. IdsOK(t)
  <2>1. Queued(t) = Queued(s) /\ Queued(s) \subseteq Ids
      BY <1>0, <1>5, QueuedIds DEF Queued
  <2>2. ASSUME NEW i \in Queued(t) PROVE Backed(t, i)
    <3>1. Backed(s, i)
        BY <2>1, <1>0 DEF IdsOK, Backed
    <3>2. s.map[i] = Placeholder
        BY <3>1, <1>a DEF Settled, Backed
    <3> QED
        BY ONLY <3>2, <2>1, <2>2, <1>2, <1>5, SMTT(30) DEF Backed
  <2>3. Distinct(t.destroys)
      BY <1>0, <1>5 DEF IdsOK, Distinct
  <2> QED
      BY ONLY <2>2, <2>3, <1>5, IdsOKParts, SMTT(30) DEF Open
<1>10. SchedOK(t) /\ Settled(t)
    BY ONLY <1>5, <1>6, SMTT(30) DEF SchedOK, Settled, Open
<1> QED
    BY ONLY <1>5, <1>6, <1>7, <1>8, <1>9, <1>10, SMTT(30) DEF Sound, CircuitsOK

\* channel_free
LEMMA FreedOK ==
    ASSUME NEW s, Sound(s), Settled(s), s.state = "CLOSED",
           NEW u, u = [s EXCEPT !.state = "FREED", !.destroys = <<>>,
                            !.map = [i \in Ids |-> IF i \in Queued(s)
                                                   THEN Unused ELSE s.map[i]]],
           NEW t, t = scheduler_release_channel(u)
    PROVE  Sound(t) /\ Settled(t) /\ ~t.pending /\ t.circ = s.circ
<1> DEFINE m == [i \in Ids |-> IF i \in Queued(s) THEN Unused ELSE s.map[i]]
<1>0. /\ s \in ChanType /\ CircOK(s) /\ CountOK(s) /\ IdsOK(s) /\ SchedOK(s)
      /\ s.map \in [Ids -> Circs \cup {Unused, Placeholder}]
    BY DEF Sound, CircuitsOK, ChanType
<1>n. 0 \notin Circs /\ 0 \notin Ids
    BY ChannelsAssumption
<1>1. /\ \A c \in Circs : s.circ[c].id = 0
      /\ \A i \in Ids : s.map[i] \in Circs => s.circ[s.map[i]].id = i
    BY <1>0, CircOKParts
<1>2. /\ m \in [Ids -> Circs \cup {Unused, Placeholder}]
      /\ \A i \in Ids : m[i] \notin Circs
    BY ONLY <1>0, <1>1, <1>n, SMTT(30) DEF Unused
<1>3. u = [s EXCEPT !.state = "FREED", !.destroys = <<>>, !.map = m]
    OBVIOUS
<1>a. t = scheduler_release_channel(u) /\ Settled(s)
    OBVIOUS
<1> HIDE DEF m
<1>4. /\ u \in ChanType /\ u.state = "FREED" /\ u.circ = s.circ /\ u.map = m
      /\ u.n_cells = s.n_cells /\ u.n_active = s.n_active /\ u.destroys = <<>>
  <2>1. s \in ChanType /\ "FREED" \in ChanStates /\ <<>> \in IdQueue /\ m \in IdMap
      BY <1>0, <1>2 DEF ChanStates, IdQueue, IdMap
  <2> QED
      BY ONLY <2>1, <1>3, ChanFields, ZenonT(30)
<1>5. /\ t \in ChanType /\ t.state = "FREED" /\ t.circ = s.circ /\ t.map = m
      /\ t.n_cells = s.n_cells /\ t.n_active = s.n_active /\ t.destroys = <<>>
      /\ t.scheduler_state = "IDLE" /\ ~t.pending
    BY ONLY <1>a, <1>4, SchedEffect, SMTT(30) DEF SameButSched
<1>6. CountOK(t)
    BY ONLY <1>0, <1>5, SMTT(30) DEF CountOK, Counted, Active
<1>7. CircOK(t)
  <2>1. \A c \in Circs : t.circ[c] = NoCirc
      BY <1>0, <1>1, <1>5, OffChannel
  <2> QED
      BY ONLY <2>1, <1>1, <1>2, <1>5, SMTT(30) DEF CircOK
<1>8. IdsOK(t)
  <2>1. t.destroys = <<>> /\ DOMAIN <<>> = {}
      BY <1>5
  <2>2. Queued(t) = {} /\ Distinct(t.destroys)
      BY ONLY <2>1, SMTT(30) DEF Queued, Distinct
  <2> QED
      BY ONLY <2>2, <1>5, IdsOKParts, SMTT(30) DEF Open
<1>9. SchedOK(t) /\ Settled(t)
    BY ONLY <1>a, <1>5, SMTT(30) DEF SchedOK, Settled, Open
<1> QED
    BY ONLY <1>5, <1>6, <1>7, <1>8, <1>9, SMTT(30) DEF Sound, CircuitsOK

\* A channel that has just become open, before the scheduler hears of it.
LEMMA Opens ==
    ASSUME CountingLaws, NEW s, Sound(s), s.state = "OPENING", NEW t, t = [s EXCEPT !.state = "OPEN"]
    PROVE  /\ t \in ChanType /\ CircuitsOK(t) /\ Open(t) /\ t.n_cells = 0
           /\ t.circ = s.circ /\ t.outbuf = s.outbuf
           /\ \A c \in Circs : t.circ[c].id = 0
           /\ \A i \in Ids : t.map[i] = Unused
           /\ t.scheduler_state = s.scheduler_state /\ t.pending = s.pending
           /\ t.scheduler_state \in {"IDLE", "WAITING_FOR_CELLS"} /\ ~t.pending
<1>0. s \in ChanType /\ CircOK(s) /\ CountOK(s) /\ IdsOK(s) /\ SchedOK(s)
    BY DEF Sound, CircuitsOK
<1>1. /\ t \in ChanType /\ t.state = "OPEN" /\ t.circ = s.circ /\ t.map = s.map
      /\ t.n_cells = s.n_cells /\ t.n_active = s.n_active /\ t.destroys = s.destroys
      /\ t.scheduler_state = s.scheduler_state /\ t.pending = s.pending
      /\ t.outbuf = s.outbuf
    BY <1>0 DEF ChanType
<1>2. \A c \in Circs : s.circ[c].id = 0 /\ s.circ[c] = NoCirc
    BY <1>0, CircOKParts, OffChannel
<1>3. /\ s.destroys = <<>> /\ DOMAIN <<>> = {} /\ \A i \in Ids : s.map[i] = Unused
    BY <1>0 DEF IdsOK
<1>4. s.scheduler_state \in {"IDLE", "WAITING_FOR_CELLS"} /\ ~s.pending
    BY <1>0 DEF SchedOK
<1>5. \A c \in Circs : s.circ[c].cell_count = Detached /\ ~s.circ[c].delete_pending
    BY <1>2 DEF NoCirc
<1>6. s.n_cells = 0
    BY ONLY CountingLaws, <1>0, <1>5, NoCells, SMTT(30) DEF CountOK
<1>7. CountOK(t)
    BY ONLY <1>0, <1>1, SMTT(30) DEF CountOK, Counted, Active
<1>n. 0 \notin Circs
    BY ChannelsAssumption
<1>8. CircOK(t)
    BY ONLY <1>1, <1>2, <1>3, <1>n, SMTT(30) DEF CircOK, Unused
<1>9. IdsOK(t)
  <2>1. Queued(t) = {} /\ Distinct(t.destroys) /\ t.state # "OPENING"
      BY ONLY <1>1, <1>3, SMTT(30) DEF Queued, Distinct
  <2>2. \A i \in Ids : t.map[i] # Placeholder
      BY <1>1, <1>3 DEF Unused, Placeholder
  <2> QED
      BY ONLY <2>1, <2>2, <1>1, <1>5, IdsOKParts, SMTT(30)
<1> QED
    BY ONLY <1>1, <1>2, <1>3, <1>4, <1>6, <1>7, <1>8, <1>9, SMTT(30) DEF CircuitsOK, Open

\* channel_change_state_open: with or without a circuit that waited for it.
LEMMA OpenedOK ==
    ASSUME CountingLaws, NEW s, Sound(s), s.state = "OPENING", high \in HighMarks,
           NEW t, t = [s EXCEPT !.state = "OPEN"],
           NEW u, \/ u = t
                  \/ \E c \in Circs, id \in Ids :
                       u = QueueCell(circuit_set_circid_chan(t, c, id), c),
           NEW v, v = IF u.outbuf < high THEN scheduler_channel_wants_writes(u) ELSE u
    PROVE  /\ Sound(v) /\ (v.scheduler_state = "PENDING" => v.pending)
           /\ \A x \in Circs : /\ v.circ[x].marked = s.circ[x].marked
                               /\ v.circ[x].delete_pending = s.circ[x].delete_pending
<1>1. /\ t \in ChanType /\ CircuitsOK(t) /\ Open(t) /\ t.n_cells = 0
      /\ t.circ = s.circ
      /\ \A c \in Circs : t.circ[c].id = 0
      /\ \A i \in Ids : t.map[i] = Unused
      /\ t.scheduler_state \in {"IDLE", "WAITING_FOR_CELLS"} /\ ~t.pending
  <2>1. Sound(s) /\ s.state = "OPENING" /\ t = [s EXCEPT !.state = "OPEN"]
      OBVIOUS
  <2> QED
      BY ONLY CountingLaws, <2>1, Opens, ZenonT(30)
<1>2. /\ u \in ChanType /\ CircuitsOK(u) /\ Open(u)
      /\ \A x \in Circs : /\ u.circ[x].marked = s.circ[x].marked
                          /\ u.circ[x].delete_pending = s.circ[x].delete_pending
      /\ \/ u.n_cells = 0 /\ u.scheduler_state \in {"IDLE", "WAITING_FOR_CELLS"} /\ ~u.pending
         \/ u.scheduler_state = "PENDING" /\ u.pending
         \/ u.scheduler_state = "WAITING_TO_WRITE" /\ ~u.pending
  <2>1. CASE u = t
      BY ONLY <2>1, <1>1, SMTT(30)
  <2>2. ASSUME NEW c \in Circs, NEW id \in Ids,
               u = QueueCell(circuit_set_circid_chan(t, c, id), c)
        PROVE  /\ u \in ChanType /\ CircuitsOK(u) /\ Open(u)
               /\ \A x \in Circs : /\ u.circ[x].marked = s.circ[x].marked
                                   /\ u.circ[x].delete_pending = s.circ[x].delete_pending
               /\ \/ u.scheduler_state = "PENDING" /\ u.pending
                  \/ u.scheduler_state = "WAITING_TO_WRITE" /\ ~u.pending
    <3> DEFINE w == circuit_set_circid_chan(t, c, id)
    <3>0. u = QueueCell(w, c) /\ c \in Circs
        BY <2>2
    <3>a. c \in Circs /\ id \in Ids
        OBVIOUS
    <3>1. /\ w \in ChanType /\ CircuitsOK(w) /\ w.state = t.state
          /\ w.scheduler_state = t.scheduler_state /\ w.pending = t.pending
          /\ w.circ[c].id # 0
          /\ \A x \in Circs : /\ w.circ[x].marked = t.circ[x].marked
                              /\ w.circ[x].delete_pending = t.circ[x].delete_pending
        BY ONLY CountingLaws, <3>a, <1>1, SetCircid, SMTT(30)
    <3> HIDE DEF w
    <3>2. ~w.circ[c].marked
      <4>1. CircOK(t) /\ t.circ[c].id = 0
          BY <1>1 DEF CircuitsOK
      <4>2. ~t.circ[c].marked
          BY <4>1, <1>1, OffChannel
      <4> QED
          BY <4>2, <3>1
    <3>3. /\ u \in ChanType /\ CircuitsOK(u) /\ u.state = w.state
          /\ \A x \in Circs : /\ u.circ[x].marked = w.circ[x].marked
                              /\ u.circ[x].delete_pending = w.circ[x].delete_pending
          /\ \/ /\ w.scheduler_state = "WAITING_FOR_CELLS"
                /\ u.scheduler_state = "PENDING" /\ u.pending
             \/ /\ w.scheduler_state = "IDLE" /\ u.scheduler_state = "WAITING_TO_WRITE"
                /\ u.pending = w.pending
             \/ /\ w.scheduler_state \in {"PENDING", "WAITING_TO_WRITE"}
                /\ u.scheduler_state = w.scheduler_state /\ u.pending = w.pending
        BY ONLY CountingLaws, <3>0, <3>1, <3>2, QueueCellEffect, SMTT(30)
    <3> QED
        BY ONLY <1>1, <3>1, <3>3, SMTT(30) DEF Open
  <2> QED
      BY <2>1, <2>2
<1>h. u.outbuf \in Nat /\ high \in Nat \ {0}
    BY <1>2, ChannelsAssumption DEF ChanType
<1>v. v = IF u.outbuf < high THEN scheduler_channel_wants_writes(u) ELSE u
    OBVIOUS
<1>3. CASE u.outbuf < high
  <2>1. v = scheduler_channel_wants_writes(u)
      BY <1>3, <1>v
  <2>2. SameButSched(u, v)
      BY ONLY <1>2, <2>1, SchedEffect, SMTT(30)
  <2>3. \/ u.scheduler_state = "WAITING_TO_WRITE" /\ v.scheduler_state = "PENDING" /\ v.pending
        \/ /\ u.scheduler_state = "IDLE" /\ v.scheduler_state = "WAITING_FOR_CELLS"
           /\ v.pending = u.pending
        \/ /\ u.scheduler_state \in {"PENDING", "WAITING_FOR_CELLS"}
           /\ v = u
      BY ONLY <1>2, <2>1, WantsWrites, SMTT(30)
  <2>4. CircuitsOK(v)
      BY ONLY <1>2, <2>2, Frame, SMTT(30) DEF SameButSched
  <2>5. v \in ChanType /\ v.state = u.state /\ v.circ = u.circ /\ v.n_cells = u.n_cells
      BY ONLY <2>2, SMTT(30) DEF SameButSched
  <2>6. SchedOK(v) /\ (v.scheduler_state = "PENDING" => v.pending)
      BY ONLY <1>2, <2>3, <2>5, SMTT(30) DEF SchedOK, Open
  <2> QED
      BY ONLY <1>2, <2>4, <2>5, <2>6, SMTT(30) DEF Sound
<1>4. CASE ~(u.outbuf < high)
  <2>1. v = u /\ u.outbuf > 0
      BY <1>4, <1>h, <1>v
  <2>2. SchedOK(u)
      BY ONLY <1>2, <2>1, SMTT(30) DEF SchedOK, Open
  <2> QED
      BY ONLY <1>2, <2>1, <2>2, SMTT(30) DEF Sound
<1> QED
    BY <1>3, <1>4

-----------------------------------------------------------------------------
(* Callbacks of the event loop. *)

\* The invariant, taken apart ...
LEMMA Parts ==
    ASSUME IndInv
    PROVE  TypeOK /\ RunInv /\ CloseInv /\ \A ch \in Chans : Sound(chans[ch])
<1>1. chans \in [Chans -> ChanType]
    BY DEF IndInv, TypeOK
<1>2. ASSUME NEW ch \in Chans PROVE Sound(chans[ch])
    BY <1>1 DEF IndInv, ChanOK, Sound, CircuitsOK
<1> QED
    BY <1>2 DEF IndInv

\* ... and put together.
LEMMA Built ==
    ASSUME TypeOK', RunInv', CloseInv', \A ch \in Chans : Sound(chans'[ch])
    PROVE  IndInv'
<1>2. ASSUME NEW ch \in Chans PROVE ChanOK(chans[ch])'
    BY DEF ChanOK, Sound, CircuitsOK
<1> QED
    BY <1>2 DEF IndInv

\* Between callbacks.
LEMMA LoopFacts ==
    ASSUME IndInv, main.at = "loop"
    PROVE  /\ TypeOK /\ main.readd = {} /\ main.outbufs = {} /\ main.chan = 0
           /\ circuits_pending_close \subseteq Marked
           /\ \A ch \in Chans : /\ Sound(chans[ch]) /\ Settled(chans[ch])
                                /\ chans[ch].pending => run_sched_ev
<1>1. TypeOK /\ RunInv /\ CloseInv /\ \A ch \in Chans : Sound(chans[ch])
    BY Parts
<1>2. /\ main.readd = {} /\ main.outbufs = {} /\ main.chan = 0
      /\ \A ch \in Chans : chans[ch].pending => run_sched_ev
    BY <1>1 DEF RunInv
<1>3. Held = {}
    BY <1>2 DEF Held
<1>4. circuits_pending_close \subseteq Marked
    BY <1>1 DEF CloseInv, Walking
<1>5. ASSUME NEW ch \in Chans PROVE Settled(chans[ch])
    BY <1>1, <1>3 DEF RunInv, CloseInv, Settled
<1> QED
    BY <1>1, <1>2, <1>4, <1>5

\* A callback that leaves every channel sound and settled, the event due for
\* those that are pending, and the marked circuits on their list, keeps the
\* invariant.
LEMMA LoopStep ==
    ASSUME IndInv, main.at = "loop", main' = main,
           chans' \in [Chans -> ChanType],
           \A ch \in Chans : /\ Sound(chans'[ch]) /\ Settled(chans'[ch])
                             /\ chans'[ch].pending => run_sched_ev',
           run_sched_ev' \in BOOLEAN, high' \in HighMarks,
           the_scheduler' \in {"KIST", "KISTLite", "Vanilla"},
           circuits_pending_close' \subseteq Marked'
    PROVE  IndInv'
<1>1. TypeOK /\ main.readd = {} /\ main.outbufs = {} /\ main.chan = 0
    BY LoopFacts
<1>2. Marked' \subseteq Chans \X Circs
    BY DEF Marked
<1>3. TypeOK'
    BY <1>1, <1>2 DEF TypeOK
<1>4. Held' = {}
    BY <1>1 DEF Held
<1>5. RunInv'
    BY <1>1, <1>4 DEF RunInv, Settled
<1>6. CloseInv'
    BY DEF CloseInv, Settled, Walking
<1> QED
    BY <1>3, <1>5, <1>6, Built

\* One channel changes.
LEMMA ChannelStep ==
    ASSUME IndInv, main.at = "loop", main' = main, NEW ch \in Chans, NEW t, Set(ch, t),
           Sound(t), Settled(t), t.pending => run_sched_ev',
           run_sched_ev => run_sched_ev', run_sched_ev' \in BOOLEAN,
           UNCHANGED <<the_scheduler, high>>,
           circuits_pending_close' \subseteq Marked'
    PROVE  IndInv'
<1>1. /\ TypeOK
      /\ \A x \in Chans : /\ Sound(chans[x]) /\ Settled(chans[x])
                          /\ chans[x].pending => run_sched_ev
    BY LoopFacts
<1>2. chans \in [Chans -> ChanType] /\ t \in ChanType
    BY <1>1 DEF TypeOK, Sound
<1>3. chans' \in [Chans -> ChanType] /\ chans'[ch] = t
      /\ \A x \in Chans \ {ch} : chans'[x] = chans[x]
    BY <1>2 DEF Set
<1>4. high' \in HighMarks /\ the_scheduler' \in {"KIST", "KISTLite", "Vanilla"}
    BY <1>1 DEF TypeOK
<1>5. \A x \in Chans : /\ Sound(chans'[x]) /\ Settled(chans'[x])
                       /\ chans'[x].pending => run_sched_ev'
    BY <1>1, <1>3
<1> QED
    BY <1>3, <1>4, <1>5, LoopStep

\* the_scheduler->schedule() after a change of one channel
LEMMA Schedules ==
    ASSUME TypeOK, NEW ch \in Chans, NEW t, Set(ch, t), schedule,
           chans[ch].pending => run_sched_ev
    PROVE  /\ t.pending => run_sched_ev'
           /\ (run_sched_ev => run_sched_ev') /\ run_sched_ev' \in BOOLEAN
<1>1. chans'[ch] = t
    BY DEF TypeOK, Set
<1> QED
    BY <1>1 DEF schedule, TypeOK

\* A callback that marks no circuit.
LEMMA MarksKept ==
    ASSUME TypeOK, NEW ch \in Chans, NEW t, Set(ch, t), circuits_pending_close \subseteq Marked,
           \A x \in Circs : t.circ[x].marked = chans[ch].circ[x].marked,
           UNCHANGED circuits_pending_close
    PROVE  circuits_pending_close' \subseteq Marked'
<1>1. chans'[ch] = t /\ \A x \in Chans \ {ch} : chans'[x] = chans[x]
    BY DEF TypeOK, Set
<1>2. \A y \in Chans, x \in Circs : chans'[y].circ[x].marked = chans[y].circ[x].marked
    BY <1>1
<1> QED
    BY <1>2 DEF Marked

\* A step that marks circuits and puts them on the list.
LEMMA MarksNoted ==
    ASSUME circuits_pending_close \subseteq Marked, NoteMarked,
           \A y \in Chans, x \in Circs : chans[y].circ[x].marked => chans'[y].circ[x].marked
    PROVE  circuits_pending_close' \subseteq Marked'
BY DEF Marked, NoteMarked

\* Writing to the kernel loses no pending channel.
LEMMA SettledKept ==
    ASSUME NEW s, NEW t, Settled(s), Wrote(s, t)
    PROVE  Settled(t)
BY DEF Settled, Wrote

\* connection_handle_write keeps the invariant.
LEMMA HandleWriteStep ==
    ASSUME IndInv, NEW ch \in Chans, connection_handle_write(ch) PROVE IndInv'
<1> DEFINE s == chans[ch]
<1>1. /\ main.at = "loop" /\ s.outbuf > 0 /\ ~Condemned(s) /\ schedule /\ main' = main
      /\ UNCHANGED <<the_scheduler, high>> /\ UNCHANGED circuits_pending_close
    BY DEF connection_handle_write
<1>2. PICK k \in 1 .. s.outbuf : Set(ch, FlushedSome(s, k))
    BY DEF connection_handle_write
<1>3. /\ TypeOK /\ circuits_pending_close \subseteq Marked /\ Sound(s) /\ Settled(s)
      /\ s.pending => run_sched_ev
    BY <1>1, LoopFacts
<1> DEFINE t == FlushedSome(s, k)
<1>4. k \in 0 .. s.outbuf
    OBVIOUS
<1>5. Wrote(s, t)
    BY ONLY <1>1, <1>3, <1>4, FlushedSomeOK, SMTT(30)
<1> HIDE DEF t
<1>6. Set(ch, t)
    BY <1>2 DEF t
<1>7. Sound(t) /\ Settled(t) /\ t.circ = s.circ
    BY <1>3, <1>5, SettledKept DEF Wrote
<1>8. /\ t.pending => run_sched_ev'
      /\ (run_sched_ev => run_sched_ev') /\ run_sched_ev' \in BOOLEAN
    BY <1>1, <1>3, <1>6, Schedules
<1>9. circuits_pending_close' \subseteq Marked'
    BY <1>1, <1>3, <1>6, <1>7, MarksKept
<1>10. /\ IndInv /\ ch \in Chans /\ main.at = "loop" /\ main' = main
       /\ UNCHANGED <<the_scheduler, high>> /\ Sound(t)
    BY <1>1, <1>7
<1> QED
    BY ONLY <1>6, <1>7, <1>8, <1>9, <1>10, ChannelStep, SMTT(30)

\* A cell that bypasses the queues keeps it.
LEMMA WriteCellStep ==
    ASSUME IndInv, NEW ch \in Chans, channel_write_cell(ch) PROVE IndInv'
<1> DEFINE s == chans[ch]
           t == [s EXCEPT !.outbuf = @ + Cell]
<1>1. /\ main.at = "loop" /\ ~Condemned(s) /\ main' = main /\ Set(ch, t)
      /\ UNCHANGED <<the_scheduler, high>> /\ UNCHANGED circuits_pending_close
      /\ run_sched_ev' = run_sched_ev
    BY DEF channel_write_cell
<1>3. /\ TypeOK /\ circuits_pending_close \subseteq Marked /\ Sound(s) /\ Settled(s)
      /\ s.pending => run_sched_ev
    BY <1>1, LoopFacts
<1>5. Wrote(s, t)
    BY ONLY <1>1, <1>3, DirectCell, SMTT(30)
<1>a. t.pending = s.pending
    OBVIOUS
<1> HIDE DEF t
<1>7. Sound(t) /\ Settled(t) /\ t.circ = s.circ
    BY <1>3, <1>5, SettledKept DEF Wrote
<1>8. run_sched_ev' \in BOOLEAN /\ (t.pending => run_sched_ev') /\ (run_sched_ev => run_sched_ev')
    BY <1>1, <1>3, <1>a DEF TypeOK
<1>9. circuits_pending_close' \subseteq Marked'
    BY <1>1, <1>3, <1>7, MarksKept
<1> QED
    BY <1>1, <1>7, <1>8, <1>9, ChannelStep

\* channel_mark_for_close keeps it.
LEMMA CloseChannelStep ==
    ASSUME IndInv, NEW ch \in Chans, CloseChannel(ch) PROVE IndInv'
<1> DEFINE s == chans[ch]
           t == channel_mark_for_close(s)
<1>1. /\ main.at = "loop" /\ ~Condemned(s) /\ main' = main /\ Set(ch, t)
      /\ UNCHANGED <<the_scheduler, high>> /\ UNCHANGED circuits_pending_close
      /\ run_sched_ev' = run_sched_ev
    BY DEF CloseChannel
<1>3. /\ TypeOK /\ circuits_pending_close \subseteq Marked /\ Sound(s) /\ Settled(s)
      /\ s.pending => run_sched_ev
    BY <1>1, LoopFacts
<1>4. s \in ChanType /\ CircuitsOK(s) /\ SchedOK(s)
    BY <1>3 DEF Sound
<1>5. /\ t \in ChanType /\ CircuitsOK(t) /\ SchedOK(t) /\ t.circ = s.circ
      /\ t.state = "CLOSING" /\ t.scheduler_state = "IDLE" /\ ~t.pending
    BY ONLY <1>1, <1>4, MarkForClose, SMTT(30)
<1> HIDE DEF t
<1>7. Sound(t) /\ Settled(t)
    BY <1>3, <1>5 DEF Sound, Settled
<1>8. run_sched_ev' \in BOOLEAN /\ (t.pending => run_sched_ev') /\ (run_sched_ev => run_sched_ev')
    BY <1>1, <1>3, <1>5 DEF TypeOK
<1>9. circuits_pending_close' \subseteq Marked'
    BY <1>1, <1>3, <1>5, MarksKept
<1> QED
    BY <1>1, <1>7, <1>8, <1>9, ChannelStep

\* channel_closed keeps it: circuit_unlink_all_from_channel takes the channel's
\* circuits off the list as well.
LEMMA ClosedStep ==
    ASSUME CountingLaws, IndInv, NEW ch \in Chans, channel_closed(ch) PROVE IndInv'
<1> DEFINE s == chans[ch]
           u == [s EXCEPT !.state = "CLOSED", !.outbuf = 0,
                          !.circ = [c \in Circs |-> NoCirc],
                          !.n_cells = 0, !.n_active = 0,
                          !.map = [i \in Ids |-> IF s.map[i] \in Circs
                                                 THEN Unused ELSE s.map[i]]]
           t == scheduler_release_channel(u)
<1>1. /\ main.at = "loop" /\ s.state = "CLOSING" /\ main' = main /\ Set(ch, t)
      /\ UNCHANGED <<the_scheduler, high>> /\ run_sched_ev' = run_sched_ev
      /\ circuits_pending_close' = {p \in circuits_pending_close : p[1] # ch}
    BY DEF channel_closed
<1>3. /\ TypeOK /\ circuits_pending_close \subseteq Marked /\ Sound(s) /\ Settled(s)
    BY <1>1, LoopFacts
<1>5. Sound(t) /\ Settled(t) /\ ~t.pending /\ \A c \in Circs : ~t.circ[c].marked
    BY ONLY CountingLaws, <1>1, <1>3, ClosedOK, ZenonT(30)
<1> HIDE DEF t
<1>8. run_sched_ev' \in BOOLEAN /\ (t.pending => run_sched_ev') /\ (run_sched_ev => run_sched_ev')
    BY <1>1, <1>3, <1>5 DEF TypeOK
<1>9. circuits_pending_close' \subseteq Marked'
  <2>1. chans'[ch] = t /\ \A x \in Chans \ {ch} : chans'[x] = chans[x]
      BY <1>1, <1>3 DEF TypeOK, Set
  <2>2. \A p \in Chans \X Circs : p \in Marked' <=> p \in Marked /\ p[1] # ch
      BY <2>1, <1>5 DEF Marked
  <2> QED
      BY <2>2, <1>1, <1>3 DEF Marked
<1> QED
    BY <1>1, <1>5, <1>8, <1>9, ChannelStep

\* channel_free keeps it.
LEMMA FreeStep ==
    ASSUME IndInv, NEW ch \in Chans, channel_free(ch) PROVE IndInv'
<1> DEFINE s == chans[ch]
           u == [s EXCEPT !.state = "FREED", !.destroys = <<>>,
                          !.map = [i \in Ids |-> IF i \in Queued(s)
                                                 THEN Unused ELSE s.map[i]]]
           t == scheduler_release_channel(u)
<1>1. /\ main.at = "loop" /\ s.state = "CLOSED" /\ main' = main /\ Set(ch, t)
      /\ UNCHANGED <<the_scheduler, high>> /\ run_sched_ev' = run_sched_ev
      /\ UNCHANGED circuits_pending_close
    BY DEF channel_free, Queued
<1>3. /\ TypeOK /\ circuits_pending_close \subseteq Marked /\ Sound(s) /\ Settled(s)
    BY <1>1, LoopFacts
<1>5. Sound(t) /\ Settled(t) /\ ~t.pending /\ t.circ = s.circ
    BY ONLY <1>1, <1>3, FreedOK, ZenonT(30)
<1> HIDE DEF t
<1>8. run_sched_ev' \in BOOLEAN /\ (t.pending => run_sched_ev') /\ (run_sched_ev => run_sched_ev')
    BY <1>1, <1>3, <1>5 DEF TypeOK
<1>9. circuits_pending_close' \subseteq Marked'
    BY <1>1, <1>3, <1>5, MarksKept
<1> QED
    BY <1>1, <1>5, <1>8, <1>9, ChannelStep

\* channel_change_state_open keeps it.
LEMMA OpenStep ==
    ASSUME CountingLaws, IndInv, NEW ch \in Chans, channel_change_state_open(ch) PROVE IndInv'
<1> DEFINE s == chans[ch]
           t == [s EXCEPT !.state = "OPEN"]
           W(u) == IF u.outbuf < high THEN scheduler_channel_wants_writes(u) ELSE u
<1>1. /\ main.at = "loop" /\ s.state = "OPENING" /\ main' = main /\ schedule
      /\ UNCHANGED <<the_scheduler, high>> /\ UNCHANGED circuits_pending_close
    BY DEF channel_change_state_open
<1>2. PICK u : /\ Set(ch, W(u))
               /\ \/ u = t
                  \/ \E c \in Circs, id \in Ids :
                       u = QueueCell(circuit_set_circid_chan(t, c, id), c)
    BY DEF channel_change_state_open
<1>3. /\ TypeOK /\ circuits_pending_close \subseteq Marked /\ Sound(s) /\ Settled(s)
      /\ (s.pending => run_sched_ev) /\ high \in HighMarks
    BY <1>1, LoopFacts DEF TypeOK
<1> DEFINE v == W(u)
<1>5. /\ Sound(v) /\ (v.scheduler_state = "PENDING" => v.pending)
      /\ \A x \in Circs : /\ v.circ[x].marked = s.circ[x].marked
                          /\ v.circ[x].delete_pending = s.circ[x].delete_pending
    BY ONLY CountingLaws, <1>1, <1>2, <1>3, OpenedOK, SMTT(30)
<1> HIDE DEF v
<1>6. Set(ch, v)
    BY <1>2 DEF v
<1>7. Settled(v)
    BY <1>3, <1>5 DEF Settled
<1>8. /\ v.pending => run_sched_ev'
      /\ (run_sched_ev => run_sched_ev') /\ run_sched_ev' \in BOOLEAN
    BY <1>1, <1>3, <1>6, Schedules
<1>9. circuits_pending_close' \subseteq Marked'
    BY <1>1, <1>3, <1>5, <1>6, MarksKept
<1>10. /\ IndInv /\ ch \in Chans /\ main.at = "loop" /\ main' = main
       /\ UNCHANGED <<the_scheduler, high>> /\ Sound(v)
    BY <1>1, <1>5
<1> QED
    BY ONLY <1>6, <1>7, <1>8, <1>9, <1>10, ChannelStep, SMTT(30)

\* A new consensus keeps it.
LEMMA HighwaterStep ==
    ASSUME IndInv, NEW h \in HighMarks, NewHighwater(h) PROVE IndInv'
<1>1. /\ main.at = "loop" /\ high' = h /\ main' = main /\ chans' = chans
      /\ circuits_pending_close' = circuits_pending_close
      /\ run_sched_ev' = run_sched_ev /\ the_scheduler' = the_scheduler
    BY DEF NewHighwater
<1>2. /\ TypeOK /\ circuits_pending_close \subseteq Marked
      /\ \A x \in Chans : /\ Sound(chans[x]) /\ Settled(chans[x])
                          /\ chans[x].pending => run_sched_ev
    BY <1>1, LoopFacts
<1>3. Marked' = Marked
    BY <1>1 DEF Marked
<1>4. /\ chans' \in [Chans -> ChanType] /\ run_sched_ev' \in BOOLEAN
      /\ the_scheduler' \in {"KIST", "KISTLite", "Vanilla"}
    BY <1>1, <1>2 DEF TypeOK
<1> QED
    BY <1>1, <1>2, <1>3, <1>4, LoopStep

\* A change of scheduler keeps it.
LEMMA SetSchedulerStep ==
    ASSUME IndInv, NEW type \in Schedulers, set_scheduler(type) PROVE IndInv'
<1>1. /\ main.at = "loop" /\ high' = high /\ main' = main /\ chans' = chans
      /\ circuits_pending_close' = circuits_pending_close
      /\ run_sched_ev' = run_sched_ev /\ the_scheduler' = type
    BY DEF set_scheduler
<1>2. /\ TypeOK /\ circuits_pending_close \subseteq Marked
      /\ \A x \in Chans : /\ Sound(chans[x]) /\ Settled(chans[x])
                          /\ chans[x].pending => run_sched_ev
    BY <1>1, LoopFacts
<1>3. Marked' = Marked
    BY <1>1 DEF Marked
<1>4. /\ chans' \in [Chans -> ChanType] /\ run_sched_ev' \in BOOLEAN
      /\ high' \in HighMarks
    BY <1>1, <1>2 DEF TypeOK
<1>5. the_scheduler' \in {"KIST", "KISTLite", "Vanilla"}
    BY <1>1, ChannelsAssumption
<1> QED
    BY <1>1, <1>2, <1>3, <1>4, <1>5, LoopStep

\* Marks, and whatever else an action does to a channel, go with it.
LEMMA MarksOfChannel ==
    ASSUME TypeOK, NEW ch \in Chans, NEW t, Set(ch, t), circuits_pending_close \subseteq Marked,
           NoteMarked, \A x \in Circs : chans[ch].circ[x].marked => t.circ[x].marked
    PROVE  circuits_pending_close' \subseteq Marked'
<1>1. chans'[ch] = t /\ \A x \in Chans \ {ch} : chans'[x] = chans[x]
    BY DEF TypeOK, Set
<1>2. \A y \in Chans, x \in Circs : chans[y].circ[x].marked => chans'[y].circ[x].marked
    BY <1>1
<1> QED
    BY <1>2, MarksNoted

\* Marking a circuit leaves its channel in order.
LEMMA MarksSettled ==
    ASSUME NEW s, Sound(s), Settled(s), NEW c \in Circs, s.circ[c].id # 0,
           NEW t, t = [s EXCEPT !.circ[c].marked = TRUE]
    PROVE  /\ Sound(t) /\ Settled(t) /\ t.pending = s.pending
           /\ \A x \in Circs : s.circ[x].marked => t.circ[x].marked
<1>1. s \in ChanType
    BY DEF Sound
<1>2. t = Put(s, c, MarkedRec(s.circ[c]))
    BY <1>1 DEF Put, MarkedRec
<1>3. /\ Sound(t) /\ SameButCircuit(s, t, c) /\ t.circ[c].marked
      /\ t.circ[c].delete_pending = s.circ[c].delete_pending
    BY <1>2, MarkCircuit
<1>4. /\ t.pending = s.pending /\ t.scheduler_state = s.scheduler_state
      /\ \A x \in Circs \ {c} : t.circ[x] = s.circ[x]
    BY <1>3 DEF SameButCircuit
<1>5. Settled(s)
    OBVIOUS
<1>6. Settled(t)
    BY ONLY <1>3, <1>4, <1>5, SMTT(30) DEF Settled
<1>7. \A x \in Circs : s.circ[x].marked => t.circ[x].marked
    BY ONLY <1>3, <1>4, SMTT(30)
<1> QED
    BY <1>3, <1>4, <1>6, <1>7

\* circuit_mark_for_close keeps the invariant.
LEMMA MarkStep ==
    ASSUME IndInv, NEW ch \in Chans, NEW c \in Circs, circuit_mark_for_close(ch, c)
    PROVE  IndInv'
<1> DEFINE s == chans[ch]
           t == [s EXCEPT !.circ[c].marked = TRUE]
<1>1. /\ main.at = "loop" /\ s.circ[c].id # 0 /\ main' = main /\ Set(ch, t)
      /\ UNCHANGED <<the_scheduler, high>> /\ NoteMarked
      /\ run_sched_ev' = run_sched_ev
    BY DEF circuit_mark_for_close
<1>3. /\ TypeOK /\ circuits_pending_close \subseteq Marked /\ Sound(s) /\ Settled(s)
      /\ s.pending => run_sched_ev
    BY <1>1, LoopFacts
<1>5. /\ Sound(t) /\ Settled(t) /\ t.pending = s.pending
      /\ \A x \in Circs : s.circ[x].marked => t.circ[x].marked
    BY <1>1, <1>3, MarksSettled
<1> HIDE DEF t
<1>8. run_sched_ev' \in BOOLEAN /\ (t.pending => run_sched_ev') /\ (run_sched_ev => run_sched_ev')
    BY <1>1, <1>3, <1>5 DEF TypeOK
<1>9. circuits_pending_close' \subseteq Marked'
    BY <1>1, <1>3, <1>5, MarksOfChannel
<1> QED
    BY <1>1, <1>5, <1>8, <1>9, ChannelStep

\* command_process_destroy_cell keeps it.
LEMMA DestroyCellStep ==
    ASSUME CountingLaws, IndInv, NEW ch \in Chans, NEW c \in Circs, command_process_destroy_cell(ch, c)
    PROVE  IndInv'
<1> DEFINE s == chans[ch]
           t == LeaveChannel(s, c)
<1>1. /\ main.at = "loop" /\ s.circ[c].id # 0 /\ ~s.circ[c].marked
      /\ main' = main /\ Set(ch, t)
      /\ UNCHANGED <<the_scheduler, high>> /\ UNCHANGED circuits_pending_close
      /\ run_sched_ev' = run_sched_ev
    BY DEF command_process_destroy_cell
<1>3. /\ TypeOK /\ circuits_pending_close \subseteq Marked /\ Sound(s) /\ Settled(s)
      /\ s.pending => run_sched_ev
    BY <1>1, LoopFacts
<1>4. s \in ChanType /\ CircuitsOK(s) /\ SchedOK(s)
    BY <1>3 DEF Sound
<1>5. /\ t \in ChanType /\ CircuitsOK(t)
      /\ t.state = s.state /\ t.outbuf = s.outbuf /\ (s.n_cells = 0 => t.n_cells = 0)
      /\ t.scheduler_state = s.scheduler_state /\ t.pending = s.pending
      /\ t.circ[c] = NoCirc /\ \A x \in Circs \ {c} : t.circ[x] = s.circ[x]
    BY ONLY CountingLaws, <1>1, <1>4, LeavesChannel, SMTT(30)
<1> HIDE DEF t
<1>6. SchedOK(t)
    BY ONLY <1>4, <1>5, SMTT(30) DEF SchedOK, Open
<1>a. ~NoCirc.marked /\ ~NoCirc.delete_pending
    BY DEF NoCirc
<1>7. Sound(t) /\ Settled(t)
    BY <1>3, <1>5, <1>6, <1>a DEF Sound, Settled
<1>8. run_sched_ev' \in BOOLEAN /\ (t.pending => run_sched_ev') /\ (run_sched_ev => run_sched_ev')
    BY <1>1, <1>3, <1>5 DEF TypeOK
<1>b. s.circ[c].marked \in BOOLEAN
    BY <1>4 DEF ChanType, CircType
<1>c. \A x \in Circs : t.circ[x].marked = s.circ[x].marked
  <2>1. t.circ[c].marked = FALSE
      BY ONLY <1>5, SMTT(30) DEF NoCirc
  <2>2. s.circ[c].marked = FALSE
      BY ONLY <1>1, <1>b, SMTT(30)
  <2> QED
      BY ONLY <1>5, <2>1, <2>2, ZenonT(30)
<1>9. circuits_pending_close' \subseteq Marked'
    BY <1>1, <1>3, <1>c, MarksKept
<1> QED
    BY <1>1, <1>7, <1>8, <1>9, ChannelStep

\* A new circuit, with or without a CREATE cell to send, takes a free id.
LEMMA NewCircuitOK ==
    ASSUME CountingLaws, NEW s, Sound(s), Settled(s), Open(s), NEW c \in Circs, NEW id \in Ids,
           s.circ[c].id = 0, s.map[id] = Unused,
           NEW t, t = circuit_set_circid_chan(s, c, id),
           NEW u, u = t \/ u = QueueCell(t, c)
    PROVE  /\ Sound(u) /\ Settled(u)
           /\ \A x \in Circs : u.circ[x].marked = s.circ[x].marked
<1>1. s \in ChanType /\ CircuitsOK(s) /\ SchedOK(s)
    BY DEF Sound
<1>2. /\ t \in ChanType /\ CircuitsOK(t)
      /\ t.state = s.state /\ t.outbuf = s.outbuf /\ t.n_cells = s.n_cells
      /\ t.scheduler_state = s.scheduler_state /\ t.pending = s.pending
      /\ t.circ[c].id # 0
      /\ \A x \in Circs : /\ t.circ[x].marked = s.circ[x].marked
                          /\ t.circ[x].delete_pending = s.circ[x].delete_pending
    BY <1>1, SetCircid
<1>3. SchedOK(t)
    BY ONLY <1>1, <1>2, SMTT(30) DEF SchedOK, Open
<1>4. Sound(t)
    BY ONLY <1>2, <1>3, SMTT(30) DEF Sound
<1>5. Settled(s) /\ (u = t \/ u = QueueCell(t, c)) /\ c \in Circs /\ Open(s)
    OBVIOUS
<1>6. Settled(t)
    BY ONLY <1>2, <1>5, SMTT(30) DEF Settled
<1>7. ~t.circ[c].marked
    BY <1>1, <1>2, OffChannel DEF CircuitsOK
<1>8. CASE u = t
    BY ONLY <1>8, <1>4, <1>6, <1>2, SMTT(30)
<1>9. CASE u = QueueCell(t, c)
  <2>1. t.state \in {"OPEN", "CLOSING"}
      BY ONLY <1>2, <1>5, SMTT(30) DEF Open
  <2>2. /\ Sound(u)
        /\ \A x \in Circs : /\ u.circ[x].marked = t.circ[x].marked
                            /\ u.circ[x].delete_pending = t.circ[x].delete_pending
        /\ \/ u.scheduler_state = "PENDING" /\ u.pending
           \/ u.scheduler_state # "PENDING"
           \/ u.scheduler_state = t.scheduler_state /\ u.pending = t.pending
      BY ONLY CountingLaws, <1>2, <1>4, <1>5, <1>7, <1>9, <2>1, QueueCellOK, SMTT(30)
  <2>3. Settled(u)
      BY ONLY <1>6, <2>2, SMTT(30) DEF Settled
  <2> QED
      BY ONLY <1>2, <2>2, <2>3, SMTT(30)
<1> QED
    BY <1>5, <1>8, <1>9

\* A new circuit keeps the invariant.
LEMMA NewCircuitStep ==
    ASSUME CountingLaws, IndInv, NEW ch \in Chans, NEW c \in Circs, NEW id \in Ids, NEW n \in {0, 1},
           NewCircuit(ch, c, id, n)
    PROVE  IndInv'
<1> DEFINE s == chans[ch]
           t == circuit_set_circid_chan(s, c, id)
           u == IF n = 0 THEN t ELSE QueueCell(t, c)
<1>1. /\ main.at = "loop" /\ Open(s) /\ s.circ[c].id = 0 /\ s.map[id] = Unused
      /\ main' = main /\ Set(ch, u) /\ schedule
      /\ UNCHANGED <<the_scheduler, high>> /\ UNCHANGED circuits_pending_close
    BY DEF NewCircuit
<1>3. /\ TypeOK /\ circuits_pending_close \subseteq Marked /\ Sound(s) /\ Settled(s)
      /\ s.pending => run_sched_ev
    BY <1>1, LoopFacts
<1>4. t = circuit_set_circid_chan(s, c, id) /\ (u = t \/ u = QueueCell(t, c))
    OBVIOUS
<1> HIDE DEF s, t, u
<1>2. Open(s) /\ s.circ[c].id = 0 /\ s.map[id] = Unused
    BY ONLY <1>1, ZenonT(10)
<1>5. /\ Sound(u) /\ Settled(u)
      /\ \A x \in Circs : u.circ[x].marked = s.circ[x].marked
    BY ONLY CountingLaws, <1>2, <1>3, <1>4, NewCircuitOK, SMTT(30)
<1> USE DEF s
<1>6. Set(ch, u)
    BY <1>1
<1>8. /\ u.pending => run_sched_ev'
      /\ (run_sched_ev => run_sched_ev') /\ run_sched_ev' \in BOOLEAN
    BY <1>1, <1>3, <1>6, Schedules
<1>9. circuits_pending_close' \subseteq Marked'
    BY <1>1, <1>3, <1>5, <1>6, MarksKept
<1>10. /\ IndInv /\ ch \in Chans /\ main.at = "loop" /\ main' = main
       /\ UNCHANGED <<the_scheduler, high>>
    BY <1>1
<1> QED
    BY ONLY <1>5, <1>6, <1>8, <1>9, <1>10, ChannelStep, SMTT(30)

\* A queued cell loses no pending channel.
LEMMA QueueSettled ==
    ASSUME CountingLaws, NEW s, Sound(s), Settled(s), NEW c \in Circs, s.circ[c].id # 0,
           ~s.circ[c].marked, NEW t, t = QueueCell(s, c)
    PROVE  /\ Sound(t) /\ Settled(t)
           /\ \A x \in Circs : t.circ[x].marked = s.circ[x].marked
<1>1. s.state \in {"OPEN", "CLOSING"}
    BY OnChannel DEF Sound, CircuitsOK
<1>2. /\ Sound(t)
      /\ \A x \in Circs : /\ t.circ[x].marked = s.circ[x].marked
                          /\ t.circ[x].delete_pending = s.circ[x].delete_pending
      /\ \/ t.scheduler_state = "PENDING" /\ t.pending
         \/ t.scheduler_state # "PENDING"
         \/ t.scheduler_state = s.scheduler_state /\ t.pending = s.pending
    BY <1>1, QueueCellOK
<1>3. Settled(s)
    OBVIOUS
<1>4. Settled(t)
    BY ONLY <1>2, <1>3, SMTT(30) DEF Settled
<1> QED
    BY ONLY <1>2, <1>4, SMTT(30)

\* An out-of-memory run empties the queues of the marked circuits of a channel.
DeadOn(dead, ch) == {c \in Circs : <<ch, c>> \in dead}

\* Nor does an out-of-memory run.
LEMMA OomSettled ==
    ASSUME NEW s, Sound(s), Settled(s), NEW D, D \subseteq On(s),
           NEW t, t = Emptied(s, D)
    PROVE  /\ Sound(t) /\ Settled(t) /\ t.pending = s.pending
           /\ \A x \in Circs : s.circ[x].marked => t.circ[x].marked
           /\ \A x \in Circs \ D : t.circ[x] = s.circ[x]
<1>1. /\ Sound(t) /\ t.scheduler_state = s.scheduler_state /\ t.pending = s.pending
      /\ \A x \in D : /\ t.circ[x].marked
                      /\ t.circ[x].delete_pending = s.circ[x].delete_pending
      /\ \A x \in Circs \ D : t.circ[x] = s.circ[x]
    BY OomEmpties
<1>2. Settled(s)
    OBVIOUS
<1>3. Settled(t)
    BY ONLY <1>1, <1>2, SMTT(30) DEF Settled
<1> QED
    BY ONLY <1>1, <1>3, SMTT(30)

\* Every channel of f is in order.
InOrder(f) == \A x \in Chans : Sound(f[x]) /\ Settled(f[x])

\* A circuit marked in f is marked in h.
MarksStay(f, h) ==
  \A x \in Chans, y \in Circs : f[x].circ[y].marked => h[x].circ[y].marked

\* Circuits of any channel are marked and emptied, then the cell is queued
\* unless its circuit is one of them.
LEMMA OomAppends ==
    ASSUME CountingLaws, NEW f, InOrder(f), NEW ch \in Chans, NEW c \in Circs,
           f[ch].circ[c].id # 0, ~f[ch].circ[c].marked,
           NEW dead, \A p \in dead : p \in Chans \X Circs /\ p[2] \in On(f[p[1]]),
           NEW h, h = QueueAfterOom(f, ch, c, dead)
    PROVE  h \in [Chans -> ChanType] /\ InOrder(h) /\ MarksStay(f, h)
<1> DEFINE g == [x \in Chans |-> Emptied(f[x], DeadOn(dead, x))]
<1>2. circuits_handle_oom(f, dead) = g
    BY DEF circuits_handle_oom, Emptied, EmptiedRec, DeadOn
<1>3. ASSUME NEW x \in Chans
      PROVE  /\ Sound(g[x]) /\ Settled(g[x])
             /\ \A y \in Circs : f[x].circ[y].marked => g[x].circ[y].marked
             /\ \A y \in Circs \ DeadOn(dead, x) : g[x].circ[y] = f[x].circ[y]
  <2>1. DeadOn(dead, x) \subseteq On(f[x])
      BY DEF DeadOn, On
  <2>2. g[x] = Emptied(f[x], DeadOn(dead, x))
      OBVIOUS
  <2>3. Sound(f[x]) /\ Settled(f[x])
      BY DEF InOrder
  <2> QED
      BY ONLY <2>1, <2>2, <2>3, OomSettled, SMTT(30)
<1>5. h = IF <<ch, c>> \in dead THEN g ELSE [g EXCEPT ![ch] = QueueCell(g[ch], c)]
    BY <1>2 DEF QueueAfterOom
<1>a. ch \in Chans /\ c \in Circs /\ f[ch].circ[c].id # 0 /\ ~f[ch].circ[c].marked
    OBVIOUS
<1>4. DOMAIN g = Chans /\ h = [x \in Chans |-> h[x]]
    BY ONLY <1>5, SMTT(30)
<1> HIDE DEF g
<1>6. ASSUME NEW x \in Chans
      PROVE  /\ Sound(h[x]) /\ Settled(h[x])
             /\ \A y \in Circs : f[x].circ[y].marked => h[x].circ[y].marked
  <2>1. CASE <<ch, c>> \in dead \/ x # ch
    <3>1. h[x] = g[x]
        BY ONLY <1>4, <1>5, <1>6, <2>1, SMTT(30)
    <3> QED
        BY ONLY <1>3, <1>6, <3>1, SMTT(30)
  <2>2. CASE <<ch, c>> \notin dead /\ x = ch
    <3>1. h[x] = QueueCell(g[ch], c)
        BY ONLY <1>4, <1>5, <1>6, <2>2, SMTT(30)
    <3>2. g[ch].circ[c] = f[ch].circ[c]
        BY <1>3, <2>2 DEF DeadOn
    <3>3. /\ Sound(h[x]) /\ Settled(h[x])
          /\ \A y \in Circs : h[x].circ[y].marked = g[ch].circ[y].marked
        BY ONLY CountingLaws, <1>3, <1>a, <3>1, <3>2, QueueSettled, SMTT(30)
    <3> QED
        BY ONLY <1>3, <1>6, <2>2, <3>3, SMTT(30)
  <2> QED
      BY <2>1, <2>2
<1>7. \A x \in Chans : h[x] \in ChanType
    BY ONLY <1>6, SMTT(30) DEF Sound
<1> QED
    BY ONLY <1>4, <1>6, <1>7, SMTT(30) DEF InOrder, MarksStay

\* A cell for circuit c, whatever comes of it, leaves the channels in order.
LEMMA AppendedOK ==
    ASSUME CountingLaws, NEW f \in [Chans -> ChanType], InOrder(f),
           NEW ch \in Chans, NEW c \in Circs,
           f[ch].circ[c].id # 0, ~f[ch].circ[c].marked,
           NEW list, \A p \in list : p \in Chans \X Circs /\ p[2] \in On(f[p[1]]),
           NEW h \in Appended(f, ch, c, list)
    PROVE  h \in [Chans -> ChanType] /\ InOrder(h) /\ MarksStay(f, h)
<1>1. CASE f[ch].circ[c].queue >= MaxQueue
  <2> DEFINE t == [f[ch] EXCEPT !.circ[c].marked = TRUE]
  <2>1. h = [f EXCEPT ![ch] = t]
      BY <1>1 DEF Appended
  <2>2. /\ Sound(t) /\ Settled(t)
        /\ \A x \in Circs : f[ch].circ[x].marked => t.circ[x].marked
      BY MarksSettled DEF InOrder
  <2>3. t \in ChanType
      BY <2>2 DEF Sound
  <2> HIDE DEF t
  <2>4. /\ h \in [Chans -> ChanType] /\ h[ch] = t
        /\ \A x \in Chans \ {ch} : h[x] = f[x]
      BY <2>1, <2>3
  <2> QED
      BY <2>2, <2>4 DEF InOrder, MarksStay
<1>2. CASE ~(f[ch].circ[c].queue >= MaxQueue)
  <2>1. PICK dead \in SUBSET list : h = QueueAfterOom(f, ch, c, dead)
      BY <1>2 DEF Appended
  <2>2. \A p \in dead : p \in Chans \X Circs /\ p[2] \in On(f[p[1]])
      OBVIOUS
  <2> QED
      BY <2>1, <2>2, OomAppends
<1> QED
    BY <1>1, <1>2

\* append_cell_to_circuit_queue keeps the invariant.
LEMMA AppendStep ==
    ASSUME CountingLaws, IndInv, NEW ch \in Chans, NEW c \in Circs, append_cell_to_circuit_queue(ch, c)
    PROVE  IndInv'
<1>1. /\ main.at = "loop" /\ chans[ch].circ[c].id # 0 /\ ~chans[ch].circ[c].marked
      /\ schedule /\ NoteMarked /\ UNCHANGED <<the_scheduler, high>> /\ main' = main
      /\ chans' \in Appended(chans, ch, c, OnSomeChannel)
    BY DEF append_cell_to_circuit_queue
<1>2. /\ TypeOK /\ circuits_pending_close \subseteq Marked
      /\ \A x \in Chans : /\ Sound(chans[x]) /\ Settled(chans[x])
                          /\ chans[x].pending => run_sched_ev
    BY <1>1, LoopFacts
<1>3. \A p \in OnSomeChannel : p \in Chans \X Circs /\ p[2] \in On(chans[p[1]])
    BY DEF OnSomeChannel
<1>4. chans \in [Chans -> ChanType] /\ InOrder(chans)
    BY <1>2 DEF TypeOK, InOrder
<1>5. chans' \in [Chans -> ChanType] /\ InOrder(chans') /\ MarksStay(chans, chans')
    BY <1>1, <1>3, <1>4, AppendedOK
<1>6. circuits_pending_close' \subseteq Marked'
    BY <1>1, <1>2, <1>5, MarksNoted DEF MarksStay
<1>7. /\ run_sched_ev' \in BOOLEAN
      /\ \A x \in Chans : chans'[x].pending => run_sched_ev'
    BY <1>1, <1>2 DEF schedule, TypeOK
<1>8. high' \in HighMarks /\ the_scheduler' \in {"KIST", "KISTLite", "Vanilla"}
    BY <1>1, <1>2 DEF TypeOK
<1>9. \A x \in Chans : /\ Sound(chans'[x]) /\ Settled(chans'[x])
                       /\ chans'[x].pending => run_sched_ev'
    BY <1>5, <1>7 DEF InOrder
<1> QED
    BY <1>1, <1>5, <1>6, <1>7, <1>8, <1>9, LoopStep

\* A DESTROY for an id that no circuit has ...
RefusedId(s, id) == [s EXCEPT !.map[id] = Placeholder, !.destroys = Append(@, id)]

\* ... keeps that id until it is written.
LEMMA RefusedOK ==
    ASSUME NEW s, Sound(s), Settled(s), Open(s), NEW id \in Ids, s.map[id] = Unused,
           NEW t, t = RefusedId(s, id)
    PROVE  /\ Sound(t) /\ Settled(t) /\ t.pending = s.pending
           /\ \A x \in Circs : t.circ[x] = s.circ[x]
<1> DEFINE u == [s EXCEPT !.map[id] = Placeholder]
<1>0. s \in ChanType /\ CircOK(s) /\ CountOK(s) /\ IdsOK(s) /\ SchedOK(s)
    BY DEF Sound, CircuitsOK
<1>n. 0 \notin Circs /\ -1 \notin Circs
    BY ChannelsAssumption
<1>1. Distinct(s.destroys) /\ \A i \in Queued(s) : Backed(s, i)
    BY <1>0, IdsOKParts DEF Open
<1>2. id \notin Queued(s)
    BY <1>1, <1>n DEF Backed, Placeholder, Unused
<1>3. /\ u \in ChanType /\ u.state = s.state /\ u.scheduler_state = s.scheduler_state
      /\ u.pending = s.pending /\ u.outbuf = s.outbuf /\ u.circ = s.circ
      /\ u.n_cells = s.n_cells /\ u.n_active = s.n_active /\ u.destroys = s.destroys
      /\ u.map[id] = Placeholder /\ \A i \in Ids \ {id} : u.map[i] = s.map[i]
    BY <1>0 DEF ChanType
<1>4. t = QueueDestroy(u, id)
    BY <1>0 DEF RefusedId, QueueDestroy
<1> HIDE DEF u
<1>5. Queued(u) = Queued(s) /\ Distinct(u.destroys)
    BY <1>1, <1>3 DEF Queued
<1>6. /\ t \in ChanType /\ t.state = u.state /\ t.scheduler_state = u.scheduler_state
      /\ t.pending = u.pending /\ t.outbuf = u.outbuf
      /\ t.circ = u.circ /\ t.map = u.map /\ t.n_cells = u.n_cells
      /\ t.n_active = u.n_active
      /\ Queued(t) = Queued(u) \cup {id} /\ Distinct(t.destroys)
    BY <1>2, <1>3, <1>4, <1>5, AppendQueued
<1>7. /\ t.state = s.state /\ t.scheduler_state = s.scheduler_state
      /\ t.pending = s.pending /\ t.outbuf = s.outbuf /\ t.circ = s.circ
      /\ t.n_cells = s.n_cells /\ t.n_active = s.n_active
      /\ t.map[id] = Placeholder /\ (\A i \in Ids \ {id} : t.map[i] = s.map[i])
      /\ Queued(t) = Queued(s) \cup {id}
    BY ONLY <1>3, <1>5, <1>6, SMTT(30)
<1>8. CountOK(t)
    BY ONLY <1>0, <1>7, SMTT(30) DEF CountOK, Counted, Active
<1>a. \A i \in Ids : t.map[i] \in Circs => t.map[i] = s.map[i] /\ i # id
    BY <1>7, <1>n DEF Placeholder
<1>9. CircOK(t)
  <2>1. ASSUME NEW x \in Circs PROVE CircuitOK(t, x)
    <3>1. CircuitOK(s, x)
        BY <1>0, CircOKParts
    <3>2. Legal(s, s.circ[x]) => Legal(t, t.circ[x])
        BY <1>7, SameLegal
    <3>3. s.circ[x].id # 0 => s.circ[x].id \in Ids /\ s.map[s.circ[x].id] = x
        BY <1>0, OnChannel
    <3>4. s.circ[x].id # 0 => s.circ[x].id # id
        BY <3>3, <1>n DEF Unused
    <3> QED
        BY <1>7, <3>1, <3>2, <3>3, <3>4 DEF CircuitOK
  <2>2. ASSUME NEW i \in Ids, t.map[i] \in Circs PROVE t.circ[t.map[i]].id = i
      BY <1>0, <1>7, <1>a, <2>2, CircOKParts
  <2>3. t.state = "OPEN"
      BY <1>7 DEF Open
  <2> QED
      BY <2>1, <2>2, <2>3, CircOKParts
<1>10. IdsOK(t)
  <2>0. /\ \A i \in Ids : s.map[i] = Placeholder => i \in Queued(s)
        /\ \A x \in Circs : s.circ[x].delete_pending => s.circ[x].id \in Queued(s)
      BY <1>0, IdsOKParts DEF Open
  <2>1. ASSUME NEW i \in Queued(t) PROVE Backed(t, i)
    <3>1. CASE i = id
        BY <3>1, <1>7 DEF Backed
    <3>2. CASE i \in Queued(s)
      <4>1. Backed(s, i) /\ i \in Ids /\ i # id
          BY <3>2, <1>0, <1>1, <1>2, QueuedIds
      <4> QED
          BY <4>1, <1>7 DEF Backed
    <3> QED
        BY <3>1, <3>2, <1>7
  <2>2. \A i \in Ids : t.map[i] = Placeholder => i \in Queued(t)
      BY <2>0, <1>7
  <2>3. \A x \in Circs : t.circ[x].delete_pending => t.circ[x].id \in Queued(t)
      BY <2>0, <1>7
  <2>4. t.state # "OPENING"
      BY <1>7 DEF Open
  <2> QED
      BY <1>6, <2>1, <2>2, <2>3, <2>4, IdsOKParts
<1>11. SchedOK(t)
    BY ONLY <1>0, <1>7, SMTT(30) DEF SchedOK, Open
<1>12. Settled(t)
    BY <1>7 DEF Settled
<1> QED
    BY <1>6, <1>7, <1>8, <1>9, <1>10, <1>11, <1>12 DEF Sound, CircuitsOK

=============================================================================
