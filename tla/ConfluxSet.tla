------------------------------ MODULE ConfluxSet ------------------------------
(***************************************************************************)
(* The data plane of one linked conflux set: two endpoints multiplex one   *)
(* ordered flow of relay messages over several circuits ("legs").  Each    *)
(* sender chooses a leg per message (conflux_decide_next_circ), tells      *)
(* its peer of a change of leg with a relative CONFLUX_SWITCH, and each    *)
(* receiver turns relative numbers into absolute ones, queues what comes   *)
(* early and delivers in order (conflux_process_relay_msg and the dequeue  *)
(* loop of connection_edge_process_relay_cell).  A leg may close at any    *)
(* time; cfx_del_leg decides whether the whole set goes with it.           *)
(*                                                                         *)
(* The behaviour starts when the client has just finalised the set: every  *)
(* leg is linked at both ends, the client has an RTT for each leg, and the *)
(* LINKED_ACKs that give the exit its RTTs are still in flight.            *)
(*                                                                         *)
(* Next to some definitions stands a slightly wrong form of them, the way  *)
(* a slip in the code would make it.  Nothing uses these but mutation      *)
(* tests: each of them must break a property.                              *)
(***************************************************************************)
EXTENDS Integers, Sequences, FiniteSets

CONSTANTS
    Legs,        \* the circuits of the set
    NoLeg,       \* the NULL pointer
    Order,       \* place of each leg in cfx->legs; a shared place is "unknown"
    Alg,         \* the scheduling algorithm of each endpoint: params.alg
    SendmeInc,   \* cc->sendme_inc, DATA messages acknowledged by a SENDME
    Cwnds,       \* the congestion windows the algorithm may set
    Rtts,        \* the RTTs that can be measured
    RttMax,      \* UINT64_MAX: "avoid this leg"
    FailLegs,    \* bound: the legs that may fail or be closed
    BlockLegs,   \* bound: the <<endpoint, leg>> whose channels may block
    StallLegs,   \* bound: the legs a stalled clock may fail to time
    MaxMsgs      \* bound: messages each endpoint may submit

Ends == {"client", "exit"}
Peer(e) == IF e = "client" THEN "exit" ELSE "client"

ASSUME LegsAssumption == /\ Legs # {}
                         /\ NoLeg \notin Legs
                         /\ FailLegs \subseteq Legs
                         /\ BlockLegs \subseteq Ends \X Legs
                         /\ StallLegs \subseteq Legs
                         /\ Order \in [Ends -> [Legs -> Nat]]
ASSUME FiniteAssumption == IsFiniteSet(Legs)
ASSUME AlgAssumption == Alg \in [Ends -> {"minrtt", "lowrtt"}]
ASSUME WindowAssumption == /\ SendmeInc \in Nat \ {0}
                           /\ Cwnds # {}
                           /\ \A c \in Cwnds : c \in Nat /\ c >= SendmeInc
ASSUME RttAssumption == /\ RttMax \in Nat
                        /\ Rtts # {}
                        /\ \A r \in Rtts : r \in Nat /\ 0 < r /\ r < RttMax
ASSUME BoundAssumption == MaxMsgs \in [Ends -> Nat]

VARIABLES
    legs,                \* cfx->legs: the legs each endpoint still has
    curr_leg,            \* cfx->curr_leg
    last_seq_sent,       \* leg->last_seq_sent
    last_seq_recv,       \* leg->last_seq_recv
    circ_rtts_usec,      \* leg->circ_rtts_usec; 0 is "not measured"
    inflight,            \* cc->inflight of each circuit
    cwnd,                \* cc->cwnd of each circuit
    blocked,             \* circuit_blocked_on_n_chan / _p_chan
    unacked,             \* CIRCWINDOW_START - deliver_window
    last_seq_delivered,  \* cfx->last_seq_delivered
    ooo_q,               \* cfx->ooo_q: messages that came early
    total_ooo_q,         \* total_ooo_q_bytes, one unit per message
    freed,               \* the conflux_t has been freed
    net,                 \* net[e][l]: cells from e under way on l
    sent,                \* history: kinds of the messages submitted, in order
    log                  \* history: messages handed to the streams, in order

ccVars == <<inflight, cwnd, unacked>>
seqVars == <<last_seq_sent, last_seq_recv, last_seq_delivered>>
oooVars == <<ooo_q, total_ooo_q, freed>>
vars == <<legs, curr_leg, last_seq_sent, last_seq_recv, circ_rtts_usec,
          inflight, cwnd, blocked, unacked, last_seq_delivered, ooo_q,
          total_ooo_q, freed, net, sent, log>>

-----------------------------------------------------------------------------
(* Cells.  "data" and "ctl" are the multiplexed commands                   *)
(* (conflux_should_multiplex): DATA, which the congestion window counts,   *)
(* and BEGIN, END, CONNECTED and the like, which it does not.  msg is the  *)
(* payload, named by its rank in the sender's flow.  abs is a history      *)
(* field no receiver reads: the sender's last_seq_sent on the leg once the *)
(* cell is sent.                                                           *)

Multiplexed == {"data", "ctl"}
CellTypes == Multiplexed \cup {"switch", "sendme", "linked_ack", "destroy"}
Cell == [type : CellTypes, rel : Nat, msg : Nat, abs : Nat]

MuxCell(k, m, a) == [type |-> k, rel |-> 0, msg |-> m, abs |-> a]
SwitchCell(r, a) == [type |-> "switch", rel |-> r, msg |-> 0, abs |-> a]
CtlCell(t, a) == [type |-> t, rel |-> 0, msg |-> 0, abs |-> a]

Ended(q) == q # <<>> /\ q[Len(q)].type = "destroy"

\* The way from e on leg l, once e has sent the cells cs: they are lost when
\* the peer has closed the circuit or a DESTROY is already on the way.
NetPut(e, l, cs) ==
    IF l \notin legs[Peer(e)] \/ Ended(net[e][l]) THEN net[e][l]
                                                 ELSE net[e][l] \o cs

-----------------------------------------------------------------------------
Init ==
    /\ legs = [e \in Ends |-> Legs]
    /\ curr_leg = [e \in Ends |-> NoLeg]
    /\ last_seq_sent = [e \in Ends |-> [l \in Legs |-> 0]]
    /\ last_seq_recv = [e \in Ends |-> [l \in Legs |-> 0]]
    /\ \E r \in [Legs -> Rtts \cup {0}] :
         /\ \A l \in Legs : r[l] = 0 => l \in StallLegs
         /\ circ_rtts_usec = [e \in Ends |->
                               IF e = "client" THEN r ELSE [l \in Legs |-> 0]]
    /\ inflight = [e \in Ends |-> [l \in Legs |-> 0]]
    /\ \E c \in Cwnds : cwnd = [e \in Ends |-> [l \in Legs |-> c]]
    /\ blocked = [e \in Ends |-> [l \in Legs |-> FALSE]]
    /\ unacked = [e \in Ends |-> [l \in Legs |-> 0]]
    /\ last_seq_delivered = [e \in Ends |-> 0]
    /\ ooo_q = [e \in Ends |-> {}]
    /\ total_ooo_q = [e \in Ends |-> 0]
    /\ freed = [e \in Ends |-> FALSE]
    /\ net = [e \in Ends |-> [l \in Legs |->
                IF e = "client" THEN <<CtlCell("linked_ack", 0)>> ELSE <<>>]]
    /\ sent = [e \in Ends |-> <<>>]
    /\ log = [e \in Ends |-> <<>>]

-----------------------------------------------------------------------------
(* Choosing a leg.  The order of the list only breaks ties; where Order    *)
(* leaves it open, these operators give the set of possible answers.       *)

circuit_ready_to_send(e, l) ==
    inflight[e][l] < cwnd[e][l] /\ ~blocked[e][l]

\* The first leg of the list with the lowest RTT in S.
LowestRtt(e, S) ==
    {l \in S : \A m \in S :
       \/ circ_rtts_usec[e][l] < circ_rtts_usec[e][m]
       \/ /\ circ_rtts_usec[e][l] = circ_rtts_usec[e][m]
          /\ Order[e][l] <= Order[e][m]}

\* Legs with a measurement below the initial minimum, UINT64_MAX.
Measured(e, S) ==
    {l \in S : 0 < circ_rtts_usec[e][l] /\ circ_rtts_usec[e][l] < RttMax}

conflux_pick_first_leg(e) ==
    LET timed == {l \in legs[e] : circ_rtts_usec[e][l] > 0}
    IN  LowestRtt(e, IF timed = {} THEN legs[e] ELSE timed)

\* The current leg conflux_decide_next_circ works with.
CurrentLeg(e) ==
    IF curr_leg[e] = NoLeg THEN conflux_pick_first_leg(e) ELSE {curr_leg[e]}

conflux_decide_circ_minrtt(e) ==
    LET best == LowestRtt(e, Measured(e, legs[e]))
    IN  IF best = {} THEN {NoLeg}
        ELSE {IF circuit_ready_to_send(e, l) THEN l ELSE NoLeg : l \in best}

conflux_decide_circ_lowrtt(e) ==
    LET ready == {l \in legs[e] : circuit_ready_to_send(e, l)}
        best == LowestRtt(e, Measured(e, ready))
    IN  IF best = {} THEN {NoLeg} ELSE best

\* cells_until_switch is never set to anything but 0, so conflux_can_switch
\* never holds a sender back.
conflux_decide_next_circ(e) ==
    IF Alg[e] = "minrtt" THEN conflux_decide_circ_minrtt(e)
                         ELSE conflux_decide_circ_lowrtt(e)

-----------------------------------------------------------------------------
(* Sending. *)

\* conflux_can_send or circuit_get_package_window asks for the next circuit
\* while there is no current leg: a leg is picked although nothing is sent.
PickLeg(e) ==
    /\ legs[e] # {} /\ curr_leg[e] = NoLeg
    /\ \E l \in conflux_pick_first_leg(e) :
         curr_leg' = [curr_leg EXCEPT ![e] = l]
    /\ UNCHANGED <<legs, circ_rtts_usec, blocked, net, sent, log, ccVars,
                   seqVars, oooVars>>

\* The number a SWITCH from leg c to leg t carries: what t is behind by.
RelativeSeqShort(e, c, t) ==
    IF last_seq_sent[e][c] > last_seq_sent[e][t]
    THEN last_seq_sent[e][c] - last_seq_sent[e][t] - 1 ELSE 0
RelativeSeq(e, c, t) == last_seq_sent[e][c] - last_seq_sent[e][t]

\* conflux_note_cell_sent: the leg sent on takes over the current leg's number.
NextSeqNotCopied(e, c, t) == last_seq_sent[e][t] + 1
NextSeq(e, c, t) == last_seq_sent[e][c] + 1

\* relay_send_command_from_edge_ for a multiplexed command of kind k.  DATA
\* is packaged only when circuit_get_package_window finds a circuit; any
\* other command falls back on the current leg.  Streams open with BEGIN and
\* its answer, and an exit has nothing to say before it is spoken to.
Send(e, k) ==
    /\ legs[e] # {}
    /\ Len(sent[e]) < MaxMsgs[e]
    /\ sent[e] = <<>> => k = "ctl"
    /\ e = "exit" => last_seq_delivered[e] > 0
    /\ \E c \in CurrentLeg(e), n \in conflux_decide_next_circ(e) :
         /\ k = "data" => n # NoLeg
         /\ LET t == IF n = NoLeg THEN c ELSE n
                seq == NextSeq(e, c, t)
                switch == SwitchCell(RelativeSeq(e, c, t), last_seq_sent[e][c])
                mux == MuxCell(k, Len(sent[e]) + 1, seq)
            IN  /\ net' = [net EXCEPT ![e][t] =
                     NetPut(e, t, IF t = c THEN <<mux>> ELSE <<switch, mux>>)]
                /\ curr_leg' = [curr_leg EXCEPT ![e] = t]
                /\ last_seq_sent' = [last_seq_sent EXCEPT ![e][t] = seq]
                /\ inflight' = IF k = "data"
                     THEN [inflight EXCEPT ![e][t] = @ + 1] ELSE inflight
    /\ sent' = [sent EXCEPT ![e] = Append(@, k)]
    /\ UNCHANGED <<legs, last_seq_recv, circ_rtts_usec, cwnd, blocked, unacked,
                   last_seq_delivered, log, oooVars>>

-----------------------------------------------------------------------------
(* Receiving.  Endpoint e takes the next cell its peer sent on leg l; a    *)
(* circuit marked for close drops what it receives.                        *)

Incoming(e, l) == net[Peer(e)][l]

Arrives(e, l, types) ==
    /\ l \in legs[e]
    /\ Incoming(e, l) # <<>>
    /\ Head(Incoming(e, l)).type \in types

Consume(e, l) == net' = [net EXCEPT ![Peer(e)][l] = Tail(@)]

\* conflux_process_linked_ack: the exit's first RTT of the leg.  A clock that
\* has not moved since LINKED was sent gives UINT64_MAX.
RecvLinkedAck(e, l) ==
    /\ Arrives(e, l, {"linked_ack"})
    /\ \E r \in Rtts \cup (IF l \in StallLegs THEN {RttMax} ELSE {}) :
         circ_rtts_usec' = [circ_rtts_usec EXCEPT ![e][l] = r]
    /\ Consume(e, l)
    /\ UNCHANGED <<legs, curr_leg, blocked, sent, log, ccVars, seqVars,
                   oooVars>>

conflux_process_switch_command(e, l) ==
    /\ Arrives(e, l, {"switch"})
    /\ last_seq_recv' = [last_seq_recv EXCEPT ![e][l] =
                           @ + Head(Incoming(e, l)).rel]
    /\ Consume(e, l)
    /\ UNCHANGED <<legs, curr_leg, last_seq_sent, circ_rtts_usec, blocked,
                   last_seq_delivered, sent, log, ccVars, oooVars>>

\* circuit_consider_sending_sendme: one more DATA message makes a SENDME due.
SendmeDueLate(e, l) == unacked[e][l] + 1 > SendmeInc
SendmeDue(e, l) == unacked[e][l] + 1 >= SendmeInc

\* The dequeue loop, started at d with q queued, stops at n: the numbers d + 1
\* to n are queued and n + 1 is not.
DequeuesOnce(d, n, q) ==
    n = IF \E m \in q : m.seq = d + 1 THEN d + 1 ELSE d
DequeuesTo(d, n, q) ==
    /\ \A i \in (d + 1)..n : \E m \in q : m.seq = i
    /\ \A m \in q : m.seq # n + 1

\* The messages of q numbered d + 1 to n, in that order.
Run(d, n, q) ==
    [i \in 1..(n - d) |-> (CHOOSE m \in q : m.seq = d + i).msg]

\* connection_edge_process_relay_cell for a multiplexed command: count DATA
\* for the circuit-level SENDME, number the message, then deliver it with
\* all it releases or queue it.  A number at or below last_seq_delivered is
\* a BUG() in the code that closes the circuit; NoStaleMsg shows that the
\* guard "seq > last_seq_delivered" leaves no such case out.
RecvMsg(e, l) ==
    LET c == Head(Incoming(e, l))
        seq == last_seq_recv[e][l] + 1
        d == last_seq_delivered[e]
        ack == c.type = "data" /\ SendmeDue(e, l)
    IN  /\ Arrives(e, l, Multiplexed)
        /\ seq > d
        /\ unacked' = IF c.type # "data" THEN unacked
             ELSE [unacked EXCEPT ![e][l] = (@ + 1) % SendmeInc]
        /\ net' = [net EXCEPT ![Peer(e)][l] = Tail(@),
                     ![e][l] = IF ack
                       THEN NetPut(e, l, <<CtlCell("sendme", last_seq_sent[e][l])>>)
                       ELSE @]
        /\ last_seq_recv' = [last_seq_recv EXCEPT ![e][l] = seq]
        /\ \/ /\ seq = d + 1
              /\ \E n \in {seq} \cup {m.seq : m \in ooo_q[e]} :
                   /\ DequeuesTo(seq, n, ooo_q[e])
                   /\ last_seq_delivered' = [last_seq_delivered EXCEPT ![e] = n]
                   /\ log' = [log EXCEPT ![e] =
                                Append(@, c.msg) \o Run(seq, n, ooo_q[e])]
                   /\ ooo_q' = [ooo_q EXCEPT ![e] = {m \in @ : m.seq > n}]
                   /\ total_ooo_q' = [total_ooo_q EXCEPT ![e] = @ - (n - seq)]
           \/ /\ seq > d + 1
              /\ ooo_q' = [ooo_q EXCEPT ![e] =
                             @ \cup {[seq |-> seq, msg |-> c.msg]}]
              /\ total_ooo_q' = [total_ooo_q EXCEPT ![e] = @ + 1]
              /\ UNCHANGED <<last_seq_delivered, log>>
        /\ UNCHANGED <<legs, curr_leg, last_seq_sent, circ_rtts_usec, inflight,
                       cwnd, blocked, freed, sent>>

\* sendme_process_circuit_level_impl and congestion_control_dispatch_cc_alg:
\* the acknowledged cells leave the window, the algorithm sets a new one, and
\* a usable RTT estimate goes to conflux_update_rtt.
RecvSendme(e, l) ==
    /\ Arrives(e, l, {"sendme"})
    /\ inflight' = [inflight EXCEPT ![e][l] = @ - SendmeInc]
    /\ \E w \in Cwnds : cwnd' = [cwnd EXCEPT ![e][l] = w]
    /\ \E r \in Rtts \cup {circ_rtts_usec[e][l]} :
         circ_rtts_usec' = [circ_rtts_usec EXCEPT ![e][l] = r]
    /\ Consume(e, l)
    /\ UNCHANGED <<legs, curr_leg, blocked, unacked, sent, log, seqVars,
                   oooVars>>

\* The channel's queue goes over or under its water marks.
SetBlocked(e, l, b) ==
    /\ l \in legs[e] /\ <<e, l>> \in BlockLegs /\ blocked[e][l] # b
    /\ blocked' = [blocked EXCEPT ![e][l] = b]
    /\ UNCHANGED <<legs, curr_leg, circ_rtts_usec, net, sent, log, ccVars,
                   seqVars, oooVars>>

-----------------------------------------------------------------------------
(* Closing. *)

\* cfx_del_leg: closing l takes the whole set with it.
TeardownIgnoresInflight(e, l) ==
    LET rest == legs[e] \ {l}
    IN  \/ /\ rest # {}
           /\ \/ \A m \in rest : last_seq_sent[e][m] < last_seq_sent[e][l]
              \/ \A m \in rest : last_seq_recv[e][m] < last_seq_recv[e][l]
        \/ curr_leg[e] = l
TeardownNeeded(e, l) ==
    LET rest == legs[e] \ {l}
    IN  \/ inflight[e][l] >= SendmeInc
        \/ /\ rest # {}
           /\ \/ \A m \in rest : last_seq_sent[e][m] < last_seq_sent[e][l]
              \/ \A m \in rest : last_seq_recv[e][m] < last_seq_recv[e][l]
        \/ curr_leg[e] = l

\* conflux_circuit_has_closed on a linked circuit: the leg, or with a full
\* teardown every leg, is marked for close; a DESTROY goes out and whatever
\* the peer still sends on these circuits is dropped.
DestroysOnlyOne(e, l) ==
    LET gone == IF TeardownNeeded(e, l) THEN legs[e] ELSE {l}
    IN  /\ legs' = [legs EXCEPT ![e] = @ \ gone]
        /\ curr_leg' = [curr_leg EXCEPT ![e] = IF @ \in gone THEN NoLeg ELSE @]
        /\ net' = [x \in Ends |-> [m \in Legs |->
              CASE x = e /\ m # l -> net[x][m]
                [] x = e /\ m = l ->
                     NetPut(e, m, <<CtlCell("destroy", last_seq_sent[e][m])>>)
                [] x # e -> IF m \in gone THEN <<>> ELSE net[x][m]]]
linked_circuit_closed(e, l) ==
    LET gone == IF TeardownNeeded(e, l) THEN legs[e] ELSE {l}
    IN  /\ legs' = [legs EXCEPT ![e] = @ \ gone]
        /\ curr_leg' = [curr_leg EXCEPT ![e] = IF @ \in gone THEN NoLeg ELSE @]
        /\ net' = [x \in Ends |-> [m \in Legs |->
              CASE m \notin gone -> net[x][m]
                [] m \in gone /\ x = e ->
                     NetPut(e, m, <<CtlCell("destroy", last_seq_sent[e][m])>>)
                [] OTHER -> <<>>]]

RecvDestroy(e, l) ==
    /\ Arrives(e, l, {"destroy"})
    /\ linked_circuit_closed(e, l)
    /\ UNCHANGED <<circ_rtts_usec, blocked, sent, log, ccVars, seqVars,
                   oooVars>>

\* The endpoint closes the circuit itself: expiry, OOM, a control command.
CloseCircuit(e, l) ==
    /\ l \in legs[e] \cap FailLegs
    /\ linked_circuit_closed(e, l)
    /\ UNCHANGED <<circ_rtts_usec, blocked, sent, log, ccVars, seqVars,
                   oooVars>>

\* A relay in the middle of the path fails: both endpoints get a DESTROY.
PathFails(l) ==
    /\ l \in FailLegs /\ \A e \in Ends : l \in legs[e] /\ ~Ended(net[e][l])
    /\ net' = [e \in Ends |-> [net[e] EXCEPT ![l] =
                 NetPut(e, l, <<CtlCell("destroy", last_seq_sent[e][l])>>)]]
    /\ UNCHANGED <<legs, curr_leg, circ_rtts_usec, blocked, sent, log, ccVars,
                   seqVars, oooVars>>

\* Relays forget the cells they have queued for a circuit that is destroyed
\* (circuit_clear_cell_queue), so a DESTROY overtakes cells sent before it.
DestroyOvertakes(e, l) ==
    LET q == net[e][l]
    IN  /\ Ended(q) /\ Len(q) > 1
        /\ net' = [net EXCEPT ![e][l] =
                     Append(SubSeq(q, 1, Len(q) - 2), q[Len(q)])]
        /\ UNCHANGED <<legs, curr_leg, circ_rtts_usec, blocked, sent, log,
                       ccVars, seqVars, oooVars>>

\* conflux_free_, when the circuit of the last leg is freed: the queue goes,
\* the global counter is not touched.
FreeSet(e) ==
    /\ legs[e] = {} /\ ~freed[e]
    /\ freed' = [freed EXCEPT ![e] = TRUE]
    /\ ooo_q' = [ooo_q EXCEPT ![e] = {}]
    /\ UNCHANGED <<legs, curr_leg, circ_rtts_usec, blocked, net, sent, log,
                   ccVars, seqVars, total_ooo_q>>

-----------------------------------------------------------------------------
Receive(e, l) ==
    \/ RecvLinkedAck(e, l)
    \/ conflux_process_switch_command(e, l)
    \/ RecvMsg(e, l)
    \/ RecvSendme(e, l)
    \/ RecvDestroy(e, l)

Next ==
    \/ \E e \in Ends : PickLeg(e) \/ FreeSet(e)
    \/ \E e \in Ends, k \in Multiplexed : Send(e, k)
    \/ \E e \in Ends, l \in Legs :
         \/ Receive(e, l)
         \/ \E b \in BOOLEAN : SetBlocked(e, l, b)
         \/ CloseCircuit(e, l)
         \/ DestroyOvertakes(e, l)
    \/ \E l \in Legs : PathFails(l)

Spec == Init /\ [][Next]_vars

\* Some cell in flight arrives and a full channel queue drains; nothing is
\* assumed of the streams (Send) nor of failures.
Arrival == \E e \in Ends, l \in Legs : Receive(e, l)
Fairness ==
    /\ WF_vars(Arrival)
    /\ \A p \in BlockLegs : WF_vars(SetBlocked(p[1], p[2], FALSE))

FairSpec == Spec /\ Fairness

-----------------------------------------------------------------------------
(* Safety. *)

\* Every variable has the type of the field it stands for.
TypeOK ==
    /\ legs \in [Ends -> SUBSET Legs]
    /\ curr_leg \in [Ends -> Legs \cup {NoLeg}]
    /\ last_seq_sent \in [Ends -> [Legs -> Nat]]
    /\ last_seq_recv \in [Ends -> [Legs -> Nat]]
    /\ circ_rtts_usec \in [Ends -> [Legs -> Nat]]
    /\ inflight \in [Ends -> [Legs -> Int]]
    /\ cwnd \in [Ends -> [Legs -> Cwnds]]
    /\ blocked \in [Ends -> [Legs -> BOOLEAN]]
    /\ unacked \in [Ends -> [Legs -> Nat]]
    /\ last_seq_delivered \in [Ends -> Nat]
    /\ ooo_q \in [Ends -> SUBSET [seq : Nat, msg : Nat]]
    /\ total_ooo_q \in [Ends -> Int]
    /\ freed \in [Ends -> BOOLEAN]
    /\ net \in [Ends -> [Legs -> Seq(Cell)]]
    /\ sent \in [Ends -> Seq(Multiplexed)]
    /\ log \in [Ends -> Seq(Nat)]

\* Whatever the order in which the legs bring the cells, and whatever closes,
\* the streams get the sender's messages in order, none twice and none left
\* out: the messages delivered are exactly the first ones submitted.
InOrder ==
    \A e \in Ends :
       /\ Len(log[e]) = last_seq_delivered[e]
       /\ last_seq_delivered[e] <= Len(sent[Peer(e)])
       /\ \A i \in 1..Len(log[e]) : log[e][i] = i

\* The BUG() branch of conflux_process_relay_msg ("a sequence number less
\* than the last delivered") is never reached.
NoStaleMsg ==
    \A e \in Ends, l \in Legs :
       Arrives(e, l, Multiplexed) =>
          last_seq_recv[e][l] + 1 > last_seq_delivered[e]

\* The tor_assert of conflux_decide_circ_for_send that a switch never goes
\* back in the sequence: no leg is ahead of the current one.
SwitchNeverGoesBack ==
    \A e \in Ends : curr_leg[e] # NoLeg =>
       \A l \in legs[e] : last_seq_sent[e][l] <= last_seq_sent[e][curr_leg[e]]

\* Between handlers the out-of-order queue always waits for a message that
\* is missing: the dequeue loop has taken everything that was ready.
QueueWaitsForHole ==
    \A e \in Ends : \A m \in ooo_q[e] : m.seq > last_seq_delivered[e] + 1

\* How many of the cells of q are of type t.
Count(q, t) == Cardinality({i \in 1..Len(q) : q[i].type = t})

\* On a leg that is up, what the sender counts as in flight is what is on the
\* wire, what the receiver has not acknowledged and what the SENDMEs on
\* their way back acknowledge.  So cc->inflight, an unsigned counter, is
\* never decremented below zero.
WindowConserved ==
    \A e \in Ends, l \in legs["client"] \cap legs["exit"] :
       ~Ended(net["client"][l]) /\ ~Ended(net["exit"][l]) =>
          inflight[e][l] = Count(net[e][l], "data") + unacked[Peer(e)][l]
                             + SendmeInc * Count(net[Peer(e)][l], "sendme")

\* Messages from e that can no longer be delivered: not delivered yet, not
\* queued, and on no leg the receiver still reads.
Lost(e) ==
    {i \in (last_seq_delivered[Peer(e)] + 1)..Len(sent[e]) :
       /\ \A m \in ooo_q[Peer(e)] : m.msg # i
       /\ \A l \in legs[Peer(e)] : \A k \in 1..Len(net[e][l]) :
            net[e][l][k].type \in Multiplexed => net[e][l][k].msg # i}

\* The set is in use at both ends and no close is on its way.
Settled ==
    /\ legs["client"] \cap legs["exit"] # {}
    /\ \A e \in Ends, l \in Legs : ~Ended(net[e][l])

\* What cfx_del_leg guarantees when it keeps the set after the close of a
\* leg: at most sendme_inc - 1 DATA messages went down with it.
LossBelowSendme ==
    Settled => \A e \in Ends :
       Cardinality({i \in Lost(e) : sent[e][i] = "data"})
          <= (SendmeInc - 1) * Cardinality(Legs \ legs[e])

-----------------------------------------------------------------------------
(* The inductive invariant behind InOrder: the relative numbers on each leg *)
(* chain from what the receiver has counted to what the sender has.         *)

\* The sender's last_seq_sent is exact on the current leg and never too high
\* on another.
SenderInv ==
    \A e \in Ends :
       /\ curr_leg[e] # NoLeg =>
            /\ curr_leg[e] \in legs[e]
            /\ last_seq_sent[e][curr_leg[e]] = Len(sent[e])
       /\ curr_leg[e] = NoLeg /\ legs[e] # {} => sent[e] = <<>>
       /\ \A l \in Legs : last_seq_sent[e][l] <= Len(sent[e])

\* By how much the receiver's last_seq_recv moves when it processes c.
Advance(c) == CASE c.type \in Multiplexed -> 1
                [] c.type = "switch" -> c.rel
                [] OTHER -> 0

\* The receiver's last_seq_recv, now r, once it has processed k cells of q.
SeqAfter(q, r, k) == IF k = 0 THEN r ELSE q[k].abs

\* Each cell of q takes last_seq_recv to the number its sender had, and a
\* message, at most n, has that number.  Nothing follows a DESTROY.
Chained(q, r, n) ==
    \A k \in 1..Len(q) :
       /\ q[k].type = "destroy" => k = Len(q)
       /\ q[k].type # "destroy" =>
            q[k].abs = SeqAfter(q, r, k - 1) + Advance(q[k])
       /\ q[k].type \in Multiplexed => q[k].msg = q[k].abs /\ q[k].msg <= n

ChainInv ==
    \A e \in Ends, l \in Legs :
       LET q == net[e][l]
           r == last_seq_recv[Peer(e)][l]
       IN  /\ Chained(q, r, Len(sent[e]))
           /\ l \in legs[Peer(e)] /\ ~Ended(q) =>
                last_seq_sent[e][l] = SeqAfter(q, r, Len(q))
           /\ l \notin legs[Peer(e)] => q = <<>>

Msgs(q) == {q[k].msg : k \in {j \in 1..Len(q) : q[j].type \in Multiplexed}}

Unique(q) ==
    \A i, j \in 1..Len(q) :
       /\ q[i].type \in Multiplexed /\ q[j].type \in Multiplexed
       /\ q[i].msg = q[j].msg
       => i = j

\* A message is in one place only: under way on one leg, queued or delivered.
OnePlaceInv ==
    \A e \in Ends, l \in Legs :
       /\ Unique(net[e][l])
       /\ \A i \in Msgs(net[e][l]) :
            /\ i > last_seq_delivered[Peer(e)]
            /\ \A x \in ooo_q[Peer(e)] : x.seq # i
            /\ \A m \in Legs \ {l} : i \notin Msgs(net[e][m])

QueueInv ==
    \A e \in Ends : \A m \in ooo_q[e] :
       /\ m.msg = m.seq
       /\ m.seq > last_seq_delivered[e] + 1
       /\ m.seq <= Len(sent[Peer(e)])

\* Every part of the invariant; InOrder is one of them.
IndInv ==
    TypeOK /\ SenderInv /\ ChainInv /\ OnePlaceInv /\ QueueInv /\ InOrder

-----------------------------------------------------------------------------
(* The inductive invariant behind WindowConserved and LossBelowSendme: every *)
(* message that has not come through is charged to the leg it went down on,  *)
(* and what is charged to a leg fits into what the sender has in flight.     *)

\* The window of e's direction on leg l, while the circuit is up.
LegConserved(e, l) ==
    /\ l \in legs[e] /\ l \in legs[Peer(e)]
    /\ ~Ended(net[e][l]) /\ ~Ended(net[Peer(e)][l])
    => inflight[e][l] = Count(net[e][l], "data") + unacked[Peer(e)][l]
                          + SendmeInc * Count(net[Peer(e)][l], "sendme")

\* A SENDME goes out in time, and a leg that the peer has closed has the
\* peer's DESTROY under way.
WindowInv ==
    \A e \in Ends, l \in Legs :
       /\ unacked[e][l] < SendmeInc
       /\ l \in legs[e] \ legs[Peer(e)] => Ended(net[Peer(e)][l])
       /\ LegConserved(e, l)

\* The DATA messages among the cells of q.
DataMsgs(q) == {q[k].msg : k \in {j \in 1..Len(q) : q[j].type = "data"}}

\* S is charged to leg l: at least what is under way on it, and exactly that
\* while the circuit is up.
Charged(e, l, S) ==
    /\ DataMsgs(net[e][l]) \subseteq S
    /\ l \in legs[Peer(e)] /\ ~Ended(net[e][l]) => S \subseteq DataMsgs(net[e][l])
    /\ l \in legs[e] =>
         Cardinality(S) + unacked[Peer(e)][l]
           + SendmeInc * Count(net[Peer(e)][l], "sendme") <= inflight[e][l]
    /\ l \notin legs[e] => Cardinality(S) < SendmeInc

\* The messages of e that have not come through to the peer's queue.
Missing(e) ==
    {i \in 1..Len(sent[e]) :
       /\ i > last_seq_delivered[Peer(e)]
       /\ \A m \in ooo_q[Peer(e)] : m.msg # i}

\* P says which messages are charged to each leg.
Accounted(e, P) ==
    /\ \A i \in Missing(e) : sent[e][i] = "data" => \E l \in Legs : i \in P[l]
    /\ \A l \in Legs : Charged(e, l, P[l])

LossInv ==
    (\A e \in Ends : legs[e] # {}) =>
       \A e \in Ends : \E P \in [Legs -> SUBSET (1..Len(sent[e]))] : Accounted(e, P)

-----------------------------------------------------------------------------
(* Refinement. *)

Fifo == INSTANCE OrderedDelivery WITH
            Flows <- Ends, Kinds <- Multiplexed,
            sent <- sent, got <- [e \in Ends |-> log[Peer(e)]]

\* A conflux set implements one FIFO in each direction.
ImplementsFifo == Fifo!Spec

-----------------------------------------------------------------------------
(* Liveness. *)

\* Every message submitted is delivered, unless a leg is closed.
AllDelivered ==
    \A e \in Ends : \A n \in 1..MaxMsgs[e] :
       []<>(Len(sent[e]) >= n => \/ last_seq_delivered[Peer(e)] >= n
                                 \/ \E x \in Ends : legs[x] # Legs)

\* A congestion window that is full opens again: the receiver acknowledges
\* on every leg, also for messages that wait in the out-of-order queue.
WindowReopens ==
    \A e \in Ends, l \in Legs :
       []<>(l \in legs[e] => inflight[e][l] < cwnd[e][l])

\* A leg closed at one end closes at the other, so a full teardown takes both
\* ends of the set with it.
CloseReachesPeer ==
    \A e \in Ends, l \in Legs : []<>(l \notin legs[e] => l \notin legs[Peer(e)])

=============================================================================
