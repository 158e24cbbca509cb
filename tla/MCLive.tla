-------------------------------- MODULE MCLive --------------------------------
(***************************************************************************)
(* What must eventually happen, of three components in one run: Cpuworker, *)
(* and ConfluxSet and ConfluxPool over variables of their own.  They share *)
(* no state here, so a behaviour is of one of them; `focus' says of which. *)
(***************************************************************************)
EXTENDS Cpuworker

CONSTANTS
    \* of ConfluxSet
    Legs, NoLeg, SendmeInc, Cwnds, Rtts, RttMax, FailLegs, BlockLegs, StallLegs,
    \* of ConfluxPool; PCircs are its Circs
    PCircs, NumLegs, MaxRetry, MaxLegs, Stops, ClientCfx, NoObj

CEnds == {"client", "exit"}

\* What the two sides choose by default: clients are asked for MINRTT.
DefaultAlg == [e \in CEnds |-> IF e = "client" THEN "minrtt" ELSE "lowrtt"]

\* Legs that tie are taken in either order.
AnyOrder == [e \in CEnds |-> [l \in Legs |-> 0]]

TwoMsgs == [e \in CEnds |-> IF e = "client" THEN 2 ELSE 0]

VARIABLES
    s_legs, s_curr_leg, s_last_seq_sent, s_last_seq_recv, s_circ_rtts_usec,
    s_inflight, s_cwnd, s_blocked, s_unacked, s_last_seq_delivered, s_ooo_q,
    s_total_ooo_q, s_freed, s_net, s_sent, s_log,
    p_state, p_conflux, p_pool, p_status, p_cfx_legs, p_sent, p_delivered,
    p_unlinked, p_legs, p_linked, p_num_leg_launch, p_stopping, p_wire,
    focus

Set == INSTANCE ConfluxSet WITH
    Order <- AnyOrder, Alg <- DefaultAlg, MaxMsgs <- TwoMsgs,
    BlockLegs <- CEnds \X BlockLegs,
    legs <- s_legs, curr_leg <- s_curr_leg, last_seq_sent <- s_last_seq_sent,
    last_seq_recv <- s_last_seq_recv, circ_rtts_usec <- s_circ_rtts_usec,
    inflight <- s_inflight, cwnd <- s_cwnd, blocked <- s_blocked,
    unacked <- s_unacked, last_seq_delivered <- s_last_seq_delivered,
    ooo_q <- s_ooo_q, total_ooo_q <- s_total_ooo_q, freed <- s_freed,
    net <- s_net, sent <- s_sent, log <- s_log

Pool == INSTANCE ConfluxPool WITH
    Circs <- PCircs,
    state <- p_state, conflux <- p_conflux, pool <- p_pool, status <- p_status,
    cfx_legs <- p_cfx_legs, sent <- p_sent, delivered <- p_delivered,
    unlinked <- p_unlinked, legs <- p_legs, linked <- p_linked,
    num_leg_launch <- p_num_leg_launch, stopping <- p_stopping, wire <- p_wire

sVars == <<s_legs, s_curr_leg, s_last_seq_sent, s_last_seq_recv, s_circ_rtts_usec,
           s_inflight, s_cwnd, s_blocked, s_unacked, s_last_seq_delivered, s_ooo_q,
           s_total_ooo_q, s_freed, s_net, s_sent, s_log>>
pVars == <<p_state, p_conflux, p_pool, p_status, p_cfx_legs, p_sent, p_delivered,
           p_unlinked, p_legs, p_linked, p_num_leg_launch, p_stopping, p_wire>>
mcVars == <<vars, sVars, pVars, focus>>

OfCpu(A) == focus = "cpu" /\ A /\ UNCHANGED <<sVars, pVars, focus>>
OfSet(A) == focus = "set" /\ A /\ UNCHANGED <<vars, pVars, focus>>
OfPool(A) == focus = "pool" /\ A /\ UNCHANGED <<vars, sVars, focus>>

\* The limit on tasks matters to the workers only.
MCInit ==
    /\ Init /\ Set!Init /\ Pool!Init
    /\ focus \in {"cpu", "set", "pool"}
    /\ focus # "cpu" => max_pending_tasks = CHOOSE m \in MaxTasks : TRUE

\* A flow and a set of legs may come to their end; the workers may not.
Rest == focus # "cpu" /\ UNCHANGED mcVars

MCNext == OfCpu(Next) \/ OfSet(Set!Next) \/ OfPool(Pool!Next) \/ Rest

\* The fairness of the three specifications: since a behaviour is of one of
\* them, actions of two may share a conjunct.
MCFairness ==
    /\ \A w \in Workers : WF_mcVars(OfCpu(WorkerStep(w)))
    /\ WF_mcVars(\/ OfCpu(DrainAlert \/ ProcessReply \/ QueueTask \/ TasksDone
                          \/ RepliesDone \/ threadpool_free)
                 \/ OfSet(Set!Arrival))
    /\ WF_mcVars(\/ OfCpu(\E c \in Circs : circuit_close_all_marked(c))
                 \/ OfPool(Pool!Progress))
    /\ \A e \in CEnds, l \in BlockLegs : WF_mcVars(OfSet(Set!SetBlocked(e, l, FALSE)))

MCSpec == MCInit /\ [][MCNext]_mcVars /\ MCFairness

\* ConfluxSet!AllDelivered: a message submitted is delivered unless a leg
\* closes (conflux_process_relay_msg, conflux_dequeue_relay_msg).
AllDelivered == Set!AllDelivered

\* ConfluxSet!WindowReopens: a full congestion window opens again
\* (sendme_note_stream_data_packaged, sendme_process_circuit_level).
WindowReopens == Set!WindowReopens

\* ConfluxSet!CloseReachesPeer: a leg closed at one end closes at the other
\* (cfx_del_leg, conflux_mark_all_for_close).
CloseReachesPeer == Set!CloseReachesPeer

\* ConfluxPool!EveryLegSettles: a leg of an unlinked set links or leaves it
\* (conflux_process_linked, unlinked_circuit_closed).
EveryLegSettles == Pool!EveryLegSettles

\* ConfluxPool!EveryEmptySetFreed: a conflux_t without legs is freed in the end
\* (linked_circuit_free, conflux_pool_free_all).
EveryEmptySetFreed == Pool!EveryEmptySetFreed
=============================================================================
