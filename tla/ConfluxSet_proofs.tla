-------------------------- MODULE ConfluxSet_proofs --------------------------
(***************************************************************************)
(* Proofs that a conflux set delivers in order, exactly once, for any      *)
(* number of legs and any number of messages, whatever closes, that the    *)
(* congestion window of a leg is conserved, and that a set which survives  *)
(* the close of legs has lost less than sendme_inc DATA on each.           *)
(***************************************************************************)
EXTENDS ConfluxCells_proofs

\* A leaf is tried with Zenon, then with SMT, then with both for longer.
USE ZenonT(2), SMT, SMTT(30), Zenon

\* The initial state has the declared types.
LEMMA TypeInit == Init => TypeOK
<1> SUFFICES ASSUME Init PROVE TypeOK
  OBVIOUS
<1>1. CtlCell("linked_ack", 0) \in Cell
  BY CellFacts
<1>2. circ_rtts_usec \in [Ends -> [Legs -> Nat]]
  <2>1. Rtts \cup {0} \subseteq Nat
    BY RttAssumption
  <2>2. PICK r \in [Legs -> Rtts \cup {0}] :
          circ_rtts_usec = [e \in Ends |->
                              IF e = "client" THEN r ELSE [l \in Legs |-> 0]]
    BY DEF Init
  <2>3. r \in [Legs -> Nat]
    BY <2>1
  <2> QED
    BY <2>2, <2>3
<1>3. net \in [Ends -> [Legs -> Seq(Cell)]]
  BY <1>1 DEF Init
<1>4. ooo_q \in [Ends -> SUBSET [seq : Nat, msg : Nat]]
  BY DEF Init
<1>5. cwnd \in [Ends -> [Legs -> Cwnds]]
  BY DEF Init
<1> QED
  BY <1>2, <1>3, <1>4, <1>5 DEF Init, TypeOK

-----------------------------------------------------------------------------
(* Each step preserves the invariant. *)

\* A set that has just been finalised satisfies the invariant.
LEMMA InitStep == Init => IndInv
<1> SUFFICES ASSUME Init PROVE IndInv
  OBVIOUS
<1>1. TypeOK
  BY TypeInit
<1>2. SenderInv
  BY DEF Init, SenderInv
<1>3. QueueInv /\ InOrder
  BY PeerFacts DEF Init, QueueInv, InOrder
<1>4. ASSUME NEW e \in Ends, NEW l \in Legs
      PROVE  /\ net[e][l] = <<>> \/ net[e][l] = <<CtlCell("linked_ack", 0)>>
             /\ last_seq_recv[Peer(e)][l] = 0 /\ last_seq_sent[e][l] = 0
             /\ l \in legs[Peer(e)]
  BY PeerFacts DEF Init
<1>5. /\ CtlCell("linked_ack", 0).type = "linked_ack"
      /\ CtlCell("linked_ack", 0).abs = 0
      /\ Advance(CtlCell("linked_ack", 0)) = 0
  BY DEF CtlCell, Advance, Multiplexed
<1>6. \A e \in Ends, l \in Legs : \A k \in 1..Len(net[e][l]) :
         k = 1 /\ net[e][l][k] = CtlCell("linked_ack", 0)
  <2> SUFFICES ASSUME NEW e \in Ends, NEW l \in Legs, NEW k \in 1..Len(net[e][l])
               PROVE  k = 1 /\ net[e][l][k] = CtlCell("linked_ack", 0)
    OBVIOUS
  <2>1. CASE net[e][l] = <<>>
    BY <2>1
  <2>2. CASE net[e][l] = <<CtlCell("linked_ack", 0)>>
    BY <2>2
  <2> QED
    BY <1>4, <2>1, <2>2
<1>7. ChainInv
  <2> SUFFICES ASSUME NEW e \in Ends, NEW l \in Legs
               PROVE  /\ Chained(net[e][l], 0, Len(sent[e]))
                      /\ SeqAfter(net[e][l], 0, Len(net[e][l])) = 0
    BY <1>4 DEF ChainInv
  <2>1. Chained(net[e][l], 0, Len(sent[e]))
    BY <1>5, <1>6 DEF Chained, SeqAfter, Multiplexed
  <2>2. SeqAfter(net[e][l], 0, Len(net[e][l])) = 0
    BY <1>4, <1>5 DEF SeqAfter
  <2> QED
    BY <2>1, <2>2
<1>8. OnePlaceInv
  <2>1. \A e \in Ends, l \in Legs : \A k \in 1..Len(net[e][l]) :
          net[e][l][k].type \notin Multiplexed
    BY <1>5, <1>6 DEF Multiplexed
  <2>2. \A e \in Ends, l \in Legs : Msgs(net[e][l]) = {}
    BY <2>1, MsgsFacts
  <2> QED
    BY <2>1, <2>2 DEF OnePlaceInv, Unique
<1> QED
  BY <1>1, <1>2, <1>3, <1>7, <1>8 DEF IndInv

\* Steps that leave the wires, the numbers and the histories alone.
LEMMA LocalStep ==
    ASSUME IndInv, TypeOK', SenderInv',
           UNCHANGED <<legs, net, sent, log, seqVars>>,
           \A e \in Ends : ooo_q'[e] \subseteq ooo_q[e]
    PROVE  IndInv'
<1>1. TypeOK /\ SenderInv /\ WaysInv /\ PlaceInv /\ QueueInv /\ InOrder
  BY Opened
<1>2. WaysInv'
  BY <1>1 DEF WaysInv, seqVars
<1>3. PlaceInv'
  BY <1>1, PeerFacts DEF PlaceInv, seqVars
<1>4. QueueInv' /\ InOrder'
  BY <1>1 DEF QueueInv, InOrder, seqVars
<1> QED
  BY <1>2, <1>3, <1>4, Closed

\* A channel that blocks or unblocks preserves the invariant.
LEMMA SetBlockedStep ==
    ASSUME IndInv, NEW e \in Ends, NEW l \in Legs, NEW b \in BOOLEAN,
           SetBlocked(e, l, b)
    PROVE  IndInv'
<1>1. TypeOK /\ SenderInv
  BY DEF IndInv
<1>2. TypeOK'
  BY <1>1 DEF SetBlocked, TypeOK, ccVars, seqVars, oooVars
<1>3. SenderInv'
  BY <1>1 DEF SetBlocked, SenderInv, seqVars
<1> QED
  BY <1>2, <1>3, LocalStep DEF SetBlocked, oooVars

\* conflux_pick_first_leg preserves the invariant: nothing was sent before it.
LEMMA PickLegStep ==
    ASSUME IndInv, NEW e \in Ends, PickLeg(e)
    PROVE  IndInv'
<1>1. TypeOK /\ SenderInv
  BY DEF IndInv
<1>2. PICK l \in conflux_pick_first_leg(e) :
        curr_leg' = [curr_leg EXCEPT ![e] = l]
  BY DEF PickLeg
<1>3. l \in legs[e] /\ l \in Legs
  BY <1>1, ChosenLegs DEF PickLeg, TypeOK
<1>4. TypeOK'
  BY <1>1, <1>2, <1>3 DEF PickLeg, TypeOK, ccVars, seqVars, oooVars
<1>5. SenderInv'
  <2>1. sent[e] = <<>> /\ last_seq_sent[e][l] \in Nat /\ last_seq_sent[e][l] <= 0
    BY <1>1, <1>3 DEF PickLeg, SenderInv, TypeOK
  <2>2. last_seq_sent[e][l] = Len(sent[e])
    BY <2>1
  <2> QED
    BY <1>1, <1>2, <1>3, <2>2, LegsAssumption
       DEF PickLeg, SenderInv, TypeOK, seqVars
<1> QED
  BY <1>4, <1>5, LocalStep DEF PickLeg, oooVars

\* conflux_free_ preserves the invariant.
LEMMA FreeSetStep ==
    ASSUME IndInv, NEW e \in Ends, FreeSet(e)
    PROVE  IndInv'
<1>1. TypeOK /\ SenderInv
  BY DEF IndInv
<1>2. TypeOK'
  BY <1>1 DEF FreeSet, TypeOK, ccVars, seqVars
<1>3. SenderInv'
  BY <1>1 DEF FreeSet, SenderInv, seqVars
<1>4. \A x \in Ends : ooo_q'[x] \subseteq ooo_q[x]
  BY <1>1 DEF FreeSet, TypeOK
<1> QED
  BY <1>2, <1>3, <1>4, LocalStep DEF FreeSet

\* Taking a cell that carries no message.
LEMMA ConsumeStep ==
    ASSUME IndInv, TypeOK', NEW e \in Ends, NEW l \in Legs, NEW types,
           Arrives(e, l, types), "destroy" \notin types, Consume(e, l),
           last_seq_recv' = [last_seq_recv EXCEPT ![e][l] =
                               @ + Advance(Head(Incoming(e, l)))],
           UNCHANGED <<legs, curr_leg, last_seq_sent, last_seq_delivered, ooo_q,
                       sent, log>>
    PROVE  IndInv'
<1> DEFINE r == last_seq_recv[e][l] + Advance(Head(Incoming(e, l)))
<1>1. TypeOK /\ SenderInv /\ WaysInv /\ PlaceInv /\ QueueInv /\ InOrder
  BY Opened
<1>2. SenderInv' /\ QueueInv' /\ InOrder'
  BY <1>1 DEF SenderInv, QueueInv, InOrder
<1>3. last_seq_recv' = [last_seq_recv EXCEPT ![e][l] = r]
  OBVIOUS
<1>4. /\ Way(Tail(Incoming(e, l)), r, Len(sent[Peer(e)]),
             last_seq_sent[Peer(e)][l], l \in legs[e])
      /\ Msgs(Tail(Incoming(e, l))) \subseteq Msgs(Incoming(e, l))
  BY TakeWay
<1> HIDE DEF r
<1>5. ASSUME NEW x \in Ends, NEW m \in Legs
      PROVE  /\ Way(net'[x][m], last_seq_recv'[Peer(x)][m], Len(sent[x]),
                     last_seq_sent[x][m], m \in legs[Peer(x)])
             /\ Msgs(net'[x][m]) \subseteq Msgs(net[x][m])
  <2>1. Peer(x) \in Ends /\ (Peer(x) = e <=> x = Peer(e)) /\ Peer(e) \in Ends
    BY PeerFacts
  <2>2. CASE x = Peer(e) /\ m = l
    <3>1. net'[x][m] = Tail(Incoming(e, l)) /\ last_seq_recv'[Peer(x)][m] = r
      BY <1>1, <1>3, <2>1, <2>2 DEF Consume, TypeOK, Incoming
    <3>2. net[x][m] = Incoming(e, l) /\ Peer(x) = e
      BY <2>1, <2>2 DEF Incoming
    <3> QED
      BY <1>4, <2>2, <3>1, <3>2
  <2>3. CASE ~(x = Peer(e) /\ m = l)
    <3>1. net'[x][m] = net[x][m]
      BY <1>1, <2>1, <2>3 DEF Consume, TypeOK
    <3>2. last_seq_recv'[Peer(x)][m] = last_seq_recv[Peer(x)][m]
      <4> HIDE DEF Peer
      <4> QED
        BY <1>1, <1>3, <2>1, <2>3 DEF TypeOK
    <3> QED
      BY <1>1, <3>1, <3>2 DEF WaysInv
  <2> QED
    BY <2>2, <2>3
<1>6. WaysInv'
  BY <1>5 DEF WaysInv
<1>7. PlaceInv'
  BY <1>1, <1>5, PeerFacts DEF PlaceInv
<1> QED
  BY <1>2, <1>6, <1>7, Closed

\* conflux_process_linked_ack preserves the invariant.
LEMMA RecvLinkedAckStep ==
    ASSUME IndInv, NEW e \in Ends, NEW l \in Legs, RecvLinkedAck(e, l)
    PROVE  IndInv'
<1>1. TypeOK
  BY DEF IndInv
<1>2. TypeOK'
  <2>1. net' \in [Ends -> [Legs -> Seq(Cell)]]
    BY <1>1, TypeConsume DEF RecvLinkedAck
  <2>2. circ_rtts_usec' \in [Ends -> [Legs -> Nat]]
    BY <1>1, RttAssumption DEF RecvLinkedAck, TypeOK
  <2> QED
    BY <1>1, <2>1, <2>2 DEF RecvLinkedAck, TypeOK, ccVars, seqVars, oooVars
<1>3. Advance(Head(Incoming(e, l))) = 0
  BY DEF RecvLinkedAck, Arrives, Advance, Multiplexed
<1>4. last_seq_recv' = [last_seq_recv EXCEPT ![e][l] =
                          @ + Advance(Head(Incoming(e, l)))]
  BY <1>1, <1>3 DEF RecvLinkedAck, seqVars, TypeOK
<1> QED
  BY <1>2, <1>4, ConsumeStep DEF RecvLinkedAck, seqVars, oooVars

\* sendme_process_circuit_level preserves the invariant.
LEMMA RecvSendmeStep ==
    ASSUME IndInv, NEW e \in Ends, NEW l \in Legs, RecvSendme(e, l)
    PROVE  IndInv'
<1>1. TypeOK
  BY DEF IndInv
<1>2. TypeOK'
  <2>1. net' \in [Ends -> [Legs -> Seq(Cell)]]
    BY <1>1, TypeConsume DEF RecvSendme
  <2>2. circ_rtts_usec' \in [Ends -> [Legs -> Nat]]
    BY <1>1, RttAssumption DEF RecvSendme, TypeOK
  <2>3. inflight' \in [Ends -> [Legs -> Int]] /\ cwnd' \in [Ends -> [Legs -> Cwnds]]
    BY <1>1, WindowAssumption DEF RecvSendme, TypeOK
  <2> QED
    BY <1>1, <2>1, <2>2, <2>3 DEF RecvSendme, TypeOK, seqVars, oooVars
<1>3. Advance(Head(Incoming(e, l))) = 0
  BY DEF RecvSendme, Arrives, Advance, Multiplexed
<1>4. last_seq_recv' = [last_seq_recv EXCEPT ![e][l] =
                          @ + Advance(Head(Incoming(e, l)))]
  BY <1>1, <1>3 DEF RecvSendme, seqVars, TypeOK
<1> QED
  BY <1>2, <1>4, ConsumeStep DEF RecvSendme, seqVars, oooVars

\* conflux_process_switch_command preserves the invariant: the relative
\* number brings the leg to the sender's number.
LEMMA SwitchStep ==
    ASSUME IndInv, NEW e \in Ends, NEW l \in Legs,
           conflux_process_switch_command(e, l)
    PROVE  IndInv'
<1>1. TypeOK
  BY DEF IndInv
<1> DEFINE c == Head(Incoming(e, l))
<1>2. c \in Cell /\ net' \in [Ends -> [Legs -> Seq(Cell)]]
  BY <1>1, TypeConsume DEF conflux_process_switch_command
<1>3. c.type = "switch"
  BY DEF conflux_process_switch_command, Arrives
<1>4. Advance(c) = c.rel /\ c.rel \in Nat
  <2> HIDE DEF c
  <2> QED
    BY <1>2, <1>3 DEF Advance, Multiplexed, Cell
<1>5. last_seq_recv' = [last_seq_recv EXCEPT ![e][l] = @ + c.rel]
  BY DEF conflux_process_switch_command
<1>6. TypeOK'
  <2>1. last_seq_recv' \in [Ends -> [Legs -> Nat]]
    <3> HIDE DEF c
    <3> QED
      BY <1>1, <1>4, <1>5 DEF TypeOK
  <2> QED
    BY <1>1, <1>2, <2>1
       DEF conflux_process_switch_command, TypeOK, ccVars, oooVars
<1> QED
  BY <1>4, <1>5, <1>6, ConsumeStep DEF conflux_process_switch_command, oooVars

\* Steps that only add to and take from the ways: it is enough to look at one
\* way at a time.
LEMMA NetStep ==
    ASSUME IndInv, TypeOK', SenderInv', UNCHANGED <<seqVars, ooo_q, sent, log>>,
           \A x \in Ends, m \in Legs :
              /\ Way(net'[x][m], last_seq_recv[Peer(x)][m], Len(sent[x]),
                     last_seq_sent[x][m], m \in legs'[Peer(x)])
              /\ Msgs(net'[x][m]) \subseteq Msgs(net[x][m])
    PROVE  IndInv'
<1>1. PlaceInv /\ QueueInv /\ InOrder
  BY Opened
<1>2. QueueInv' /\ InOrder'
  BY <1>1 DEF QueueInv, InOrder, seqVars
<1>3. WaysInv'
  BY DEF WaysInv, seqVars
<1>4. PlaceInv'
  BY <1>1, PeerFacts DEF PlaceInv, seqVars
<1> QED
  BY <1>2, <1>3, <1>4, Closed

\* A close at one end: the legs that go leave no way open towards it and a
\* DESTROY on the way out; the current leg never goes alone.
LEMMA CloseStep ==
    ASSUME IndInv, NEW e \in Ends, NEW l \in Legs, l \in legs[e],
           linked_circuit_closed(e, l),
           UNCHANGED <<circ_rtts_usec, blocked, sent, log, ccVars, seqVars,
                       oooVars>>
    PROVE  IndInv'
<1> DEFINE gone == IF TeardownNeeded(e, l) THEN legs[e] ELSE {l}
<1>1. TypeOK /\ SenderInv /\ WaysInv
  BY Opened
<1>2. /\ legs' = [legs EXCEPT ![e] = @ \ gone]
      /\ curr_leg' = [curr_leg EXCEPT ![e] = IF @ \in gone THEN NoLeg ELSE @]
      /\ net' = [x \in Ends |-> [m \in Legs |->
              CASE m \notin gone -> net[x][m]
                [] m \in gone /\ x = e ->
                     NetPut(e, m, <<CtlCell("destroy", last_seq_sent[e][m])>>)
                [] OTHER -> <<>>]]
  BY DEF linked_circuit_closed
<1>3. /\ gone \subseteq legs[e] /\ legs[e] \subseteq Legs
      /\ curr_leg[e] \in gone => gone = legs[e]
  BY <1>1 DEF TeardownNeeded, TypeOK
<1> HIDE DEF gone
<1>4. ASSUME NEW x \in Ends, NEW m \in Legs
      PROVE  /\ Way(net'[x][m], last_seq_recv[Peer(x)][m], Len(sent[x]),
                     last_seq_sent[x][m], m \in legs'[Peer(x)])
             /\ Msgs(net'[x][m]) \subseteq Msgs(net[x][m])
  <2>1. Peer(x) \in Ends /\ Peer(x) # x /\ (Peer(x) = e <=> x # e)
    BY DEF Ends, Peer
  <2>2. Way(net[x][m], last_seq_recv[Peer(x)][m], Len(sent[x]),
            last_seq_sent[x][m], m \in legs[Peer(x)])
    BY <1>1 DEF WaysInv
  <2>3. CASE m \notin gone
    <3>1. net'[x][m] = net[x][m]
      BY <1>2, <2>3
    <3>2. m \in legs'[Peer(x)] <=> m \in legs[Peer(x)]
      BY <1>1, <1>2, <2>1, <2>3 DEF TypeOK
    <3> QED
      BY <2>2, <3>1, <3>2 DEF Way
  <2>4. CASE m \in gone /\ x = e
    <3>1. net'[x][m] = NetPut(x, m, <<CtlCell("destroy", last_seq_sent[x][m])>>)
      BY <1>2, <2>4
    <3>2. legs'[Peer(x)] = legs[Peer(x)]
      BY <1>1, <1>2, <2>1, <2>4 DEF TypeOK
    <3> QED
      BY <1>1, <3>1, <3>2, PutCtl
  <2>5. CASE m \in gone /\ x # e
    <3>1. net'[x][m] = <<>>
      BY <1>2, <2>5
    <3>2. m \notin legs'[Peer(x)]
      BY <1>1, <1>2, <2>1, <2>5 DEF TypeOK
    <3>3. Msgs(<<>>) = {} /\ Chained(<<>>, last_seq_recv[Peer(x)][m], Len(sent[x]))
          /\ Unique(<<>>)
      BY DEF Msgs, Chained, Unique
    <3> QED
      BY <3>1, <3>2, <3>3 DEF Way
  <2> QED
    BY <2>3, <2>4, <2>5
<1>5. TypeOK'
  <2>1. legs' \in [Ends -> SUBSET Legs] /\ curr_leg' \in [Ends -> Legs \cup {NoLeg}]
    BY <1>1, <1>2 DEF TypeOK
  <2>2. \A x \in Ends, m \in Legs : net'[x][m] \in Seq(Cell)
    BY <1>4 DEF Way
  <2>3. net' \in [Ends -> [Legs -> Seq(Cell)]]
    BY <1>2, <2>2
  <2> QED
    BY <1>1, <2>1, <2>3 DEF TypeOK, ccVars, seqVars, oooVars
<1>6. SenderInv'
  <2> SUFFICES ASSUME NEW x \in Ends
               PROVE  /\ curr_leg'[x] # NoLeg =>
                          /\ curr_leg'[x] \in legs'[x]
                          /\ last_seq_sent[x][curr_leg'[x]] = Len(sent[x])
                      /\ curr_leg'[x] = NoLeg /\ legs'[x] # {} => sent[x] = <<>>
    BY <1>1 DEF SenderInv, seqVars
  <2>1. CASE x # e
    <3>1. curr_leg'[x] = curr_leg[x] /\ legs'[x] = legs[x]
      BY <1>1, <1>2, <2>1 DEF TypeOK
    <3> QED
      BY <1>1, <3>1 DEF SenderInv
  <2>2. CASE x = e
    <3>1. /\ curr_leg'[x] = IF curr_leg[x] \in gone THEN NoLeg ELSE curr_leg[x]
          /\ legs'[x] = legs[x] \ gone
      BY <1>1, <1>2, <2>2 DEF TypeOK
    <3> QED
      BY <1>1, <1>3, <2>2, <3>1 DEF SenderInv
  <2> QED
    BY <2>1, <2>2
<1> QED
  BY <1>4, <1>5, <1>6, NetStep DEF oooVars

\* A relay that fails in the middle of a path preserves the invariant.
LEMMA PathFailsStep ==
    ASSUME IndInv, NEW l \in Legs, PathFails(l)
    PROVE  IndInv'
<1>1. TypeOK /\ SenderInv /\ WaysInv
  BY Opened
<1>2. ASSUME NEW x \in Ends, NEW m \in Legs
      PROVE  /\ Way(net'[x][m], last_seq_recv[Peer(x)][m], Len(sent[x]),
                     last_seq_sent[x][m], m \in legs'[Peer(x)])
             /\ Msgs(net'[x][m]) \subseteq Msgs(net[x][m])
  <2>1. Way(net[x][m], last_seq_recv[Peer(x)][m], Len(sent[x]),
            last_seq_sent[x][m], m \in legs[Peer(x)])
    BY <1>1 DEF WaysInv
  <2>2. legs' = legs /\ Peer(x) \in Ends
    BY PeerFacts DEF PathFails
  <2>3. CASE m # l
    <3>1. net'[x][m] = net[x][m]
      BY <1>1, <2>3 DEF PathFails, TypeOK
    <3> QED
      BY <2>1, <2>2, <3>1
  <2>4. CASE m = l
    <3>1. net'[x][m] = NetPut(x, m, <<CtlCell("destroy", last_seq_sent[x][m])>>)
      BY <1>1, <2>4 DEF PathFails, TypeOK
    <3> QED
      BY <1>1, <2>2, <3>1, PutCtl
  <2> QED
    BY <2>3, <2>4
<1>3. TypeOK'
  <2>1. \A x \in Ends, m \in Legs : net'[x][m] \in Seq(Cell)
    BY <1>2 DEF Way
  <2>2. net' \in [Ends -> [Legs -> Seq(Cell)]]
    BY <1>1, <2>1 DEF PathFails, TypeOK
  <2> QED
    BY <1>1, <2>2 DEF PathFails, TypeOK, ccVars, seqVars, oooVars
<1>4. SenderInv'
  BY <1>1 DEF SenderInv, PathFails, seqVars
<1> QED
  BY <1>2, <1>3, <1>4, NetStep DEF PathFails, oooVars

\* Cells that a DESTROY overtakes are lost without harm to the invariant.
LEMMA DestroyOvertakesStep ==
    ASSUME IndInv, NEW e \in Ends, NEW l \in Legs, DestroyOvertakes(e, l)
    PROVE  IndInv'
<1> DEFINE q == net[e][l]
           s == Append(SubSeq(q, 1, Len(q) - 2), q[Len(q)])
<1>1. TypeOK /\ SenderInv /\ WaysInv
  BY Opened
<1>2. net' = [net EXCEPT ![e][l] = s] /\ Ended(q) /\ Len(q) > 1
  BY DEF DestroyOvertakes
<1>3. Way(q, last_seq_recv[Peer(e)][l], Len(sent[e]), last_seq_sent[e][l],
          l \in legs[Peer(e)])
  BY <1>1 DEF WaysInv
<1>4. q \in Seq(Cell) /\ last_seq_recv[Peer(e)][l] \in Nat /\ Len(sent[e]) \in Nat
  BY <1>1, PeerFacts DEF TypeOK
<1>5. l \in legs[Peer(e)]
  BY <1>2, <1>3 DEF Way
<1>6. /\ s \in Seq(Cell)
      /\ Chained(s, last_seq_recv[Peer(e)][l], Len(sent[e]))
      /\ Ended(s)
      /\ Unique(s)
      /\ Msgs(s) \subseteq Msgs(q)
  <2>1. Chained(q, last_seq_recv[Peer(e)][l], Len(sent[e])) /\ Unique(q)
    BY <1>3 DEF Way
  <2> HIDE DEF q
  <2> QED
    BY <1>2, <1>4, <2>1, Overtake
<1> HIDE DEF s
<1>7. ASSUME NEW x \in Ends, NEW m \in Legs
      PROVE  /\ Way(net'[x][m], last_seq_recv[Peer(x)][m], Len(sent[x]),
                     last_seq_sent[x][m], m \in legs'[Peer(x)])
             /\ Msgs(net'[x][m]) \subseteq Msgs(net[x][m])
  <2>1. legs' = legs
    BY DEF DestroyOvertakes
  <2>2. CASE x = e /\ m = l
    <3>1. net'[x][m] = s
      BY <1>1, <1>2, <2>2 DEF TypeOK
    <3> QED
      BY <1>5, <1>6, <2>1, <2>2, <3>1 DEF Way
  <2>3. CASE ~(x = e /\ m = l)
    <3>1. net'[x][m] = net[x][m]
      BY <1>1, <1>2, <2>3 DEF TypeOK
    <3> QED
      BY <1>1, <2>1, <3>1 DEF WaysInv
  <2> QED
    BY <2>2, <2>3
<1>8. TypeOK'
  <2>1. net' \in [Ends -> [Legs -> Seq(Cell)]]
    BY <1>1, <1>2, <1>6 DEF TypeOK
  <2> QED
    BY <1>1, <2>1 DEF DestroyOvertakes, TypeOK, ccVars, seqVars, oooVars
<1>9. SenderInv'
  BY <1>1 DEF SenderInv, DestroyOvertakes, seqVars
<1> QED
  BY <1>7, <1>8, <1>9, NetStep DEF DestroyOvertakes, oooVars

\* Every step of a set preserves the invariant.
LEMMA NextStep == IndInv /\ [Next]_vars => IndInv'
<1> SUFFICES ASSUME IndInv, [Next]_vars PROVE IndInv'
  OBVIOUS
<1>1. ASSUME NEW e \in Ends, PickLeg(e) PROVE IndInv'
  BY <1>1, PickLegStep
<1>2. ASSUME NEW e \in Ends, FreeSet(e) PROVE IndInv'
  BY <1>2, FreeSetStep
<1>3. ASSUME NEW e \in Ends, NEW k \in Multiplexed, Send(e, k) PROVE IndInv'
  BY <1>3, SendStep
<1>4. ASSUME NEW e \in Ends, NEW l \in Legs, RecvLinkedAck(e, l) PROVE IndInv'
  BY <1>4, RecvLinkedAckStep
<1>5. ASSUME NEW e \in Ends, NEW l \in Legs, conflux_process_switch_command(e, l)
      PROVE  IndInv'
  BY <1>5, SwitchStep
<1>6. ASSUME NEW e \in Ends, NEW l \in Legs, RecvMsg(e, l) PROVE IndInv'
  BY <1>6, RecvMsgStep
<1>7. ASSUME NEW e \in Ends, NEW l \in Legs, RecvSendme(e, l) PROVE IndInv'
  BY <1>7, RecvSendmeStep
<1>8. ASSUME NEW e \in Ends, NEW l \in Legs, RecvDestroy(e, l) PROVE IndInv'
  BY <1>8, CloseStep DEF RecvDestroy, Arrives
<1>9. ASSUME NEW e \in Ends, NEW l \in Legs, CloseCircuit(e, l) PROVE IndInv'
  BY <1>9, CloseStep DEF CloseCircuit
<1>10. ASSUME NEW e \in Ends, NEW l \in Legs, NEW b \in BOOLEAN, SetBlocked(e, l, b)
       PROVE  IndInv'
  BY <1>10, SetBlockedStep
<1>11. ASSUME NEW e \in Ends, NEW l \in Legs, DestroyOvertakes(e, l) PROVE IndInv'
  BY <1>11, DestroyOvertakesStep
<1>12. ASSUME NEW l \in Legs, PathFails(l) PROVE IndInv'
  BY <1>12, PathFailsStep
<1>13. CASE UNCHANGED vars
  <2>1. TypeOK /\ SenderInv
    BY Opened
  <2>2. TypeOK' /\ SenderInv'
    BY <1>13, <2>1 DEF vars, TypeOK, SenderInv
  <2> QED
    BY <1>13, <2>2, LocalStep DEF vars, seqVars
<1> QED
  BY <1>1, <1>2, <1>3, <1>4, <1>5, <1>6, <1>7, <1>8, <1>9, <1>10, <1>11, <1>12,
     <1>13 DEF Next, Receive

-----------------------------------------------------------------------------
(* Results. *)

\* The inductive invariant holds for any number of legs, window, RTT and
\* message, whatever fails.
THEOREM Invariance == Spec => []IndInv
<1>1. Init => IndInv
  BY InitStep
<1>2. IndInv /\ [Next]_vars => IndInv'
  BY NextStep
<1> QED
  BY <1>1, <1>2, PTL DEF Spec

\* Every field keeps its type; in particular no sequence number ever leaves
\* the naturals.
THEOREM TypeCorrect == Spec => []TypeOK
<1>1. IndInv => TypeOK
  BY DEF IndInv
<1> QED
  BY <1>1, Invariance, PTL

\* Streams get the sender's messages in order, once each and with no gap.
THEOREM Delivery == Spec => []InOrder
<1>1. IndInv => InOrder
  BY DEF IndInv
<1> QED
  BY <1>1, Invariance, PTL

\* The out-of-order queue always waits for a missing message.
THEOREM QueueHole == Spec => []QueueWaitsForHole
<1>1. IndInv => QueueWaitsForHole
  BY DEF IndInv, QueueInv, QueueWaitsForHole
<1> QED
  BY <1>1, Invariance, PTL

\* The tor_assert on the direction of a switch cannot fail.
THEOREM SwitchForward == Spec => []SwitchNeverGoesBack
<1>1. IndInv => SwitchNeverGoesBack
  BY DEF IndInv, SenderInv, SwitchNeverGoesBack, TypeOK
<1> QED
  BY <1>1, Invariance, PTL

\* The BUG() branch of conflux_process_relay_msg cannot be reached.
THEOREM NoStale == Spec => []NoStaleMsg
<1>1. ASSUME IndInv PROVE NoStaleMsg
  <2> SUFFICES ASSUME NEW e \in Ends, NEW l \in Legs, Arrives(e, l, Multiplexed)
               PROVE  last_seq_recv[e][l] + 1 > last_seq_delivered[e]
    BY DEF NoStaleMsg
  <2>1. "destroy" \notin Multiplexed /\ Head(Incoming(e, l)).type \in Multiplexed
    BY DEF Multiplexed, Arrives
  <2>2. last_seq_recv[e][l] + 1 \in Msgs(Incoming(e, l))
    BY <1>1, <2>1, TakeWay
  <2>3. PlaceInv
    BY <1>1, Opened
  <2>4. Peer(e) \in Ends /\ Peer(Peer(e)) = e
    BY PeerFacts
  <2> QED
    BY <2>2, <2>3, <2>4 DEF PlaceInv, Incoming
<1> QED
  BY <1>1, Invariance, PTL

\* A step of the set is a step of the FIFOs or leaves them alone: Send submits,
\* the delivering case of RecvMsg delivers.
LEMMA StepRefines ==
    ASSUME IndInv, IndInv', [Next]_vars
    PROVE  [Fifo!Next]_<<sent, [e \in Ends |-> log[Peer(e)]]>>
<1> DEFINE got == [e \in Ends |-> log[Peer(e)]]
<1>1. TypeOK /\ InOrder /\ TypeOK' /\ InOrder'
  BY DEF IndInv
<1>2. CASE UNCHANGED <<sent, log>>
  BY <1>2
<1>3. ASSUME NEW e \in Ends, NEW k \in Multiplexed, Send(e, k)
      PROVE  Fifo!Next
  <2>1. sent' = [sent EXCEPT ![e] = Append(@, k)] /\ got' = got
    BY <1>3 DEF Send
  <2>2. Fifo!Submit(e)
    BY <2>1 DEF Fifo!Submit
  <2> QED
    BY <2>2 DEF Fifo!Next
<1>4. ASSUME NEW e \in Ends, NEW l \in Legs, RecvMsg(e, l)
      PROVE  Fifo!Next \/ UNCHANGED <<sent, log>>
  <2> DEFINE P == Peer(e)
             n == last_seq_delivered'[e]
  <2>1. P \in Ends /\ Peer(P) = e /\ \A x \in Ends : x # P => Peer(x) # e
    BY PeerFacts
  <2>2. sent' = sent
    BY <1>4 DEF RecvMsg
  <2>3. CASE UNCHANGED log
    BY <2>2, <2>3
  <2>4. CASE last_seq_recv[e][l] + 1 = last_seq_delivered[e] + 1
    <3>1. /\ \A x \in Ends : x # e => log'[x] = log[x]
          /\ n \in {last_seq_recv[e][l] + 1} \cup {m.seq : m \in ooo_q[e]}
      <4>1. ~(last_seq_recv[e][l] + 1 > last_seq_delivered[e] + 1)
        BY <1>1, <2>4 DEF TypeOK
      <4>2. PICK j \in {last_seq_recv[e][l] + 1} \cup {m.seq : m \in ooo_q[e]} :
              /\ last_seq_delivered' = [last_seq_delivered EXCEPT ![e] = j]
              /\ log' = [log EXCEPT ![e] =
                           Append(@, Head(Incoming(e, l)).msg)
                             \o Run(last_seq_recv[e][l] + 1, j, ooo_q[e])]
        BY <1>4, <4>1 DEF RecvMsg
      <4>3. n = j
        BY <1>1, <4>2 DEF TypeOK
      <4>4. \A x \in Ends : x # e => log'[x] = log[x]
        BY <1>1, <4>2 DEF TypeOK
      <4> HIDE DEF n
      <4> QED
        BY <4>3, <4>4
    <3>2. n \in Nat /\ last_seq_delivered[e] \in Nat /\ last_seq_delivered[e] < n
      <4>1. \A m \in ooo_q[e] : m.seq > last_seq_delivered[e] + 1
        BY DEF IndInv, QueueInv
      <4>2. n \in Nat /\ last_seq_delivered[e] \in Nat
        BY <1>1 DEF TypeOK
      <4> HIDE DEF n
      <4> QED
        BY <2>4, <3>1, <4>1, <4>2
    <3>3. n <= Len(sent[P]) /\ Len(sent[P]) \in Nat
      BY <1>1, <2>1, <2>2 DEF InOrder, TypeOK
    <3>4. Len(log[e]) = last_seq_delivered[e]
      BY <1>1 DEF InOrder
    <3>5. log'[e] = [i \in 1..n |-> i]
      <4>1. /\ log'[e] \in Seq(Nat) /\ Len(log'[e]) = n
            /\ \A i \in 1..n : log'[e][i] = i
        BY <1>1 DEF InOrder, TypeOK
      <4> HIDE DEF n
      <4> QED
        BY <4>1
    <3>6. got[P] = log[e] /\ n \in (Len(got[P]) + 1)..Len(sent[P])
      <4>1. got[P] = log[e]
        BY <2>1
      <4> HIDE DEF n, got, P
      <4> QED
        BY <3>2, <3>3, <3>4, <4>1
    <3>7. got' = [got EXCEPT ![P] = [i \in 1..n |-> i]]
      <4>1. got' = [x \in Ends |-> log'[Peer(x)]]
        OBVIOUS
      <4>2. \A x \in Ends : log'[Peer(x)] =
                              IF x = P THEN [i \in 1..n |-> i] ELSE log[Peer(x)]
        BY <2>1, <3>1, <3>5, PeerFacts
      <4> QED
        BY <4>1, <4>2
    <3>8. Fifo!Deliver(P)
      BY <2>2, <3>6, <3>7 DEF Fifo!Deliver
    <3> QED
      BY <2>1, <3>8 DEF Fifo!Next
  <2> QED
    BY <1>4, <2>3, <2>4 DEF RecvMsg
<1>5. CASE Next
  <2>1. ASSUME NEW e \in Ends, PickLeg(e) \/ FreeSet(e)
        PROVE  UNCHANGED <<sent, log>>
    BY <2>1 DEF PickLeg, FreeSet
  <2>2. ASSUME NEW e \in Ends, NEW l \in Legs,
               \/ RecvLinkedAck(e, l) \/ conflux_process_switch_command(e, l)
               \/ RecvSendme(e, l) \/ RecvDestroy(e, l) \/ CloseCircuit(e, l)
               \/ DestroyOvertakes(e, l) \/ \E b \in BOOLEAN : SetBlocked(e, l, b)
        PROVE  UNCHANGED <<sent, log>>
    BY <2>2 DEF RecvLinkedAck, conflux_process_switch_command, RecvSendme,
                RecvDestroy, CloseCircuit, DestroyOvertakes, SetBlocked
  <2>3. ASSUME NEW l \in Legs, PathFails(l) PROVE UNCHANGED <<sent, log>>
    BY <2>3 DEF PathFails
  <2> QED
    BY <1>2, <1>3, <1>4, <1>5, <2>1, <2>2, <2>3 DEF Next, Receive
<1>6. CASE UNCHANGED vars
  BY <1>2, <1>6 DEF vars
<1> QED
  BY <1>5, <1>6

\* A conflux set implements one FIFO in each direction, for any number of legs
\* and whatever fails.
THEOREM Refinement == Spec => ImplementsFifo
<1>1. Init => Fifo!Init
  BY PeerFacts DEF Init, Fifo!Init
<1>2. IndInv /\ IndInv' /\ [Next]_vars
        => [Fifo!Next]_<<sent, [e \in Ends |-> log[Peer(e)]]>>
  BY StepRefines
<1> QED
  BY <1>1, <1>2, Invariance, PTL DEF Spec, ImplementsFifo, Fifo!Spec

-----------------------------------------------------------------------------
(* The congestion window.  Counting the cells of a wire. *)

\* The places of the cells of type t in q.
Places(q, t) == {i \in 1..Len(q) : q[i].type = t}

\* A count is the number of elements of a finite set.
PlacesFiniteLaw ==
    \A q \in Seq(Cell) : \A t : /\ IsFiniteSet(Places(q, t))
                                /\ Count(q, t) = Cardinality(Places(q, t))
                                /\ Count(q, t) \in Nat

\* A cell sent adds one to the count of its type.
CountAddLaw ==
    \A q \in Seq(Cell), c \in Cell : \A t :
      Count(q \o <<c>>, t) = IF c.type = t THEN Count(q, t) + 1 ELSE Count(q, t)

\* A cell taken lowers the count of its type by one.
CountTakeLaw ==
    \A q \in Seq(Cell) : q # <<>> => \A t :
      /\ Tail(q) \in Seq(Cell)
      /\ Count(q, t) = IF Head(q).type = t THEN Count(Tail(q), t) + 1
                                           ELSE Count(Tail(q), t)

\* Cardinalities: one element more, ...
CardAddLaw ==
    \A S, i : IsFiniteSet(S) =>
      /\ IsFiniteSet(S \cup {i}) /\ Cardinality(S) \in Nat
      /\ Cardinality(S \cup {i}) \in Nat
      /\ Cardinality(S \cup {i}) <= Cardinality(S) + 1

\* ... one less, ...
CardDropLaw ==
    \A S, i : IsFiniteSet(S) /\ i \in S =>
      /\ IsFiniteSet(S \ {i}) /\ Cardinality(S) \in Nat
      /\ Cardinality(S \ {i}) = Cardinality(S) - 1
      /\ Cardinality(S \ {i}) \in Nat

\* ... and a part of a set.
CardPartLaw ==
    /\ \A n \in Nat : IsFiniteSet(1..n)
    /\ \A S : IsFiniteSet(S) => \A T \in SUBSET S :
         IsFiniteSet(T) /\ Cardinality(T) <= Cardinality(S)

\* The laws of counting that the lemmas on the window need.  They are proved
\* below (lemma Counting) from the theorems on finite sets; until then a lemma
\* that counts takes them as an assumption, which keeps those theorems out of
\* the context of the lemmas.
CountingLaws ==
    /\ PlacesFiniteLaw /\ CountAddLaw /\ CountTakeLaw
    /\ CardAddLaw /\ CardDropLaw /\ CardPartLaw

\* A count is the number of elements of a finite set.
LEMMA PlacesFinite ==
    ASSUME CountingLaws, NEW q \in Seq(Cell), NEW t
    PROVE  /\ IsFiniteSet(Places(q, t))
           /\ Count(q, t) = Cardinality(Places(q, t))
           /\ Count(q, t) \in Nat
BY DEF CountingLaws, PlacesFiniteLaw

\* A cell sent adds one to the count of its type.
LEMMA CountAdd ==
    ASSUME CountingLaws, NEW q \in Seq(Cell), NEW c \in Cell, NEW t
    PROVE  Count(q \o <<c>>, t) = IF c.type = t THEN Count(q, t) + 1 ELSE Count(q, t)
BY DEF CountingLaws, CountAddLaw

\* A cell taken lowers the count of its type by one.
LEMMA CountTake ==
    ASSUME CountingLaws, NEW q \in Seq(Cell), q # <<>>, NEW t
    PROVE  /\ Tail(q) \in Seq(Cell)
           /\ Count(q, t) = IF Head(q).type = t THEN Count(Tail(q), t) + 1
                                                ELSE Count(Tail(q), t)
BY DEF CountingLaws, CountTakeLaw

\* One element more.
LEMMA CardAdd ==
    ASSUME CountingLaws, NEW S, NEW i, IsFiniteSet(S)
    PROVE  /\ IsFiniteSet(S \cup {i}) /\ Cardinality(S) \in Nat
           /\ Cardinality(S \cup {i}) \in Nat
           /\ Cardinality(S \cup {i}) <= Cardinality(S) + 1
BY DEF CountingLaws, CardAddLaw

\* One element less.
LEMMA CardDrop ==
    ASSUME CountingLaws, NEW S, NEW i, IsFiniteSet(S), i \in S
    PROVE  /\ IsFiniteSet(S \ {i}) /\ Cardinality(S) \in Nat
           /\ Cardinality(S \ {i}) = Cardinality(S) - 1
           /\ Cardinality(S \ {i}) \in Nat
BY DEF CountingLaws, CardDropLaw

\* Part of a set.
LEMMA CardPart ==
    ASSUME CountingLaws PROVE CardPartLaw
BY DEF CountingLaws

\* A wire ends with a DESTROY exactly when that was the last cell sent.
LEMMA EndedAdd ==
    ASSUME NEW q \in Seq(Cell), NEW c \in Cell
    PROVE  Ended(q \o <<c>>) <=> c.type = "destroy"
BY DEF Ended

\* Taking a cell other than a DESTROY does not change how the wire ends.
LEMMA EndedTake ==
    ASSUME NEW q \in Seq(Cell), q # <<>>, Head(q).type # "destroy"
    PROVE  Ended(Tail(q)) <=> Ended(q)
<1> DEFINE p == Tail(q)
<1>1. /\ p \in Seq(Cell) /\ Len(q) \in Nat /\ Len(q) >= 1 /\ Len(p) = Len(q) - 1
      /\ Head(q) = q[1]
      /\ \A k \in 1..Len(p) : p[k] = q[k + 1]
  OBVIOUS
<1>2. (p = <<>> => Len(p) = 0) /\ (p # <<>> => Len(p) \in Nat \ {0})
  BY <1>1, SeqLength
<1> HIDE DEF p
<1>3. CASE Len(q) = 1
  <2>1. p = <<>> /\ q[Len(q)].type # "destroy"
    BY <1>1, <1>2, <1>3
  <2> QED
    BY <2>1 DEF Ended, p
<1>4. CASE Len(q) > 1
  <2>1. Len(p) \in 1..Len(p) /\ Len(p) + 1 = Len(q) /\ p # <<>>
    BY <1>1, <1>2, <1>4
  <2>2. p[Len(p)] = q[Len(q)]
    BY <1>1, <2>1
  <2> QED
    BY <2>1, <2>2 DEF Ended, p
<1> QED
  BY <1>1, <1>3, <1>4

\* A DATA message is on a wire when some cell carries it.
LEMMA DataFacts ==
    ASSUME NEW q, NEW i
    PROVE  i \in DataMsgs(q) <=> \E k \in 1..Len(q) : q[k].type = "data" /\ q[k].msg = i
BY DEF DataMsgs

\* A cell sent adds its message if it is DATA.
LEMMA DataAdd ==
    ASSUME NEW q \in Seq(Cell), NEW c \in Cell
    PROVE  DataMsgs(q \o <<c>>) =
             IF c.type = "data" THEN DataMsgs(q) \cup {c.msg} ELSE DataMsgs(q)
<1> DEFINE p == q \o <<c>>
           n == Len(q) + 1
<1>1. /\ Len(p) = n /\ p[n] = c /\ Len(q) \in Nat
      /\ \A k \in 1..Len(q) : p[k] = q[k]
  OBVIOUS
<1>2. 1..n = 1..Len(q) \cup {n}
  BY <1>1
<1> HIDE DEF p, n
<1>3. \A i : i \in DataMsgs(p) <=> i \in DataMsgs(q) \/ (c.type = "data" /\ i = c.msg)
  BY <1>1, <1>2, DataFacts
<1> QED
  BY <1>3 DEF p

\* A cell taken leaves the DATA messages of the others, all different from it.
LEMMA DataTake ==
    ASSUME NEW q \in Seq(Cell), q # <<>>
    PROVE  /\ DataMsgs(q) = IF Head(q).type = "data"
                              THEN DataMsgs(Tail(q)) \cup {Head(q).msg}
                              ELSE DataMsgs(Tail(q))
           /\ Head(q).type = "data" /\ Unique(q) => Head(q).msg \notin DataMsgs(Tail(q))
<1> DEFINE p == Tail(q)
<1>1. /\ Len(q) \in Nat /\ Len(q) >= 1 /\ Len(p) = Len(q) - 1
      /\ Head(q) = q[1]
      /\ \A k \in 1..Len(p) : p[k] = q[k + 1]
  OBVIOUS
<1> HIDE DEF p
<1>2. /\ \A k \in 1..Len(p) : k + 1 \in 1..Len(q) /\ k + 1 # 1
      /\ \A k \in 1..Len(q) : k # 1 => k - 1 \in 1..Len(p) /\ p[k - 1] = q[k]
      /\ 1 \in 1..Len(q)
  BY <1>1
<1>3. \A i : i \in DataMsgs(q) <=>
               i \in DataMsgs(p) \/ (q[1].type = "data" /\ i = q[1].msg)
  <2> SUFFICES ASSUME NEW i
               PROVE  i \in DataMsgs(q) <=>
                        i \in DataMsgs(p) \/ (q[1].type = "data" /\ i = q[1].msg)
    OBVIOUS
  <2>1. ASSUME i \in DataMsgs(q)
        PROVE  i \in DataMsgs(p) \/ (q[1].type = "data" /\ i = q[1].msg)
    <3>1. PICK k \in 1..Len(q) : q[k].type = "data" /\ q[k].msg = i
      BY <2>1, DataFacts
    <3>2. CASE k = 1
      BY <3>1, <3>2
    <3>3. CASE k # 1
      <4>1. k - 1 \in 1..Len(p) /\ p[k - 1].type = "data" /\ p[k - 1].msg = i
        BY <1>2, <3>1, <3>3
      <4> QED
        BY <4>1, DataFacts
    <3> QED
      BY <3>2, <3>3
  <2>2. ASSUME i \in DataMsgs(p) PROVE i \in DataMsgs(q)
    <3>1. PICK k \in 1..Len(p) : p[k].type = "data" /\ p[k].msg = i
      BY <2>2, DataFacts
    <3>2. k + 1 \in 1..Len(q) /\ q[k + 1].type = "data" /\ q[k + 1].msg = i
      BY <1>1, <1>2, <3>1
    <3> QED
      BY <3>2, DataFacts
  <2>3. ASSUME q[1].type = "data", i = q[1].msg PROVE i \in DataMsgs(q)
    BY <1>2, <2>3, DataFacts
  <2> QED
    BY <2>1, <2>2, <2>3
<1>4. ASSUME Head(q).type = "data", Unique(q), Head(q).msg \in DataMsgs(p) PROVE FALSE
  <2>0. q[1].msg \in DataMsgs(p)
    BY <1>1, <1>4
  <2>1. PICK k \in 1..Len(p) : p[k].type = "data" /\ p[k].msg = q[1].msg
    BY <2>0, DataFacts
  <2>2. k + 1 \in 1..Len(q) /\ 1 \in 1..Len(q) /\ k + 1 # 1 /\ q[k + 1] = p[k]
    BY <1>1, <1>2
  <2>3. q[k + 1].type \in Multiplexed /\ q[1].type \in Multiplexed
    BY <1>1, <1>4, <2>1, <2>2 DEF Multiplexed
  <2> QED
    BY <1>4, <2>1, <2>2, <2>3 DEF Unique
<1> QED
  BY <1>1, <1>3, <1>4 DEF p

\* Nothing is on an empty wire.
LEMMA DataEmpty == DataMsgs(<<>>) = {}
BY DEF DataMsgs

\* What a DESTROY that overtakes a cell does to a wire.
LEMMA DataOvertake ==
    ASSUME CountingLaws, NEW q \in Seq(Cell), Len(q) > 1, Ended(q),
           NEW s, s = Append(SubSeq(q, 1, Len(q) - 2), q[Len(q)])
    PROVE  /\ s \in Seq(Cell) /\ Ended(s)
           /\ DataMsgs(s) \subseteq DataMsgs(q)
           /\ Count(s, "sendme") <= Count(q, "sendme")
<1> DEFINE m == Len(q) - 2
           p == SubSeq(q, 1, m)
           c == q[Len(q)]
<1>1. Len(q) \in Nat /\ m \in Nat /\ m <= Len(q) /\ c.type = "destroy"
  BY DEF Ended
<1>2. p \in Seq(Cell) /\ Len(p) = m /\ \A k \in 1..m : p[k] = q[k]
  BY <1>1, PrefixFacts
<1>3. c \in Cell
  BY <1>1, SeqElement
<1>4. s = p \o <<c>>
  <2> HIDE DEF p, c
  <2> QED
    BY <1>2, <1>3 DEF p, c
<1> HIDE DEF p, c
<1>5. /\ p \o <<c>> \in Seq(Cell) /\ Ended(p \o <<c>>)
      /\ DataMsgs(p \o <<c>>) = DataMsgs(p)
      /\ Count(p \o <<c>>, "sendme") = Count(p, "sendme")
  <2>1. p \o <<c>> \in Seq(Cell)
    BY <1>2, <1>3
  <2>2. Ended(p \o <<c>>)
    BY <1>1, <1>2, <1>3, EndedAdd
  <2>3. DataMsgs(p \o <<c>>) = DataMsgs(p)
    BY <1>1, <1>2, <1>3, DataAdd
  <2>4. Count(p \o <<c>>, "sendme") = Count(p, "sendme")
    BY <1>1, <1>2, <1>3, CountAdd
  <2> QED
    BY <2>1, <2>2, <2>3, <2>4
<1>6. s \in Seq(Cell) /\ Ended(s) /\ DataMsgs(s) = DataMsgs(p)
      /\ Count(s, "sendme") = Count(p, "sendme")
  BY ONLY <1>4, <1>5, ZenonT(30)
<1>7. 1..m \subseteq 1..Len(q)
  BY <1>1
<1>8. DataMsgs(p) \subseteq DataMsgs(q)
  BY <1>2, <1>7, DataFacts
<1>9. Count(p, "sendme") <= Count(q, "sendme")
  <2>1. Places(p, "sendme") \in SUBSET Places(q, "sendme")
    BY <1>2, <1>7 DEF Places
  <2>2. IsFiniteSet(Places(q, "sendme")) /\ Count(q, "sendme") = Cardinality(Places(q, "sendme"))
        /\ Count(p, "sendme") = Cardinality(Places(p, "sendme"))
    BY <1>2, PlacesFinite
  <2> QED
    BY <2>1, <2>2, CardPart DEF CardPartLaw
<1> QED
  BY <1>6, <1>8, <1>9

-----------------------------------------------------------------------------
(* One direction of one leg.  q are the cells on their way, b the cells that  *)
(* come back, f is the sender's cc->inflight, u what the receiver has not     *)
(* acknowledged; mine and theirs say whether each end still has the leg.      *)

\* One direction of one leg: q and b are the wires there and back, f what the
\* sender has in flight, u what the receiver has not acknowledged, mine and
\* theirs say at which end the leg still is.
Leg(q, b, f, u, mine, theirs) ==
    /\ q \in Seq(Cell) /\ b \in Seq(Cell) /\ f \in Int
    /\ u \in Nat /\ u < SendmeInc
    /\ mine /\ ~theirs => Ended(b)
    /\ theirs /\ ~mine => Ended(q)
    /\ mine /\ theirs /\ ~Ended(q) /\ ~Ended(b) =>
         f = Count(q, "data") + u + SendmeInc * Count(b, "sendme")

\* S is charged to the leg (Charged).
Holds(q, b, f, u, mine, theirs, S) ==
    /\ IsFiniteSet(S)
    /\ DataMsgs(q) \subseteq S
    /\ theirs /\ ~Ended(q) => S \subseteq DataMsgs(q)
    /\ mine => Cardinality(S) + u + SendmeInc * Count(b, "sendme") <= f
    /\ ~mine => Cardinality(S) < SendmeInc

\* A cell that is neither DATA nor a DESTROY comes onto the wire or leaves it.
LEMMA PutOther ==
    ASSUME CountingLaws, NEW q, NEW b, NEW f, NEW u, NEW mine, NEW theirs, NEW c \in Cell,
           c.type \notin {"data", "destroy"}, ~Ended(q),
           Leg(q, b, f, u, mine, theirs)
    PROVE  /\ Leg(q \o <<c>>, b, f, u, mine, theirs)
           /\ ~Ended(q \o <<c>>)
           /\ \A S : Holds(q, b, f, u, mine, theirs, S)
                       => Holds(q \o <<c>>, b, f, u, mine, theirs, S)
<1>1. q \in Seq(Cell) /\ q \o <<c>> \in Seq(Cell)
  BY DEF Leg
<1>2. ~Ended(q \o <<c>>)
  BY <1>1, EndedAdd
<1>3. Count(q \o <<c>>, "data") = Count(q, "data") /\ DataMsgs(q \o <<c>>) = DataMsgs(q)
  BY <1>1, CountAdd, DataAdd
<1> DEFINE p == q \o <<c>>
<1> HIDE DEF p
<1>4. p \in Seq(Cell) /\ ~Ended(p) /\ Count(p, "data") = Count(q, "data") /\ DataMsgs(p) = DataMsgs(q)
  BY <1>1, <1>2, <1>3 DEF p
<1>5. Leg(p, b, f, u, mine, theirs)
  BY <1>4 DEF Leg
<1>6. ASSUME NEW S, Holds(q, b, f, u, mine, theirs, S) PROVE Holds(p, b, f, u, mine, theirs, S)
  BY <1>4, <1>6 DEF Holds
<1> QED
  BY <1>4, <1>5, <1>6 DEF p

\* The same for a wire back, where SENDMEs count.
LEMMA PutBack ==
    ASSUME CountingLaws, NEW q, NEW b, NEW f, NEW u, NEW mine, NEW theirs, NEW c \in Cell,
           c.type \notin {"sendme", "destroy"}, ~Ended(b),
           Leg(q, b, f, u, mine, theirs)
    PROVE  /\ Leg(q, b \o <<c>>, f, u, mine, theirs)
           /\ ~Ended(b \o <<c>>)
           /\ \A S : Holds(q, b, f, u, mine, theirs, S)
                       => Holds(q, b \o <<c>>, f, u, mine, theirs, S)
<1>1. b \in Seq(Cell) /\ b \o <<c>> \in Seq(Cell)
  BY DEF Leg
<1>2. ~Ended(b \o <<c>>)
  BY <1>1, EndedAdd
<1>3. Count(b \o <<c>>, "sendme") = Count(b, "sendme")
  BY <1>1, CountAdd
<1> DEFINE p == b \o <<c>>
<1> HIDE DEF p
<1>4. p \in Seq(Cell) /\ ~Ended(p) /\ Count(p, "sendme") = Count(b, "sendme")
  BY <1>1, <1>2, <1>3 DEF p
<1>5. Leg(q, p, f, u, mine, theirs)
  BY <1>4 DEF Leg
<1>6. ASSUME NEW S, Holds(q, b, f, u, mine, theirs, S) PROVE Holds(q, p, f, u, mine, theirs, S)
  BY <1>4, <1>6 DEF Holds
<1> QED
  BY <1>4, <1>5, <1>6 DEF p

\* DATA that goes onto the wire is counted and charged.
LEMMA PutData ==
    ASSUME CountingLaws, NEW q, NEW b, NEW f, NEW u, NEW mine, NEW theirs, NEW c \in Cell,
           c.type = "data", ~Ended(q),
           Leg(q, b, f, u, mine, theirs)
    PROVE  /\ Leg(q \o <<c>>, b, f + 1, u, mine, theirs)
           /\ \A S : mine /\ Holds(q, b, f, u, mine, theirs, S)
                       => Holds(q \o <<c>>, b, f + 1, u, mine, theirs, S \cup {c.msg})
<1>1. q \in Seq(Cell) /\ q \o <<c>> \in Seq(Cell) /\ b \in Seq(Cell) /\ f \in Int /\ u \in Nat
  BY DEF Leg
<1>2. ~Ended(q \o <<c>>)
  BY <1>1, EndedAdd
<1>3. Count(q \o <<c>>, "data") = Count(q, "data") + 1
      /\ DataMsgs(q \o <<c>>) = DataMsgs(q) \cup {c.msg}
  BY <1>1, CountAdd, DataAdd
<1>4. Count(q, "data") \in Nat /\ Count(b, "sendme") \in Nat
  BY <1>1, PlacesFinite
<1> DEFINE p == q \o <<c>>
           k == SendmeInc * Count(b, "sendme")
<1>5. k \in Int
  BY <1>4, WindowAssumption
<1> HIDE DEF p, k
<1>6. p \in Seq(Cell) /\ ~Ended(p) /\ Count(p, "data") = Count(q, "data") + 1
      /\ DataMsgs(p) = DataMsgs(q) \cup {c.msg}
  BY <1>1, <1>2, <1>3 DEF p
<1>7. Leg(p, b, f + 1, u, mine, theirs)
  BY <1>1, <1>4, <1>5, <1>6 DEF Leg, k
<1>8. ASSUME NEW S, mine, Holds(q, b, f, u, mine, theirs, S)
      PROVE  Holds(p, b, f + 1, u, mine, theirs, S \cup {c.msg})
  <2>1. /\ IsFiniteSet(S) /\ DataMsgs(q) \subseteq S
        /\ theirs /\ ~Ended(q) => S \subseteq DataMsgs(q)
        /\ Cardinality(S) + u + k <= f
    BY <1>8 DEF Holds, k
  <2>2. IsFiniteSet(S \cup {c.msg}) /\ Cardinality(S) \in Nat
        /\ Cardinality(S \cup {c.msg}) \in Nat /\ Cardinality(S \cup {c.msg}) <= Cardinality(S) + 1
    BY <2>1, CardAdd
  <2>3. Cardinality(S \cup {c.msg}) + u + k <= f + 1
    BY <1>1, <1>5, <2>1, <2>2
  <2>4. theirs /\ ~Ended(p) => S \cup {c.msg} \subseteq DataMsgs(p)
    BY <1>6, <2>1
  <2> QED
    BY <1>6, <1>8, <2>1, <2>2, <2>3, <2>4 DEF Holds, k
<1> QED
  BY <1>7, <1>8 DEF p

\* DATA sent on a leg whose wire has ended is charged all the same.
LEMMA LostData ==
    ASSUME CountingLaws, NEW q, NEW b, NEW f, NEW u, NEW mine, NEW theirs, NEW i,
           ~theirs \/ Ended(q), Leg(q, b, f, u, mine, theirs)
    PROVE  /\ Leg(q, b, f + 1, u, mine, theirs)
           /\ \A S : mine /\ Holds(q, b, f, u, mine, theirs, S)
                       => Holds(q, b, f + 1, u, mine, theirs, S \cup {i})
<1>1. b \in Seq(Cell) /\ f \in Int /\ u \in Nat
  BY DEF Leg
<1>2. Leg(q, b, f + 1, u, mine, theirs)
  BY DEF Leg
<1> DEFINE k == SendmeInc * Count(b, "sendme")
<1>3. k \in Int
  BY <1>1, PlacesFinite, WindowAssumption
<1> HIDE DEF k
<1>4. ASSUME NEW S, mine, Holds(q, b, f, u, mine, theirs, S)
      PROVE  Holds(q, b, f + 1, u, mine, theirs, S \cup {i})
  <2>1. IsFiniteSet(S) /\ DataMsgs(q) \subseteq S /\ Cardinality(S) + u + k <= f
    BY <1>4 DEF Holds, k
  <2>2. IsFiniteSet(S \cup {i}) /\ Cardinality(S) \in Nat
        /\ Cardinality(S \cup {i}) \in Nat /\ Cardinality(S \cup {i}) <= Cardinality(S) + 1
    BY <2>1, CardAdd
  <2>3. Cardinality(S \cup {i}) + u + k <= f + 1
    BY <1>1, <1>3, <2>1, <2>2
  <2> QED
    BY <1>4, <2>1, <2>2, <2>3 DEF Holds, k
<1> QED
  BY <1>2, <1>4

\* A cell that is neither DATA nor a DESTROY is taken from the wire.
LEMMA TakeOther ==
    ASSUME CountingLaws, NEW q, NEW b, NEW f, NEW u, NEW mine, NEW theirs,
           q # <<>>, Head(q).type \notin {"data", "destroy"},
           Leg(q, b, f, u, mine, theirs)
    PROVE  /\ Leg(Tail(q), b, f, u, mine, theirs)
           /\ \A S : Holds(q, b, f, u, mine, theirs, S)
                       => Holds(Tail(q), b, f, u, mine, theirs, S)
<1>1. q \in Seq(Cell)
  BY DEF Leg
<1> DEFINE p == Tail(q)
<1>2. p \in Seq(Cell) /\ (Ended(p) <=> Ended(q)) /\ Count(p, "data") = Count(q, "data")
      /\ DataMsgs(p) = DataMsgs(q)
  BY <1>1, EndedTake, CountTake, DataTake
<1> HIDE DEF p
<1>3. Leg(p, b, f, u, mine, theirs)
  BY <1>2 DEF Leg
<1>4. ASSUME NEW S, Holds(q, b, f, u, mine, theirs, S) PROVE Holds(p, b, f, u, mine, theirs, S)
  BY <1>2, <1>4 DEF Holds
<1> QED
  BY <1>3, <1>4 DEF p

\* A cell that is neither a SENDME nor a DESTROY is taken from the wire back.
LEMMA TakeBack ==
    ASSUME CountingLaws, NEW q, NEW b, NEW f, NEW u, NEW mine, NEW theirs,
           b # <<>>, Head(b).type \notin {"sendme", "destroy"},
           Leg(q, b, f, u, mine, theirs)
    PROVE  /\ Leg(q, Tail(b), f, u, mine, theirs)
           /\ \A S : Holds(q, b, f, u, mine, theirs, S)
                       => Holds(q, Tail(b), f, u, mine, theirs, S)
<1>1. b \in Seq(Cell)
  BY DEF Leg
<1> DEFINE p == Tail(b)
<1>2. p \in Seq(Cell) /\ (Ended(p) <=> Ended(b)) /\ Count(p, "sendme") = Count(b, "sendme")
  BY <1>1, EndedTake, CountTake
<1> HIDE DEF p
<1>3. Leg(q, p, f, u, mine, theirs)
  BY <1>2 DEF Leg
<1>4. ASSUME NEW S, Holds(q, b, f, u, mine, theirs, S) PROVE Holds(q, p, f, u, mine, theirs, S)
  BY <1>2, <1>4 DEF Holds
<1> QED
  BY <1>3, <1>4 DEF p

\* A SENDME is processed: the sender's count goes down by what it acknowledges.
LEMMA TakeSendme ==
    ASSUME CountingLaws, NEW q, NEW b, NEW f, NEW u, NEW mine, NEW theirs,
           b # <<>>, Head(b).type = "sendme", Leg(q, b, f, u, mine, theirs)
    PROVE  /\ Leg(q, Tail(b), f - SendmeInc, u, mine, theirs)
           /\ \A S : Holds(q, b, f, u, mine, theirs, S)
                       => Holds(q, Tail(b), f - SendmeInc, u, mine, theirs, S)
<1>1. q \in Seq(Cell) /\ b \in Seq(Cell) /\ f \in Int /\ u \in Nat /\ SendmeInc \in Nat
  BY WindowAssumption DEF Leg
<1> DEFINE p == Tail(b)
           k == SendmeInc * Count(b, "sendme")
           j == SendmeInc * Count(p, "sendme")
<1>2. p \in Seq(Cell) /\ (Ended(p) <=> Ended(b)) /\ Count(b, "sendme") = Count(p, "sendme") + 1
  BY <1>1, EndedTake, CountTake
<1>3. Count(p, "sendme") \in Nat /\ Count(q, "data") \in Nat
  BY <1>1, <1>2, PlacesFinite
<1>4. k = j + SendmeInc /\ j \in Int /\ k \in Int
  <2> DEFINE n == Count(p, "sendme")
  <2>1. n \in Nat /\ k = SendmeInc * (n + 1) /\ j = SendmeInc * n
    BY <1>2, <1>3
  <2> HIDE DEF n, k, j
  <2> QED
    BY <1>1, <2>1
<1> HIDE DEF p, k, j
<1>5. Leg(q, p, f - SendmeInc, u, mine, theirs)
  <2>1. mine /\ theirs /\ ~Ended(q) /\ ~Ended(p) => f = Count(q, "data") + u + k
    BY <1>2 DEF Leg, k
  <2>2. mine /\ theirs /\ ~Ended(q) /\ ~Ended(p) => f - SendmeInc = Count(q, "data") + u + j
    BY <1>1, <1>3, <1>4, <2>1
  <2> QED
    BY <1>1, <1>2, <2>2 DEF Leg, j
<1>6. ASSUME NEW S, Holds(q, b, f, u, mine, theirs, S)
      PROVE  Holds(q, p, f - SendmeInc, u, mine, theirs, S)
  <2>1. IsFiniteSet(S) /\ (mine => Cardinality(S) + u + k <= f)
    BY <1>6 DEF Holds, k
  <2>2. Cardinality(S) \in Nat
    BY <2>1, CardAdd
  <2>3. mine => Cardinality(S) + u + j <= f - SendmeInc
    BY <1>1, <1>4, <2>1, <2>2
  <2> QED
    BY <1>6, <2>3 DEF Holds, j
<1> QED
  BY <1>5, <1>6 DEF p

\* DATA is received: it is no longer charged, and counts as unacknowledged.
LEMMA TakeData ==
    ASSUME CountingLaws, NEW q, NEW b, NEW f, NEW u, NEW mine, NEW theirs,
           q # <<>>, Head(q).type = "data", Unique(q), u + 1 < SendmeInc,
           Leg(q, b, f, u, mine, theirs)
    PROVE  /\ Leg(Tail(q), b, f, u + 1, mine, theirs)
           /\ \A S : Holds(q, b, f, u, mine, theirs, S)
                => Holds(Tail(q), b, f, u + 1, mine, theirs, S \ {Head(q).msg})
<1>1. q \in Seq(Cell) /\ b \in Seq(Cell) /\ f \in Int /\ u \in Nat /\ SendmeInc \in Nat
  BY WindowAssumption DEF Leg
<1> DEFINE p == Tail(q)
           i == Head(q).msg
           k == SendmeInc * Count(b, "sendme")
<1>2. p \in Seq(Cell) /\ (Ended(p) <=> Ended(q)) /\ Count(q, "data") = Count(p, "data") + 1
  BY <1>1, EndedTake, CountTake
<1>3. DataMsgs(q) = DataMsgs(p) \cup {i} /\ i \notin DataMsgs(p)
  BY <1>1, DataTake
<1>4. Count(p, "data") \in Nat /\ Count(b, "sendme") \in Nat
  BY <1>1, <1>2, PlacesFinite
<1>5. k \in Int
  BY <1>1, <1>4
<1> HIDE DEF p, k, i
<1>6. Leg(p, b, f, u + 1, mine, theirs)
  <2>1. mine /\ theirs /\ ~Ended(p) /\ ~Ended(b) => f = Count(q, "data") + u + k
    BY <1>2 DEF Leg, k
  <2>2. mine /\ theirs /\ ~Ended(p) /\ ~Ended(b) => f = Count(p, "data") + (u + 1) + k
    BY <1>1, <1>2, <1>4, <1>5, <2>1
  <2> QED
    BY <1>1, <1>2, <2>2 DEF Leg, k
<1>7. ASSUME NEW S, Holds(q, b, f, u, mine, theirs, S)
      PROVE  Holds(p, b, f, u + 1, mine, theirs, S \ {i})
  <2>1. /\ IsFiniteSet(S) /\ DataMsgs(q) \subseteq S
        /\ theirs /\ ~Ended(q) => S \subseteq DataMsgs(q)
        /\ mine => Cardinality(S) + u + k <= f
        /\ ~mine => Cardinality(S) < SendmeInc
    BY <1>7 DEF Holds, k
  <2>2. i \in S
    BY <1>3, <2>1
  <2>3. IsFiniteSet(S \ {i}) /\ Cardinality(S) \in Nat /\ Cardinality(S \ {i}) = Cardinality(S) - 1
    BY <2>1, <2>2, CardDrop
  <2>4. mine => Cardinality(S \ {i}) + (u + 1) + k <= f
    BY <1>1, <1>5, <2>1, <2>3
  <2>5. ~mine => Cardinality(S \ {i}) < SendmeInc
    BY <1>1, <2>1, <2>3
  <2>6. DataMsgs(p) \subseteq S \ {i}
    BY <1>3, <2>1
  <2>7. theirs /\ ~Ended(p) => S \ {i} \subseteq DataMsgs(p)
    BY <1>2, <1>3, <2>1
  <2> QED
    BY <2>3, <2>4, <2>5, <2>6, <2>7 DEF Holds, k
<1> QED
  BY <1>6, <1>7 DEF p, i

\* DATA is received and makes a SENDME due, which goes out, or is lost on a
\* wire back that has ended.
LEMMA TakeDataAck ==
    ASSUME CountingLaws, NEW q, NEW b, NEW f, NEW u, NEW mine, NEW theirs, NEW c \in Cell, NEW a,
           q # <<>>, Head(q).type = "data", Unique(q), u + 1 >= SendmeInc,
           c.type = "sendme", Leg(q, b, f, u, mine, theirs),
           a = IF ~mine \/ Ended(b) THEN b ELSE b \o <<c>>
    PROVE  /\ Leg(Tail(q), a, f, 0, mine, theirs)
           /\ \A S : Holds(q, b, f, u, mine, theirs, S)
                => Holds(Tail(q), a, f, 0, mine, theirs, S \ {Head(q).msg})
<1>1. q \in Seq(Cell) /\ b \in Seq(Cell) /\ f \in Int /\ u \in Nat
      /\ SendmeInc \in Nat /\ SendmeInc > 0 /\ u + 1 = SendmeInc
  BY WindowAssumption DEF Leg
<1> DEFINE p == Tail(q)
           i == Head(q).msg
           k == SendmeInc * Count(b, "sendme")
           j == SendmeInc * Count(a, "sendme")
<1>2. p \in Seq(Cell) /\ (Ended(p) <=> Ended(q)) /\ Count(q, "data") = Count(p, "data") + 1
  BY <1>1, EndedTake, CountTake
<1>3. DataMsgs(q) = DataMsgs(p) \cup {i} /\ i \notin DataMsgs(p)
  BY <1>1, DataTake
<1>4. Count(p, "data") \in Nat /\ Count(b, "sendme") \in Nat
  BY <1>1, <1>2, PlacesFinite
<1>5. k \in Int
  BY <1>1, <1>4
<1>6. a \in Seq(Cell) /\ (Ended(a) <=> Ended(b)) /\ j \in Int /\ j <= k + SendmeInc
      /\ (mine /\ ~Ended(b) => j = k + SendmeInc)
  <2>1. CASE ~mine \/ Ended(b)
    <3>1. a = b /\ j = k
      BY <2>1
    <3> QED
      BY ONLY <1>1, <1>5, <2>1, <3>1, SMTT(30)
  <2>2. CASE ~(~mine \/ Ended(b))
    <3>1. a = b \o <<c>>
      BY <2>2
    <3>2. a \in Seq(Cell) /\ ~Ended(a) /\ Count(a, "sendme") = Count(b, "sendme") + 1
      <4>1. b \o <<c>> \in Seq(Cell) /\ ~Ended(b \o <<c>>)
            /\ Count(b \o <<c>>, "sendme") = Count(b, "sendme") + 1
        BY <1>1, EndedAdd, CountAdd
      <4> QED
        BY ONLY <3>1, <4>1, ZenonT(30)
    <3>3. j = k + SendmeInc
      <4> DEFINE n == Count(b, "sendme")
      <4>1. n \in Nat /\ k = SendmeInc * n /\ j = SendmeInc * (n + 1)
        BY <1>4, <3>2
      <4> HIDE DEF n, j, k
      <4> QED
        BY ONLY <1>1, <4>1, SMTT(30)
    <3> QED
      BY ONLY <1>1, <1>5, <2>2, <3>2, <3>3, SMTT(30)
  <2> QED
    BY <2>1, <2>2
<1> HIDE DEF p, k, i, j
<1>7. Leg(p, a, f, 0, mine, theirs)
  <2>1. mine /\ theirs /\ ~Ended(p) /\ ~Ended(a) => f = Count(q, "data") + u + k /\ j = k + SendmeInc
    BY <1>2, <1>6 DEF Leg, k
  <2>2. mine /\ theirs /\ ~Ended(p) /\ ~Ended(a) => f = Count(p, "data") + 0 + j
    BY ONLY <1>1, <1>2, <1>4, <1>5, <2>1, SMTT(30)
  <2>3. (mine /\ ~theirs => Ended(a)) /\ (theirs /\ ~mine => Ended(p))
    BY <1>2, <1>6 DEF Leg
  <2> QED
    BY ONLY <1>1, <1>2, <1>6, <2>2, <2>3, SMTT(30) DEF Leg, j
<1>8. ASSUME NEW S, Holds(q, b, f, u, mine, theirs, S)
      PROVE  Holds(p, a, f, 0, mine, theirs, S \ {i})
  <2>1. /\ IsFiniteSet(S) /\ DataMsgs(q) \subseteq S
        /\ theirs /\ ~Ended(q) => S \subseteq DataMsgs(q)
        /\ mine => Cardinality(S) + u + k <= f
        /\ ~mine => Cardinality(S) < SendmeInc
    BY <1>8 DEF Holds, k
  <2>2. i \in S
    BY <1>3, <2>1
  <2>3. IsFiniteSet(S \ {i}) /\ Cardinality(S) \in Nat /\ Cardinality(S \ {i}) = Cardinality(S) - 1
    BY <2>1, <2>2, CardDrop
  <2>4. mine => Cardinality(S \ {i}) + 0 + j <= f
    BY ONLY <1>1, <1>5, <1>6, <2>1, <2>3, SMTT(30)
  <2>5. ~mine => Cardinality(S \ {i}) < SendmeInc
    BY <1>1, <2>1, <2>3
  <2>6. DataMsgs(p) \subseteq S \ {i}
    BY <1>3, <2>1
  <2>7. theirs /\ ~Ended(p) => S \ {i} \subseteq DataMsgs(p)
    BY <1>2, <1>3, <2>1
  <2> QED
    BY ONLY <2>3, <2>4, <2>5, <2>6, <2>7, SMTT(30) DEF Holds, j
<1> QED
  BY <1>7, <1>8 DEF p, i

\* A DESTROY put on a wire ends it and changes nothing else.
LEMMA PutDestroy ==
    ASSUME CountingLaws, NEW q \in Seq(Cell), NEW c \in Cell, c.type = "destroy"
    PROVE  /\ q \o <<c>> \in Seq(Cell) /\ Ended(q \o <<c>>)
           /\ DataMsgs(q \o <<c>>) = DataMsgs(q)
           /\ Count(q \o <<c>>, "sendme") = Count(q, "sendme")
<1>1. q \o <<c>> \in Seq(Cell)
  OBVIOUS
<1>2. Ended(q \o <<c>>)
  BY EndedAdd
<1>3. c.type # "data" /\ c.type # "sendme"
  OBVIOUS
<1>4. DataMsgs(q \o <<c>>) = DataMsgs(q)
  BY <1>3, DataAdd
<1>5. Count(q \o <<c>>, "sendme") = Count(q, "sendme")
  BY <1>3, CountAdd
<1> QED
  BY <1>1, <1>2, <1>4, <1>5

\* The sender closes the leg: what is charged to it was in flight.
LEMMA CloseMine ==
    ASSUME CountingLaws, NEW q, NEW b, NEW f, NEW u, NEW theirs, NEW c \in Cell, NEW p,
           c.type = "destroy", Leg(q, b, f, u, TRUE, theirs),
           p = IF ~theirs \/ Ended(q) THEN q ELSE q \o <<c>>
    PROVE  /\ Leg(p, <<>>, f, u, FALSE, theirs)
           /\ \A S : f < SendmeInc /\ Holds(q, b, f, u, TRUE, theirs, S)
                       => Holds(p, <<>>, f, u, FALSE, theirs, S)
<1>1. q \in Seq(Cell) /\ b \in Seq(Cell) /\ f \in Int /\ u \in Nat /\ u < SendmeInc
      /\ SendmeInc \in Nat
  BY WindowAssumption DEF Leg
<1>2. p \in Seq(Cell) /\ (theirs => Ended(p)) /\ DataMsgs(p) = DataMsgs(q)
  <2>1. CASE ~theirs \/ Ended(q)
    <3>1. p = q
      BY <2>1
    <3> QED
      BY ONLY <1>1, <2>1, <3>1, ZenonT(30)
  <2>2. CASE ~(~theirs \/ Ended(q))
    <3>1. p = q \o <<c>>
      BY <2>2
    <3>2. q \o <<c>> \in Seq(Cell) /\ Ended(q \o <<c>>) /\ DataMsgs(q \o <<c>>) = DataMsgs(q)
      BY <1>1, PutDestroy
    <3> QED
      BY ONLY <3>1, <3>2, ZenonT(30)
  <2> QED
    BY <2>1, <2>2
<1>3. <<>> \in Seq(Cell)
  BY SeqLength
<1>4. Leg(p, <<>>, f, u, FALSE, theirs)
  BY ONLY <1>1, <1>2, <1>3, SMTT(30) DEF Leg
<1> DEFINE k == SendmeInc * Count(b, "sendme")
<1>5. k \in Int /\ k >= 0
  <2> DEFINE n == Count(b, "sendme")
  <2>1. n \in Nat
    BY <1>1, PlacesFinite
  <2> HIDE DEF n
  <2>2. SendmeInc * n \in Nat
    BY ONLY <1>1, <2>1, SMTT(30)
  <2> QED
    BY ONLY <2>2, SMTT(30) DEF n
<1> HIDE DEF k
<1>6. ASSUME NEW S, f < SendmeInc, Holds(q, b, f, u, TRUE, theirs, S)
      PROVE  Holds(p, <<>>, f, u, FALSE, theirs, S)
  <2>1. IsFiniteSet(S) /\ DataMsgs(q) \subseteq S /\ Cardinality(S) + u + k <= f
    BY <1>6 DEF Holds, k
  <2>2. Cardinality(S) \in Nat
    BY <2>1, CardAdd
  <2>3. Cardinality(S) < SendmeInc
    BY ONLY <1>1, <1>5, <1>6, <2>1, <2>2, SMTT(30)
  <2> QED
    BY ONLY <1>2, <2>1, <2>3, SMTT(30) DEF Holds
<1> QED
  BY <1>4, <1>6

\* The receiver closes the leg: what is under way is lost and stays charged.
LEMMA CloseTheirs ==
    ASSUME CountingLaws, NEW q, NEW b, NEW f, NEW u, NEW mine, NEW c \in Cell, NEW a,
           c.type = "destroy", Leg(q, b, f, u, mine, TRUE),
           a = IF ~mine \/ Ended(b) THEN b ELSE b \o <<c>>
    PROVE  /\ Leg(<<>>, a, f, u, mine, FALSE)
           /\ \A S : Holds(q, b, f, u, mine, TRUE, S)
                       => Holds(<<>>, a, f, u, mine, FALSE, S)
<1>1. q \in Seq(Cell) /\ b \in Seq(Cell) /\ f \in Int /\ u \in Nat /\ u < SendmeInc
  BY DEF Leg
<1>2. a \in Seq(Cell) /\ (mine => Ended(a)) /\ Count(a, "sendme") = Count(b, "sendme")
  <2>1. CASE ~mine \/ Ended(b)
    <3>1. a = b
      BY <2>1
    <3> QED
      BY ONLY <1>1, <2>1, <3>1, ZenonT(30)
  <2>2. CASE ~(~mine \/ Ended(b))
    <3>1. a = b \o <<c>>
      BY <2>2
    <3>2. b \o <<c>> \in Seq(Cell) /\ Ended(b \o <<c>>)
          /\ Count(b \o <<c>>, "sendme") = Count(b, "sendme")
      BY <1>1, PutDestroy
    <3> QED
      BY ONLY <3>1, <3>2, ZenonT(30)
  <2> QED
    BY <2>1, <2>2
<1>3. <<>> \in Seq(Cell)
  BY SeqLength
<1>4. Leg(<<>>, a, f, u, mine, FALSE)
  BY ONLY <1>1, <1>2, <1>3, SMTT(30) DEF Leg
<1>5. ASSUME NEW S, Holds(q, b, f, u, mine, TRUE, S)
      PROVE  Holds(<<>>, a, f, u, mine, FALSE, S)
  BY <1>2, <1>5, DataEmpty DEF Holds
<1> QED
  BY <1>4, <1>5

\* A relay on the path fails.
LEMMA BothEnd ==
    ASSUME CountingLaws, NEW q, NEW b, NEW f, NEW u, NEW c \in Cell, NEW d \in Cell,
           c.type = "destroy", d.type = "destroy", Leg(q, b, f, u, TRUE, TRUE)
    PROVE  /\ Leg(q \o <<c>>, b \o <<d>>, f, u, TRUE, TRUE)
           /\ \A S : Holds(q, b, f, u, TRUE, TRUE, S)
                       => Holds(q \o <<c>>, b \o <<d>>, f, u, TRUE, TRUE, S)
<1>1. q \in Seq(Cell) /\ b \in Seq(Cell) /\ f \in Int /\ u \in Nat /\ u < SendmeInc
  BY DEF Leg
<1> DEFINE p == q \o <<c>>
           a == b \o <<d>>
<1>2. p \in Seq(Cell) /\ Ended(p) /\ DataMsgs(p) = DataMsgs(q)
  BY <1>1, PutDestroy
<1>3. a \in Seq(Cell) /\ Ended(a) /\ Count(a, "sendme") = Count(b, "sendme")
  BY <1>1, PutDestroy
<1> HIDE DEF p, a
<1>4. Leg(p, a, f, u, TRUE, TRUE)
  BY ONLY <1>1, <1>2, <1>3, SMTT(30) DEF Leg
<1>5. ASSUME NEW S, Holds(q, b, f, u, TRUE, TRUE, S) PROVE Holds(p, a, f, u, TRUE, TRUE, S)
  BY <1>2, <1>3, <1>5 DEF Holds
<1> QED
  BY <1>4, <1>5 DEF p, a

\* A DESTROY overtakes a cell on the wire.
LEMMA OvertakeThere ==
    ASSUME NEW q, NEW b, NEW f, NEW u, NEW mine, NEW theirs, NEW s \in Seq(Cell),
           Ended(q), Ended(s), DataMsgs(s) \subseteq DataMsgs(q),
           Leg(q, b, f, u, mine, theirs)
    PROVE  /\ Leg(s, b, f, u, mine, theirs)
           /\ \A S : Holds(q, b, f, u, mine, theirs, S) => Holds(s, b, f, u, mine, theirs, S)
<1>1. Leg(s, b, f, u, mine, theirs)
  BY DEF Leg
<1>2. ASSUME NEW S, Holds(q, b, f, u, mine, theirs, S) PROVE Holds(s, b, f, u, mine, theirs, S)
  BY <1>2 DEF Holds
<1> QED
  BY <1>1, <1>2

\* A DESTROY overtakes a cell on the wire back.
LEMMA OvertakeBack ==
    ASSUME CountingLaws, NEW q, NEW b, NEW f, NEW u, NEW mine, NEW theirs, NEW s \in Seq(Cell),
           Ended(b), Ended(s), Count(s, "sendme") <= Count(b, "sendme"),
           Leg(q, b, f, u, mine, theirs)
    PROVE  /\ Leg(q, s, f, u, mine, theirs)
           /\ \A S : Holds(q, b, f, u, mine, theirs, S) => Holds(q, s, f, u, mine, theirs, S)
<1>1. b \in Seq(Cell) /\ f \in Int /\ u \in Nat /\ SendmeInc \in Nat
  BY WindowAssumption DEF Leg
<1>2. Leg(q, s, f, u, mine, theirs)
  BY DEF Leg
<1> DEFINE k == SendmeInc * Count(b, "sendme")
           j == SendmeInc * Count(s, "sendme")
<1>3. k \in Int /\ j \in Int /\ j <= k
  <2> DEFINE m == Count(b, "sendme")
             n == Count(s, "sendme")
  <2>1. m \in Nat /\ n \in Nat /\ n <= m
    BY <1>1, PlacesFinite
  <2> HIDE DEF m, n
  <2>2. SendmeInc * (m - n) \in Nat /\ SendmeInc * m = SendmeInc * n + SendmeInc * (m - n)
        /\ SendmeInc * n \in Int /\ SendmeInc * m \in Int
    BY ONLY <1>1, <2>1, SMTT(30)
  <2>3. SendmeInc * n <= SendmeInc * m
    <3> DEFINE y == SendmeInc * n
               z == SendmeInc * m
               w == SendmeInc * (m - n)
    <3>1. w \in Nat /\ y \in Int /\ z = y + w
      BY ONLY <2>2, SMTT(30)
    <3> HIDE DEF w, y, z
    <3>2. y <= z
      BY ONLY <3>1, SMTT(30)
    <3> QED
      BY ONLY <3>2, SMTT(30) DEF y, z
  <2> QED
    BY ONLY <2>2, <2>3, SMTT(30) DEF m, n
<1> HIDE DEF k, j
<1>4. ASSUME NEW S, Holds(q, b, f, u, mine, theirs, S) PROVE Holds(q, s, f, u, mine, theirs, S)
  <2>1. IsFiniteSet(S) /\ (mine => Cardinality(S) + u + k <= f)
    BY <1>4 DEF Holds, k
  <2>2. Cardinality(S) \in Nat
    BY <2>1, CardAdd
  <2>3. mine => Cardinality(S) + u + j <= f
    BY ONLY <1>1, <1>3, <2>1, <2>2, SMTT(30)
  <2> QED
    BY <1>4, <2>3 DEF Holds, j
<1> QED
  BY <1>2, <1>4

-----------------------------------------------------------------------------
(* The two directions of every leg of the set. *)

\* The two directions of each leg.
LegAt(x, m) ==
    Leg(net[x][m], net[Peer(x)][m], inflight[x][m], unacked[Peer(x)][m],
        m \in legs[x], m \in legs[Peer(x)])
HoldsAt(x, m, S) ==
    Holds(net[x][m], net[Peer(x)][m], inflight[x][m], unacked[Peer(x)][m],
          m \in legs[x], m \in legs[Peer(x)], S)
LegsInv == \A x \in Ends, m \in Legs : LegAt(x, m)

\* What a step owes to one direction of a leg.
Kept(x, m) == LegAt(x, m)' /\ \A S : HoldsAt(x, m, S) => HoldsAt(x, m, S)'

\* WindowInv, leg by leg.
LEMMA LegsOpened ==
    ASSUME TypeOK, WindowInv PROVE LegsInv
<1> SUFFICES ASSUME NEW x \in Ends, NEW m \in Legs PROVE LegAt(x, m)
  BY DEF LegsInv
<1> DEFINE y == Peer(x)
<1>1. y \in Ends /\ Peer(y) = x
  BY PeerFacts
<1>2. net[x][m] \in Seq(Cell) /\ net[y][m] \in Seq(Cell) /\ inflight[x][m] \in Int
      /\ unacked[y][m] \in Nat
  BY <1>1 DEF TypeOK
<1>3. /\ unacked[y][m] < SendmeInc
      /\ m \in legs[x] /\ m \notin legs[y] => Ended(net[y][m])
      /\ m \in legs[y] /\ m \notin legs[x] => Ended(net[x][m])
      /\ LegConserved(x, m)
  BY <1>1 DEF WindowInv
<1> QED
  BY <1>2, <1>3 DEF LegAt, Leg, LegConserved

\* And back, for the state after a step.
LEMMA LegsClosed ==
    ASSUME LegsInv' PROVE WindowInv'
<1> SUFFICES ASSUME NEW x \in Ends, NEW m \in Legs
             PROVE  /\ unacked'[x][m] < SendmeInc
                    /\ m \in legs'[x] \ legs'[Peer(x)] => Ended(net'[Peer(x)][m])
                    /\ LegConserved(x, m)'
  BY DEF WindowInv
<1>1. Peer(x) \in Ends /\ Peer(Peer(x)) = x
  BY PeerFacts
<1>2. LegAt(x, m)' /\ LegAt(Peer(x), m)'
  BY <1>1 DEF LegsInv
<1>3. unacked'[x][m] < SendmeInc
  BY <1>1, <1>2 DEF LegAt, Leg
<1>4. m \in legs'[x] \ legs'[Peer(x)] => Ended(net'[Peer(x)][m])
  BY <1>2 DEF LegAt, Leg
<1>5. LegConserved(x, m)'
  BY <1>2 DEF LegAt, Leg, LegConserved
<1> QED
  BY <1>3, <1>4, <1>5

\* A leg a step does not touch.
SameLeg(m) ==
    \A x \in Ends : /\ net'[x][m] = net[x][m]
                    /\ inflight'[x][m] = inflight[x][m]
                    /\ unacked'[x][m] = unacked[x][m]
                    /\ m \in legs'[x] <=> m \in legs[x]

\* Such a leg keeps both of its directions.
LEMMA SameLegKept ==
    ASSUME LegsInv, NEW x \in Ends, NEW m \in Legs, SameLeg(m)
    PROVE  Kept(x, m)
<1>1. Peer(x) \in Ends
  BY PeerFacts
<1>2. /\ net'[x][m] = net[x][m] /\ net'[Peer(x)][m] = net[Peer(x)][m]
      /\ inflight'[x][m] = inflight[x][m] /\ unacked'[Peer(x)][m] = unacked[Peer(x)][m]
      /\ m \in legs'[x] <=> m \in legs[x]
      /\ m \in legs'[Peer(x)] <=> m \in legs[Peer(x)]
  BY <1>1 DEF SameLeg
<1>3. LegAt(x, m)
  BY DEF LegsInv
<1>4. LegAt(x, m)'
  BY <1>2, <1>3 DEF LegAt, Leg
<1>5. ASSUME NEW S, HoldsAt(x, m, S) PROVE HoldsAt(x, m, S)'
  BY <1>2, <1>5 DEF HoldsAt, Holds
<1> QED
  BY <1>4, <1>5 DEF Kept

\* A finite set is charged to a leg in the sense of Holds.
LEMMA ChargedHolds ==
    ASSUME CountingLaws, NEW x \in Ends, NEW m \in Legs, NEW n \in Nat, NEW S \in SUBSET (1..n)
    PROVE  /\ Charged(x, m, S) => HoldsAt(x, m, S)
           /\ HoldsAt(x, m, S)' => Charged(x, m, S)'
<1>0. IsFiniteSet(1..n)
  BY CardPart DEF CardPartLaw
<1>1. IsFiniteSet(S)
  BY <1>0, CardPart DEF CardPartLaw
<1>2. Charged(x, m, S) => HoldsAt(x, m, S)
  BY <1>1 DEF Charged, HoldsAt, Holds
<1>3. HoldsAt(x, m, S)' => Charged(x, m, S)'
  BY DEF Charged, HoldsAt, Holds
<1> QED
  BY <1>2, <1>3

\* It is enough to find a new account for each old one, as long as both ends
\* have legs.
LEMMA LossFrom ==
    ASSUME LossInv, \A x \in Ends : legs'[x] \subseteq legs[x],
           (\A y \in Ends : legs'[y] # {}) =>
             \A x \in Ends : \A P \in [Legs -> SUBSET (1..Len(sent[x]))] :
                Accounted(x, P) =>
                  \E Q \in [Legs -> SUBSET (1..Len(sent'[x]))] : Accounted(x, Q)'
    PROVE  LossInv'
<1> SUFFICES ASSUME \A y \in Ends : legs'[y] # {}, NEW x \in Ends
             PROVE  \E Q \in [Legs -> SUBSET (1..Len(sent'[x]))] : Accounted(x, Q)'
  BY DEF LossInv
<1>1. \A y \in Ends : legs[y] # {}
  OBVIOUS
<1>2. PICK P \in [Legs -> SUBSET (1..Len(sent[x]))] : Accounted(x, P)
  BY <1>1 DEF LossInv
<1> QED
  BY <1>2

\* A step that charges nothing new.
LEMMA LossQuiet ==
    ASSUME CountingLaws, TypeOK, LossInv, sent' = sent,
           \A x \in Ends : legs'[x] \subseteq legs[x],
           \A x \in Ends : Missing(x)' \subseteq Missing(x),
           (\A y \in Ends : legs'[y] # {}) => \A x \in Ends, m \in Legs : Kept(x, m)
    PROVE  LossInv'
<1>1. ASSUME \A y \in Ends : legs'[y] # {}, NEW x \in Ends,
             NEW P \in [Legs -> SUBSET (1..Len(sent[x]))], Accounted(x, P)
      PROVE  Accounted(x, P)'
  <2>1. Len(sent[x]) \in Nat
    BY DEF TypeOK
  <2>2. ASSUME NEW l \in Legs PROVE Charged(x, l, P[l])'
    <3>1. P[l] \in SUBSET (1..Len(sent[x])) /\ Charged(x, l, P[l])
      BY <1>1 DEF Accounted
    <3>2. HoldsAt(x, l, P[l])
      BY <2>1, <3>1, ChargedHolds
    <3>3. HoldsAt(x, l, P[l])'
      BY <1>1, <3>2 DEF Kept
    <3> QED
      BY <2>1, <3>1, <3>3, ChargedHolds
  <2>3. \A i \in Missing(x)' : sent'[x][i] = "data" => \E l \in Legs : i \in P[l]
    BY <1>1 DEF Accounted
  <2> QED
    BY <2>2, <2>3 DEF Accounted
<1>2. (\A y \in Ends : legs'[y] # {}) =>
        \A x \in Ends : \A P \in [Legs -> SUBSET (1..Len(sent[x]))] :
           Accounted(x, P) =>
             \E Q \in [Legs -> SUBSET (1..Len(sent'[x]))] : Accounted(x, Q)'
  BY <1>1
<1> QED
  BY <1>2, LossFrom

\* A step that leaves the delivery and the submission of messages alone.
LEMMA MissingSame ==
    ASSUME UNCHANGED <<sent, last_seq_delivered, ooo_q>>, NEW x \in Ends
    PROVE  Missing(x)' \subseteq Missing(x)
BY DEF Missing

\* A step that touches one leg only.
LEMMA EveryLeg ==
    ASSUME LegsInv, NEW e \in Ends, NEW l \in Legs,
           \A m \in Legs \ {l} : SameLeg(m), Kept(e, l), Kept(Peer(e), l)
    PROVE  \A x \in Ends, m \in Legs : Kept(x, m)
<1> SUFFICES ASSUME NEW x \in Ends, NEW m \in Legs PROVE Kept(x, m)
  OBVIOUS
<1>1. CASE m # l
  BY <1>1, SameLegKept
<1>2. CASE m = l
  <2>1. x = e \/ x = Peer(e)
    BY DEF Ends, Peer
  <2> QED
    BY <1>2, <2>1
<1> QED
  BY <1>1, <1>2

\* What a consumed cell leaves on the wires.
LEMMA ConsumeWires ==
    ASSUME TypeOK, NEW e \in Ends, NEW l \in Legs, Consume(e, l)
    PROVE  /\ net'[Peer(e)][l] = Tail(net[Peer(e)][l])
           /\ net'[e][l] = net[e][l]
           /\ \A x \in Ends, m \in Legs \ {l} : net'[x][m] = net[x][m]
<1>1. Peer(e) \in Ends /\ Peer(e) # e
  BY PeerFacts DEF Ends, Peer
<1> QED
  BY <1>1 DEF TypeOK, Consume

\* A LINKED_ACK or a SWITCH leaves the wire.
LEMMA ConsumeKept ==
    ASSUME CountingLaws, TypeOK, LegsInv, NEW e \in Ends, NEW l \in Legs,
           Incoming(e, l) # <<>>,
           Head(Incoming(e, l)).type \notin {"data", "sendme", "destroy"},
           Consume(e, l), UNCHANGED <<legs, inflight, unacked>>
    PROVE  \A x \in Ends, m \in Legs : Kept(x, m)
<1> DEFINE y == Peer(e)
           there == net[y][l]
           back == net[e][l]
<1>1. y \in Ends /\ Peer(y) = e
  BY PeerFacts
<1>2. /\ net'[y][l] = Tail(there) /\ net'[e][l] = back
      /\ \A x \in Ends, m \in Legs \ {l} : net'[x][m] = net[x][m]
  BY ConsumeWires
<1>3. \A m \in Legs \ {l} : SameLeg(m)
  BY <1>2 DEF SameLeg
<1>4. there # <<>> /\ Head(there).type \notin {"data", "destroy"}
      /\ Head(there).type \notin {"sendme", "destroy"}
  BY DEF Incoming
<1>5. /\ Leg(there, back, inflight[y][l], unacked[e][l], l \in legs[y], l \in legs[e])
      /\ Leg(back, there, inflight[e][l], unacked[y][l], l \in legs[e], l \in legs[y])
  BY <1>1 DEF LegsInv, LegAt
<1>6. Kept(y, l)
  <2>1. /\ Leg(Tail(there), back, inflight[y][l], unacked[e][l], l \in legs[y], l \in legs[e])
        /\ \A S : Holds(there, back, inflight[y][l], unacked[e][l], l \in legs[y], l \in legs[e], S)
             => Holds(Tail(there), back, inflight[y][l], unacked[e][l], l \in legs[y], l \in legs[e], S)
    BY ONLY CountingLaws, <1>4, <1>5, TakeOther, ZenonT(30)
  <2> QED
    BY <1>1, <1>2, <2>1 DEF Kept, LegAt, HoldsAt
<1>7. Kept(e, l)
  <2>1. /\ Leg(back, Tail(there), inflight[e][l], unacked[y][l], l \in legs[e], l \in legs[y])
        /\ \A S : Holds(back, there, inflight[e][l], unacked[y][l], l \in legs[e], l \in legs[y], S)
             => Holds(back, Tail(there), inflight[e][l], unacked[y][l], l \in legs[e], l \in legs[y], S)
    BY ONLY CountingLaws, <1>4, <1>5, TakeBack, ZenonT(30)
  <2> QED
    BY <1>1, <1>2, <2>1 DEF Kept, LegAt, HoldsAt
<1> QED
  BY <1>3, <1>6, <1>7, EveryLeg

\* A SENDME arrives: the sender's window opens by what it acknowledges.
LEMMA SendmeKept ==
    ASSUME CountingLaws, TypeOK, LegsInv, NEW e \in Ends, NEW l \in Legs, RecvSendme(e, l)
    PROVE  \A x \in Ends, m \in Legs : Kept(x, m)
<1> DEFINE y == Peer(e)
           there == net[y][l]
           back == net[e][l]
<1>1. y \in Ends /\ Peer(y) = e /\ y # e
  BY PeerFacts DEF Ends, Peer
<1>0. Consume(e, l) /\ UNCHANGED <<legs, unacked>>
      /\ inflight' = [inflight EXCEPT ![e][l] = @ - SendmeInc]
  BY DEF RecvSendme
<1>2. /\ net'[y][l] = Tail(there) /\ net'[e][l] = back
      /\ \A x \in Ends, m \in Legs \ {l} : net'[x][m] = net[x][m]
  BY <1>0, ConsumeWires
<1>3. /\ inflight'[e][l] = inflight[e][l] - SendmeInc
      /\ inflight'[y][l] = inflight[y][l]
      /\ \A x \in Ends, m \in Legs \ {l} : inflight'[x][m] = inflight[x][m]
  BY <1>0, <1>1 DEF TypeOK
<1>a. \A m \in Legs \ {l} : SameLeg(m)
  BY <1>0, <1>2, <1>3 DEF SameLeg
<1>4. there # <<>> /\ Head(there).type = "sendme" /\ Head(there).type \notin {"data", "destroy"}
  BY DEF Incoming, RecvSendme, Arrives
<1>5. /\ Leg(there, back, inflight[y][l], unacked[e][l], l \in legs[y], l \in legs[e])
      /\ Leg(back, there, inflight[e][l], unacked[y][l], l \in legs[e], l \in legs[y])
  BY <1>1 DEF LegsInv, LegAt
<1>6. Kept(y, l)
  <2>1. /\ Leg(Tail(there), back, inflight[y][l], unacked[e][l], l \in legs[y], l \in legs[e])
        /\ \A S : Holds(there, back, inflight[y][l], unacked[e][l], l \in legs[y], l \in legs[e], S)
             => Holds(Tail(there), back, inflight[y][l], unacked[e][l], l \in legs[y], l \in legs[e], S)
    BY ONLY CountingLaws, <1>4, <1>5, TakeOther, ZenonT(30)
  <2> QED
    BY <1>0, <1>1, <1>2, <1>3, <2>1 DEF Kept, LegAt, HoldsAt
<1>7. Kept(e, l)
  <2>1. /\ Leg(back, Tail(there), inflight[e][l] - SendmeInc, unacked[y][l], l \in legs[e], l \in legs[y])
        /\ \A S : Holds(back, there, inflight[e][l], unacked[y][l], l \in legs[e], l \in legs[y], S)
             => Holds(back, Tail(there), inflight[e][l] - SendmeInc, unacked[y][l], l \in legs[e], l \in legs[y], S)
    BY ONLY CountingLaws, <1>4, <1>5, TakeSendme, ZenonT(30)
  <2> QED
    BY <1>0, <1>1, <1>2, <1>3, <2>1 DEF Kept, LegAt, HoldsAt
<1> QED
  BY <1>a, <1>6, <1>7, EveryLeg

-----------------------------------------------------------------------------
(* A message arrives. *)

\* The receiver's count of unacknowledged DATA starts again at sendme_inc.
LEMMA CountWraps ==
    ASSUME NEW n \in Nat \ {0}, NEW u \in Nat, u < n
    PROVE  /\ u + 1 < n => (u + 1) % n = u + 1 /\ ~(u + 1 >= n)
           /\ u + 1 >= n => (u + 1) % n = 0
OBVIOUS

\* What RecvMsg does to the wires and to the counters of the SENDMEs.
LEMMA RecvMsgWires ==
    ASSUME TypeOK, NEW e \in Ends, NEW l \in Legs, RecvMsg(e, l),
           NEW c, c = Head(net[Peer(e)][l])
    PROVE  /\ net'[Peer(e)][l] = Tail(net[Peer(e)][l])
           /\ net'[e][l] = IF c.type = "data" /\ SendmeDue(e, l)
                THEN NetPut(e, l, <<CtlCell("sendme", last_seq_sent[e][l])>>)
                ELSE net[e][l]
           /\ \A x \in Ends, m \in Legs \ {l} : net'[x][m] = net[x][m]
           /\ unacked'[Peer(e)][l] = unacked[Peer(e)][l]
           /\ unacked'[e][l] = IF c.type # "data" THEN unacked[e][l]
                ELSE (unacked[e][l] + 1) % SendmeInc
           /\ \A x \in Ends, m \in Legs \ {l} : unacked'[x][m] = unacked[x][m]
<1>1. Peer(e) \in Ends /\ Peer(e) # e
  BY PeerFacts
<1>2. net' = [net EXCEPT ![Peer(e)][l] = Tail(@),
                ![e][l] = IF c.type = "data" /\ SendmeDue(e, l)
                       THEN NetPut(e, l, <<CtlCell("sendme", last_seq_sent[e][l])>>)
                       ELSE @]
  BY DEF RecvMsg, Incoming
<1>3. unacked' = IF c.type # "data" THEN unacked
             ELSE [unacked EXCEPT ![e][l] = (@ + 1) % SendmeInc]
  BY DEF RecvMsg, Incoming
<1>4. /\ net'[Peer(e)][l] = Tail(net[Peer(e)][l])
      /\ net'[e][l] = IF c.type = "data" /\ SendmeDue(e, l)
                THEN NetPut(e, l, <<CtlCell("sendme", last_seq_sent[e][l])>>)
                ELSE net[e][l]
      /\ \A x \in Ends, m \in Legs \ {l} : net'[x][m] = net[x][m]
  BY <1>1, <1>2 DEF TypeOK
<1>5. /\ unacked'[Peer(e)][l] = unacked[Peer(e)][l]
      /\ unacked'[e][l] = IF c.type # "data" THEN unacked[e][l]
           ELSE (unacked[e][l] + 1) % SendmeInc
      /\ \A x \in Ends, m \in Legs \ {l} : unacked'[x][m] = unacked[x][m]
  BY <1>1, <1>3 DEF TypeOK
<1> QED
  BY <1>4, <1>5

\* The message that arrives is no longer missing, and no other one becomes so.
LEMMA RecvMissing ==
    ASSUME IndInv, NEW e \in Ends, NEW l \in Legs, RecvMsg(e, l)
    PROVE  /\ Missing(Peer(e))' \subseteq Missing(Peer(e)) \ {Head(net[Peer(e)][l]).msg}
           /\ Missing(e)' \subseteq Missing(e)
<1> DEFINE y == Peer(e)
           c == Head(net[y][l])
           seq == last_seq_recv[e][l] + 1
           d == last_seq_delivered[e]
<1>1. y \in Ends /\ Peer(y) = e /\ y # e
  BY PeerFacts
<1>2. TypeOK /\ QueueInv
  BY Opened
<1>3. c.msg = seq
  <2>1. Arrives(e, l, Multiplexed) /\ "destroy" \notin Multiplexed
    BY DEF RecvMsg, Multiplexed
  <2>2. Head(Incoming(e, l)).type \in Multiplexed
    BY <2>1 DEF Arrives
  <2>3. Head(Incoming(e, l)).msg = seq
    BY <2>1, <2>2, TakeWay
  <2> QED
    BY <2>3 DEF Incoming
<1>4. seq \in Nat /\ d \in Nat
  BY <1>2 DEF TypeOK
<1>5. sent' = sent
  BY DEF RecvMsg
<1>6. last_seq_delivered'[y] = last_seq_delivered[y] /\ ooo_q'[y] = ooo_q[y]
  BY <1>1, <1>2 DEF RecvMsg, TypeOK
<1>7. Missing(e)' \subseteq Missing(e)
  BY <1>5, <1>6 DEF Missing
<1>8. \A m \in ooo_q[e] : m.msg = m.seq /\ m.seq \in Nat
  BY <1>2 DEF QueueInv, TypeOK
<1>9. ASSUME NEW i \in Missing(y)' PROVE i \in Missing(y) \ {c.msg}
  <2>1. /\ i \in 1..Len(sent[y]) /\ i > last_seq_delivered'[e]
        /\ \A m \in ooo_q'[e] : m.msg # i
    BY <1>1, <1>5, <1>9 DEF Missing
  <2>2. i \in Nat
    BY <1>1, <1>2, <2>1 DEF TypeOK
  <2>3. CASE /\ seq = d + 1
             /\ \E n \in {seq} \cup {m.seq : m \in ooo_q[e]} :
                   /\ DequeuesTo(seq, n, ooo_q[e])
                   /\ last_seq_delivered' = [last_seq_delivered EXCEPT ![e] = n]
                   /\ ooo_q' = [ooo_q EXCEPT ![e] = {m \in @ : m.seq > n}]
    <3>1. PICK n \in {seq} \cup {m.seq : m \in ooo_q[e]} :
                   /\ last_seq_delivered' = [last_seq_delivered EXCEPT ![e] = n]
                   /\ ooo_q' = [ooo_q EXCEPT ![e] = {m \in @ : m.seq > n}]
      BY <2>3
    <3>2. last_seq_delivered'[e] = n /\ ooo_q'[e] = {m \in ooo_q[e] : m.seq > n}
      BY <1>2, <3>1 DEF TypeOK
    <3>3. n \in Nat /\ n >= seq
      BY <1>2, <1>4, <1>8, <2>3, <3>1 DEF QueueInv
    <3>4. i > n /\ i # c.msg /\ i > d
      BY <1>3, <1>4, <2>1, <2>2, <2>3, <3>2, <3>3
    <3>5. \A m \in ooo_q[e] : m.msg # i
      BY <1>8, <2>1, <3>2, <3>3, <3>4, <2>2
    <3> QED
      BY <1>1, <2>1, <3>4, <3>5 DEF Missing
  <2>4. CASE /\ seq > d + 1
             /\ ooo_q' = [ooo_q EXCEPT ![e] =
                             @ \cup {[seq |-> seq, msg |-> c.msg]}]
             /\ UNCHANGED last_seq_delivered
    <3>1. ooo_q'[e] = ooo_q[e] \cup {[seq |-> seq, msg |-> c.msg]}
      BY <1>2, <2>4 DEF TypeOK
    <3>0. [seq |-> seq, msg |-> c.msg] \in ooo_q'[e]
      BY <3>1
    <3>2. i # c.msg /\ \A m \in ooo_q[e] : m.msg # i
      BY <2>1, <3>1, <3>0
    <3> QED
      BY <1>1, <2>1, <2>4, <3>2 DEF Missing
  <2> QED
    BY <2>3, <2>4 DEF RecvMsg, Incoming
<1> QED
  BY <1>7, <1>9

\* RecvMsg takes the message off the account of the leg it came on.
LEMMA RecvMsgLegs ==
    ASSUME CountingLaws, IndInv, LegsInv, NEW e \in Ends, NEW l \in Legs, RecvMsg(e, l),
           NEW c, NEW D, c = Head(net[Peer(e)][l]),
           D = IF c.type = "data" THEN {c.msg} ELSE {}
    PROVE  /\ \A m \in Legs \ {l} : SameLeg(m)
           /\ Kept(e, l)
           /\ LegAt(Peer(e), l)'
           /\ \A S : HoldsAt(Peer(e), l, S) => HoldsAt(Peer(e), l, S \ D)'
<1> DEFINE y == Peer(e)
           there == net[y][l]
           back == net[e][l]
           u == unacked[e][l]
           g == CtlCell("sendme", last_seq_sent[e][l])
           ack == c.type = "data" /\ SendmeDue(e, l)
           a == net'[e][l]
<1>1. y \in Ends /\ Peer(y) = e /\ y # e
  BY PeerFacts
<1>2. TypeOK /\ WaysInv
  BY Opened
<1>3. UNCHANGED <<legs, inflight>>
  BY DEF RecvMsg
<1>4. /\ net'[y][l] = Tail(there)
      /\ net'[e][l] = IF ack THEN NetPut(e, l, <<g>>) ELSE back
      /\ \A x \in Ends, m \in Legs \ {l} : net'[x][m] = net[x][m]
      /\ unacked'[y][l] = unacked[y][l]
      /\ unacked'[e][l] = IF c.type # "data" THEN u ELSE (u + 1) % SendmeInc
      /\ \A x \in Ends, m \in Legs \ {l} : unacked'[x][m] = unacked[x][m]
  BY <1>2, RecvMsgWires
<1>5. \A m \in Legs \ {l} : SameLeg(m)
  BY <1>3, <1>4 DEF SameLeg
<1>6. there # <<>> /\ c.type \in {"data", "ctl"} /\ l \in legs[e]
  BY DEF RecvMsg, Incoming, Arrives, Multiplexed
<1>7. g \in Cell /\ g.type = "sendme"
  <2>1. last_seq_sent[e][l] \in Nat
    BY <1>2 DEF TypeOK
  <2> QED
    BY <2>1, CellFacts DEF CtlCell
<1>8. Unique(there)
  BY <1>1, <1>2 DEF WaysInv, Way
<1>9. /\ Leg(there, back, inflight[y][l], u, l \in legs[y], l \in legs[e])
      /\ Leg(back, there, inflight[e][l], unacked[y][l], l \in legs[e], l \in legs[y])
  BY <1>1 DEF LegsInv, LegAt
<1>10. /\ u \in Nat /\ u < SendmeInc /\ SendmeInc \in Nat \ {0}
  BY <1>9, WindowAssumption DEF Leg
<1>11. /\ ~ack => a = back
       /\ ack => a = IF l \notin legs[y] \/ Ended(back) THEN back ELSE back \o <<g>>
  BY <1>4 DEF NetPut
<1>12. ack <=> (c.type = "data" /\ u + 1 >= SendmeInc)
  BY DEF SendmeDue
<1>13. Kept(e, l)
  <2>1. Head(there).type \notin {"sendme", "destroy"}
    BY <1>6
  <2>2. /\ Leg(back, Tail(there), inflight[e][l], unacked[y][l], l \in legs[e], l \in legs[y])
        /\ \A S : Holds(back, there, inflight[e][l], unacked[y][l], l \in legs[e], l \in legs[y], S)
             => Holds(back, Tail(there), inflight[e][l], unacked[y][l], l \in legs[e], l \in legs[y], S)
    BY ONLY CountingLaws, <1>6, <1>9, <2>1, TakeBack, ZenonT(30)
  <2>3. a = back \/ (~Ended(back) /\ a = back \o <<g>>)
    BY <1>11
  <2>4. /\ Leg(a, Tail(there), inflight[e][l], unacked[y][l], l \in legs[e], l \in legs[y])
        /\ \A S : Holds(back, Tail(there), inflight[e][l], unacked[y][l], l \in legs[e], l \in legs[y], S)
             => Holds(a, Tail(there), inflight[e][l], unacked[y][l], l \in legs[e], l \in legs[y], S)
    <3>1. CASE a = back
      BY <2>2, <3>1
    <3>2. CASE ~Ended(back) /\ a = back \o <<g>>
      <4>1. g.type \notin {"data", "destroy"}
        BY <1>7
      <4>2. /\ Leg(back \o <<g>>, Tail(there), inflight[e][l], unacked[y][l], l \in legs[e], l \in legs[y])
            /\ \A S : Holds(back, Tail(there), inflight[e][l], unacked[y][l], l \in legs[e], l \in legs[y], S)
                 => Holds(back \o <<g>>, Tail(there), inflight[e][l], unacked[y][l], l \in legs[e], l \in legs[y], S)
        <5> HIDE DEF there, back, g, y
        <5> QED
          BY ONLY CountingLaws, <1>7, <2>2, <3>2, <4>1, PutOther, ZenonT(30)
      <4> QED
        BY <3>2, <4>2
    <3> QED
      BY <2>3, <3>1, <3>2
  <2>5. Leg(a, Tail(there), inflight[e][l], unacked[y][l], l \in legs[e], l \in legs[y])
    BY <2>4
  <2>6. \A S : Holds(back, there, inflight[e][l], unacked[y][l], l \in legs[e], l \in legs[y], S)
             => Holds(a, Tail(there), inflight[e][l], unacked[y][l], l \in legs[e], l \in legs[y], S)
    <3> HIDE DEF there, back, a, y
    <3> QED
      BY ONLY <2>2, <2>4, ZenonT(30)
  <2> QED
    BY <1>1, <1>3, <1>4, <2>5, <2>6 DEF Kept, LegAt, HoldsAt
<1>14. /\ Leg(Tail(there), a, inflight[y][l], unacked'[e][l], l \in legs[y], l \in legs[e])
       /\ \A S : Holds(there, back, inflight[y][l], u, l \in legs[y], l \in legs[e], S)
            => Holds(Tail(there), a, inflight[y][l], unacked'[e][l], l \in legs[y], l \in legs[e], S \ D)
  <2>1. CASE c.type # "data"
    <3>1. a = back /\ unacked'[e][l] = u /\ D = {}
      BY <1>4, <1>11, <2>1
    <3>2. Head(there).type \notin {"data", "destroy"}
      BY <1>6, <2>1
    <3>3. /\ Leg(Tail(there), back, inflight[y][l], u, l \in legs[y], l \in legs[e])
          /\ \A S : Holds(there, back, inflight[y][l], u, l \in legs[y], l \in legs[e], S)
               => Holds(Tail(there), back, inflight[y][l], u, l \in legs[y], l \in legs[e], S)
      BY ONLY CountingLaws, <1>6, <1>9, <3>2, TakeOther, ZenonT(30)
    <3>4. \A S : S \ D = S
      BY <3>1
    <3> QED
      BY <3>1, <3>3, <3>4
  <2>2. CASE c.type = "data" /\ u + 1 < SendmeInc
    <3>1. a = back /\ unacked'[e][l] = u + 1 /\ D = {Head(there).msg}
      BY <1>4, <1>10, <1>11, <1>12, <2>2, CountWraps
    <3>2. Head(there).type = "data" /\ u + 1 < SendmeInc
      BY <2>2
    <3>3. /\ Leg(Tail(there), back, inflight[y][l], u + 1, l \in legs[y], l \in legs[e])
          /\ \A S : Holds(there, back, inflight[y][l], u, l \in legs[y], l \in legs[e], S)
               => Holds(Tail(there), back, inflight[y][l], u + 1, l \in legs[y], l \in legs[e],
                        S \ {Head(there).msg})
      BY ONLY CountingLaws, <1>6, <1>8, <1>9, <3>2, TakeData, ZenonT(30)
    <3> QED
      BY <3>1, <3>3
  <2>3. CASE c.type = "data" /\ u + 1 >= SendmeInc
    <3>1. unacked'[e][l] = 0 /\ D = {Head(there).msg}
      BY <1>4, <1>10, <2>3, CountWraps
    <3>2. Head(there).type = "data" /\ u + 1 >= SendmeInc
          /\ a = IF ~(l \in legs[y]) \/ Ended(back) THEN back ELSE back \o <<g>>
      BY <1>11, <1>12, <2>3
    <3>3. /\ Leg(Tail(there), a, inflight[y][l], 0, l \in legs[y], l \in legs[e])
          /\ \A S : Holds(there, back, inflight[y][l], u, l \in legs[y], l \in legs[e], S)
               => Holds(Tail(there), a, inflight[y][l], 0, l \in legs[y], l \in legs[e],
                        S \ {Head(there).msg})
      <4> HIDE DEF there, back, g, y, u, a
      <4> QED
        BY ONLY CountingLaws, <1>6, <1>7, <1>8, <1>9, <3>2, TakeDataAck, ZenonT(30)
    <3> QED
      BY <3>1, <3>3
  <2>4. \/ c.type # "data"
        \/ c.type = "data" /\ u + 1 < SendmeInc
        \/ c.type = "data" /\ u + 1 >= SendmeInc
    BY <1>10
  <2> QED
    BY ONLY <2>1, <2>2, <2>3, <2>4, ZenonT(30)
<1>15. LegAt(y, l)'
  BY <1>1, <1>3, <1>4, <1>14 DEF LegAt
<1>16. \A S : HoldsAt(y, l, S) => HoldsAt(y, l, S \ D)'
  BY <1>1, <1>3, <1>4, <1>14 DEF HoldsAt
<1> QED
  BY <1>5, <1>13, <1>15, <1>16

\* RecvMsg preserves the window and the account of what is missing.
LEMMA RecvMsgWindow ==
    ASSUME CountingLaws, IndInv, LegsInv, LossInv, NEW e \in Ends, NEW l \in Legs, RecvMsg(e, l)
    PROVE  LegsInv' /\ LossInv'
<1> DEFINE y == Peer(e)
<1>c. PICK c : c = Head(net[y][l])
  OBVIOUS
<1>d. PICK D : D = IF c.type = "data" THEN {c.msg} ELSE {}
  OBVIOUS
<1>1. y \in Ends /\ Peer(y) = e /\ y # e /\ \A x \in Ends : x = e \/ x = y
  BY PeerFacts DEF Ends, Peer
<1>2. TypeOK
  BY Opened
<1>3. /\ \A m \in Legs \ {l} : SameLeg(m)
      /\ Kept(e, l)
      /\ LegAt(y, l)'
      /\ \A S : HoldsAt(y, l, S) => HoldsAt(y, l, S \ D)'
  BY <1>c, <1>d, RecvMsgLegs
<1>4. \A x \in Ends, m \in Legs \ {l} : Kept(x, m)
  BY <1>3, SameLegKept
<1>5. LegsInv'
  BY <1>1, <1>3, <1>4 DEF LegsInv, Kept
<1>6. Missing(y)' \subseteq Missing(y) \ {c.msg} /\ Missing(e)' \subseteq Missing(e)
  BY <1>c, RecvMissing
<1>7. legs' = legs /\ sent' = sent
  BY DEF RecvMsg
<1>8. ASSUME NEW x \in Ends, NEW P \in [Legs -> SUBSET (1..Len(sent[x]))], Accounted(x, P)
      PROVE  \E Q \in [Legs -> SUBSET (1..Len(sent'[x]))] : Accounted(x, Q)'
  <2>1. Len(sent[x]) \in Nat
    BY <1>2 DEF TypeOK
  <2>2. \A m \in Legs : P[m] \in SUBSET (1..Len(sent[x])) /\ HoldsAt(x, m, P[m])
    BY <1>8, <2>1, ChargedHolds DEF Accounted
  <2>3. CASE x = e
    <3>1. \A m \in Legs : HoldsAt(x, m, P[m])'
      BY <1>3, <1>4, <2>2, <2>3 DEF Kept
    <3>2. \A m \in Legs : Charged(x, m, P[m])'
      BY <2>1, <2>2, <3>1, ChargedHolds
    <3>3. Accounted(x, P)'
      BY <1>6, <1>7, <1>8, <2>3, <3>2 DEF Accounted
    <3> QED
      BY <1>7, <3>3
  <2>4. CASE x = y
    <3> DEFINE Q == [m \in Legs |-> IF m = l THEN P[m] \ D ELSE P[m]]
    <3>1. \A m \in Legs : Q[m] \in SUBSET (1..Len(sent[x]))
      BY <2>2
    <3>2. \A m \in Legs : HoldsAt(x, m, Q[m])'
      <4>1. HoldsAt(x, l, P[l] \ D)'
        BY <1>3, <2>2, <2>4
      <4>2. \A m \in Legs \ {l} : HoldsAt(x, m, P[m])'
        BY <1>4, <2>2 DEF Kept
      <4>3. Q[l] = P[l] \ D /\ \A m \in Legs \ {l} : Q[m] = P[m]
        OBVIOUS
      <4> HIDE DEF Q
      <4> QED
        BY <4>1, <4>2, <4>3
    <3>3. \A m \in Legs : Charged(x, m, Q[m])'
      <4> HIDE DEF Q
      <4> QED
        BY <2>1, <3>1, <3>2, ChargedHolds
    <3>4. ASSUME NEW i \in Missing(x)', sent'[x][i] = "data"
          PROVE  \E m \in Legs : i \in Q[m]
      <4>1. i \in Missing(x) /\ i # c.msg /\ sent[x][i] = "data"
        BY <1>6, <1>7, <2>4, <3>4
      <4>2. PICK m \in Legs : i \in P[m]
        BY <1>8, <4>1 DEF Accounted
      <4>3. i \in Q[m]
        BY <1>d, <4>1, <4>2
      <4> QED
        BY <4>3
    <3>5. Accounted(x, Q)'
      <4> HIDE DEF Q
      <4> QED
        BY <3>3, <3>4 DEF Accounted
    <3>6. Q \in [Legs -> SUBSET (1..Len(sent'[x]))]
      BY <1>7, <3>1
    <3> QED
      BY <3>5, <3>6
  <2> QED
    BY <1>1, <2>3, <2>4
<1>9. LossInv'
  BY <1>7, <1>8, LossFrom
<1> QED
  BY <1>5, <1>9

\* A message, behind a SWITCH when the leg changes, goes onto the wire, or is
\* lost on a circuit that is closing.
LEMMA PutMux ==
    ASSUME CountingLaws, NEW q, NEW b, NEW f, NEW u, NEW theirs, NEW s \in Cell, NEW c \in Cell,
           s.type = "switch", c.type \in Multiplexed,
           Leg(q, b, f, u, TRUE, theirs), NEW p, NEW g, NEW D,
           \/ (~theirs \/ Ended(q)) /\ p = q
           \/ ~Ended(q) /\ (p = q \o <<c>> \/ p = q \o <<s, c>>),
           g = IF c.type = "data" THEN f + 1 ELSE f,
           D = IF c.type = "data" THEN {c.msg} ELSE {}
    PROVE  /\ Leg(p, b, g, u, TRUE, theirs)
           /\ \A S : Holds(q, b, f, u, TRUE, theirs, S)
                       => Holds(p, b, g, u, TRUE, theirs, S \cup D)
<1>1. q \in Seq(Cell) /\ c.type # "destroy"
  BY DEF Leg, Multiplexed
<1>2. \A S : S \cup {} = S
  OBVIOUS
<1>3. CASE (~theirs \/ Ended(q)) /\ p = q
  <2>1. CASE c.type = "data"
    <3>1. g = f + 1 /\ D = {c.msg}
      BY <2>1
    <3>2. /\ Leg(q, b, f + 1, u, TRUE, theirs)
          /\ \A S : TRUE /\ Holds(q, b, f, u, TRUE, theirs, S)
                      => Holds(q, b, f + 1, u, TRUE, theirs, S \cup {c.msg})
      BY <1>3, LostData
    <3> QED
      BY <1>3, <3>1, <3>2
  <2>2. CASE c.type # "data"
    BY <1>2, <1>3, <2>2
  <2> QED
    BY <2>1, <2>2
<1>4. ASSUME NEW w, Leg(w, b, f, u, TRUE, theirs), ~Ended(w), p = w \o <<c>>,
             \A S : Holds(q, b, f, u, TRUE, theirs, S) => Holds(w, b, f, u, TRUE, theirs, S)
      PROVE  /\ Leg(p, b, g, u, TRUE, theirs)
             /\ \A S : Holds(q, b, f, u, TRUE, theirs, S)
                         => Holds(p, b, g, u, TRUE, theirs, S \cup D)
  <2>1. CASE c.type = "data"
    <3>1. g = f + 1 /\ D = {c.msg}
      BY <2>1
    <3>2. /\ Leg(w \o <<c>>, b, f + 1, u, TRUE, theirs)
          /\ \A S : TRUE /\ Holds(w, b, f, u, TRUE, theirs, S)
                      => Holds(w \o <<c>>, b, f + 1, u, TRUE, theirs, S \cup {c.msg})
      BY ONLY CountingLaws, c \in Cell, <1>4, <2>1, PutData, ZenonT(30)
    <3> QED
      BY <1>4, <3>1, <3>2
  <2>2. CASE c.type # "data"
    <3>1. g = f /\ D = {} /\ c.type \notin {"data", "destroy"}
      BY <1>1, <2>2
    <3>2. /\ Leg(w \o <<c>>, b, f, u, TRUE, theirs)
          /\ \A S : Holds(w, b, f, u, TRUE, theirs, S)
                      => Holds(w \o <<c>>, b, f, u, TRUE, theirs, S)
      BY ONLY CountingLaws, c \in Cell, <1>4, <3>1, PutOther, ZenonT(30)
    <3> QED
      BY <1>2, <1>4, <3>1, <3>2
  <2> QED
    BY <2>1, <2>2
<1>5. CASE ~Ended(q) /\ p = q \o <<c>>
  BY <1>4, <1>5
<1>6. CASE ~Ended(q) /\ p = q \o <<s, c>>
  <2> DEFINE w == q \o <<s>>
  <2>1. s.type \notin {"data", "destroy"}
    OBVIOUS
  <2>2. /\ Leg(w, b, f, u, TRUE, theirs) /\ ~Ended(w)
        /\ \A S : Holds(q, b, f, u, TRUE, theirs, S) => Holds(w, b, f, u, TRUE, theirs, S)
    BY <1>6, <2>1, PutOther
  <2>3. p = w \o <<c>>
    BY <1>1, <1>6, TwoCells
  <2> HIDE DEF w
  <2> QED
    BY <1>4, <2>2, <2>3
<1> QED
  BY <1>3, <1>5, <1>6

\* The same cells do not disturb the flow the other way.
LEMMA PutMuxBack ==
    ASSUME CountingLaws, NEW q, NEW b, NEW f, NEW u, NEW mine, NEW s \in Cell, NEW c \in Cell,
           s.type = "switch", c.type \in Multiplexed,
           Leg(b, q, f, u, mine, TRUE), NEW p,
           p = q \/ (~Ended(q) /\ (p = q \o <<c>> \/ p = q \o <<s, c>>))
    PROVE  /\ Leg(b, p, f, u, mine, TRUE)
           /\ \A S : Holds(b, q, f, u, mine, TRUE, S) => Holds(b, p, f, u, mine, TRUE, S)
<1>1. q \in Seq(Cell) /\ c.type \notin {"sendme", "destroy"}
      /\ s.type \notin {"sendme", "destroy"}
  BY DEF Leg, Multiplexed
<1>2. CASE p = q
  BY <1>2
<1>3. CASE ~Ended(q) /\ p = q \o <<c>>
  BY <1>1, <1>3, PutBack
<1>4. CASE ~Ended(q) /\ p = q \o <<s, c>>
  <2> DEFINE w == q \o <<s>>
  <2>1. /\ Leg(b, w, f, u, mine, TRUE) /\ ~Ended(w)
        /\ \A S : Holds(b, q, f, u, mine, TRUE, S) => Holds(b, w, f, u, mine, TRUE, S)
    BY <1>1, <1>4, PutBack
  <2>2. p = w \o <<c>>
    BY <1>1, <1>4, TwoCells
  <2> HIDE DEF w
  <2>3. /\ Leg(b, w \o <<c>>, f, u, mine, TRUE)
        /\ \A S : Holds(b, w, f, u, mine, TRUE, S) => Holds(b, w \o <<c>>, f, u, mine, TRUE, S)
    BY ONLY CountingLaws, c \in Cell, <1>1, <2>1, PutBack, ZenonT(30)
  <2> QED
    BY <2>1, <2>2, <2>3
<1> QED
  BY <1>2, <1>3, <1>4

-----------------------------------------------------------------------------
(* A message is sent. *)

\* Send puts its message on the account of the leg it chooses.
LEMMA SendLegs ==
    ASSUME CountingLaws, IndInv, LegsInv, NEW e \in Ends, NEW k \in Multiplexed, Send(e, k),
           NEW D, D = IF k = "data" THEN {Len(sent[e]) + 1} ELSE {}
    PROVE  \E t \in Legs :
              /\ \A m \in Legs \ {t} : SameLeg(m)
              /\ Kept(Peer(e), t)
              /\ LegAt(e, t)'
              /\ \A S : HoldsAt(e, t, S) => HoldsAt(e, t, S \cup D)'
<1> DEFINE y == Peer(e)
           n == Len(sent[e])
<1>1. PICK c \in CurrentLeg(e), d \in conflux_decide_next_circ(e) :
        LET t == IF d = NoLeg THEN c ELSE d
            seq == last_seq_sent[e][c] + 1
            switch == SwitchCell(last_seq_sent[e][c] - last_seq_sent[e][t],
                                 last_seq_sent[e][c])
            mux == MuxCell(k, n + 1, seq)
        IN  /\ net' = [net EXCEPT ![e][t] =
                 NetPut(e, t, IF t = c THEN <<mux>> ELSE <<switch, mux>>)]
            /\ inflight' = IF k = "data"
                 THEN [inflight EXCEPT ![e][t] = @ + 1] ELSE inflight
  BY DEF Send, NextSeq, RelativeSeq
<1>2. TypeOK /\ SenderInv
  BY Opened
<1>3. PICK t : t = IF d = NoLeg THEN c ELSE d
  OBVIOUS
<1>4. c \in legs[e] /\ t \in legs[e] /\ c \in Legs /\ t \in Legs
  BY <1>2, <1>3, SendFacts
<1>5. y \in Ends /\ y # e /\ Peer(y) = e
  BY PeerFacts
<1>6. /\ n \in Nat /\ n + 1 \in Nat /\ last_seq_sent[e][c] = n
      /\ n - last_seq_sent[e][t] \in Nat
  BY <1>2, <1>3, SendFacts
<1>8. PICK s : s = SwitchCell(n - last_seq_sent[e][t], n)
  OBVIOUS
<1>9. PICK x : x = MuxCell(k, n + 1, n + 1)
  OBVIOUS
<1>10. s \in Cell /\ s.type = "switch"
  BY <1>6, <1>8, CellFacts DEF SwitchCell
<1>11. x \in Cell /\ x.type = k /\ x.msg = n + 1
  BY <1>6, <1>9, CellFacts DEF MuxCell
<1>12. /\ net' = [net EXCEPT ![e][t] = NetPut(e, t, IF t = c THEN <<x>> ELSE <<s, x>>)]
       /\ inflight' = IF k = "data" THEN [inflight EXCEPT ![e][t] = @ + 1] ELSE inflight
  BY <1>1, <1>3, <1>6, <1>8, <1>9
<1>13. legs' = legs /\ unacked' = unacked
  BY DEF Send
<1>14. /\ net'[e][t] = NetPut(e, t, IF t = c THEN <<x>> ELSE <<s, x>>)
       /\ net'[y][t] = net[y][t]
       /\ \A z \in Ends, m \in Legs \ {t} : net'[z][m] = net[z][m]
  BY <1>2, <1>4, <1>5, <1>12 DEF TypeOK
<1>15. /\ inflight'[e][t] = IF k = "data" THEN inflight[e][t] + 1 ELSE inflight[e][t]
       /\ inflight'[y][t] = inflight[y][t]
       /\ \A z \in Ends, m \in Legs \ {t} : inflight'[z][m] = inflight[z][m]
  BY <1>2, <1>4, <1>5, <1>12 DEF TypeOK
<1>16. \A m \in Legs \ {t} : SameLeg(m)
  BY <1>13, <1>14, <1>15 DEF SameLeg
<1> DEFINE q == net[e][t]
           b == net[y][t]
           p == net'[e][t]
           g == inflight'[e][t]
<1>17. \/ (~(t \in legs[y]) \/ Ended(q)) /\ p = q
       \/ ~Ended(q) /\ (p = q \o <<x>> \/ p = q \o <<s, x>>)
  BY <1>14 DEF NetPut
<1>18. /\ Leg(q, b, inflight[e][t], unacked[y][t], TRUE, t \in legs[y])
       /\ Leg(b, q, inflight[y][t], unacked[e][t], t \in legs[y], TRUE)
  <2>1. /\ Leg(q, b, inflight[e][t], unacked[y][t], t \in legs[e], t \in legs[y])
        /\ Leg(b, q, inflight[y][t], unacked[e][t], t \in legs[y], t \in legs[e])
    BY <1>4, <1>5 DEF LegsInv, LegAt
  <2> QED
    BY <1>4, <2>1 DEF Leg
<1>19. /\ Leg(p, b, g, unacked[y][t], TRUE, t \in legs[y])
       /\ \A S : Holds(q, b, inflight[e][t], unacked[y][t], TRUE, t \in legs[y], S)
                   => Holds(p, b, g, unacked[y][t], TRUE, t \in legs[y], S \cup D)
  <2>1. g = IF x.type = "data" THEN inflight[e][t] + 1 ELSE inflight[e][t]
    BY <1>11, <1>15
  <2>2. D = IF x.type = "data" THEN {x.msg} ELSE {}
    BY <1>11
  <2>3. x.type \in Multiplexed
    BY <1>11
  <2> HIDE DEF q, b, p, g, y
  <2> QED
    BY ONLY CountingLaws, <1>10, <1>11, <1>17, <1>18, <2>1, <2>2, <2>3, PutMux, ZenonT(30)
<1>20. /\ Leg(b, p, inflight[y][t], unacked[e][t], t \in legs[y], TRUE)
       /\ \A S : Holds(b, q, inflight[y][t], unacked[e][t], t \in legs[y], TRUE, S)
                   => Holds(b, p, inflight[y][t], unacked[e][t], t \in legs[y], TRUE, S)
  <2>1. p = q \/ (~Ended(q) /\ (p = q \o <<x>> \/ p = q \o <<s, x>>))
    BY <1>17
  <2>2. x.type \in Multiplexed
    BY <1>11
  <2> HIDE DEF q, b, p, g, y
  <2> QED
    BY ONLY CountingLaws, <1>10, <1>11, <1>18, <2>1, <2>2, PutMuxBack, ZenonT(30)
<1>21. Kept(y, t)
  <2>1. LegAt(y, t)'
    BY <1>4, <1>5, <1>13, <1>14, <1>15, <1>20 DEF LegAt, Leg
  <2>2. ASSUME NEW S, HoldsAt(y, t, S) PROVE HoldsAt(y, t, S)'
    <3>1. Holds(b, q, inflight[y][t], unacked[e][t], t \in legs[y], TRUE, S)
      BY <1>4, <1>5, <2>2 DEF HoldsAt, Holds
    <3>2. Holds(b, p, inflight[y][t], unacked[e][t], t \in legs[y], TRUE, S)
      BY <1>20, <3>1
    <3> QED
      BY <1>4, <1>5, <1>13, <1>14, <1>15, <3>2 DEF HoldsAt, Holds
  <2> QED
    BY <2>1, <2>2 DEF Kept
<1>22. LegAt(e, t)'
  BY <1>4, <1>5, <1>13, <1>14, <1>19 DEF LegAt, Leg
<1>23. ASSUME NEW S, HoldsAt(e, t, S) PROVE HoldsAt(e, t, S \cup D)'
  <2>1. Holds(q, b, inflight[e][t], unacked[y][t], TRUE, t \in legs[y], S)
    BY <1>4, <1>23 DEF HoldsAt, Holds
  <2>2. Holds(p, b, g, unacked[y][t], TRUE, t \in legs[y], S \cup D)
    BY <1>19, <2>1
  <2> QED
    BY <1>4, <1>13, <1>14, <2>2 DEF HoldsAt, Holds
<1> QED
  BY <1>4, <1>16, <1>21, <1>22, <1>23

\* Send preserves the window and the account of what is missing.
LEMMA SendWindow ==
    ASSUME CountingLaws, IndInv, LegsInv, LossInv, NEW e \in Ends, NEW k \in Multiplexed, Send(e, k)
    PROVE  LegsInv' /\ LossInv'
<1> DEFINE y == Peer(e)
<1>n. PICK n : n = Len(sent[e])
  OBVIOUS
<1>d. PICK D : D = IF k = "data" THEN {n + 1} ELSE {}
  OBVIOUS
<1>1. y \in Ends /\ Peer(y) = e /\ y # e /\ \A x \in Ends : x = e \/ x = y
  BY PeerFacts DEF Ends, Peer
<1>2. TypeOK
  BY Opened
<1>3. PICK t \in Legs :
        /\ \A m \in Legs \ {t} : SameLeg(m)
        /\ Kept(y, t)
        /\ LegAt(e, t)'
        /\ \A S : HoldsAt(e, t, S) => HoldsAt(e, t, S \cup D)'
  BY <1>n, <1>d, SendLegs
<1>4. \A x \in Ends, m \in Legs \ {t} : Kept(x, m)
  BY <1>3, SameLegKept
<1>5. LegsInv'
  BY <1>1, <1>3, <1>4 DEF LegsInv, Kept
<1>6. /\ legs' = legs /\ ooo_q' = ooo_q /\ last_seq_delivered' = last_seq_delivered
      /\ sent' = [sent EXCEPT ![e] = Append(@, k)]
  BY DEF Send, oooVars
<1>7. /\ n \in Nat /\ sent'[y] = sent[y] /\ Len(sent'[e]) = n + 1
      /\ sent'[e][n + 1] = k /\ \A i \in 1..n : sent'[e][i] = sent[e][i]
  <2>1. sent[e] \in Seq(Multiplexed) /\ sent'[e] = Append(sent[e], k) /\ sent'[y] = sent[y]
    BY <1>1, <1>2, <1>6 DEF TypeOK
  <2> QED
    BY <1>n, <2>1
<1>8. ASSUME NEW x \in Ends, NEW P \in [Legs -> SUBSET (1..Len(sent[x]))], Accounted(x, P)
      PROVE  \E Q \in [Legs -> SUBSET (1..Len(sent'[x]))] : Accounted(x, Q)'
  <2>1. Len(sent[x]) \in Nat
    BY <1>2 DEF TypeOK
  <2>2. \A m \in Legs : P[m] \in SUBSET (1..Len(sent[x])) /\ HoldsAt(x, m, P[m])
    BY <1>8, <2>1, ChargedHolds DEF Accounted
  <2>3. CASE x = y
    <3>1. \A m \in Legs : HoldsAt(x, m, P[m])'
      BY <1>3, <1>4, <2>2, <2>3 DEF Kept
    <3>2. \A m \in Legs : Charged(x, m, P[m])'
      BY <2>1, <2>2, <3>1, ChargedHolds
    <3>3. Missing(x)' \subseteq Missing(x) /\ sent'[x] = sent[x]
      BY <1>6, <1>7, <2>3 DEF Missing
    <3>4. Accounted(x, P)'
      BY <1>8, <3>2, <3>3 DEF Accounted
    <3> QED
      BY <3>3, <3>4
  <2>4. CASE x = e
    <3> DEFINE Q == [m \in Legs |-> IF m = t THEN P[m] \cup D ELSE P[m]]
    <3>1. \A m \in Legs : Q[m] \in SUBSET (1..(n + 1))
      BY <1>n, <1>d, <1>7, <2>2, <2>4
    <3>2. \A m \in Legs : HoldsAt(x, m, Q[m])'
      <4>1. HoldsAt(x, t, P[t] \cup D)'
        BY <1>3, <2>2, <2>4
      <4>2. \A m \in Legs \ {t} : HoldsAt(x, m, P[m])'
        BY <1>4, <2>2 DEF Kept
      <4>3. Q[t] = P[t] \cup D /\ \A m \in Legs \ {t} : Q[m] = P[m]
        OBVIOUS
      <4> HIDE DEF Q
      <4> QED
        BY <4>1, <4>2, <4>3
    <3>3. \A m \in Legs : Charged(x, m, Q[m])'
      <4>1. n + 1 \in Nat
        BY <1>7
      <4> HIDE DEF Q
      <4> QED
        BY <4>1, <3>1, <3>2, ChargedHolds
    <3>4. ASSUME NEW i \in Missing(x)', sent'[x][i] = "data"
          PROVE  \E m \in Legs : i \in Q[m]
      <4>1. i \in 1..(n + 1)
        BY <1>7, <2>4, <3>4 DEF Missing
      <4>2. CASE i = n + 1
        BY <1>d, <1>3, <1>7, <2>4, <3>4, <4>2
      <4>3. CASE i \in 1..n
        <5>1. i \in Missing(x) /\ sent[x][i] = "data"
          BY <1>n, <1>6, <1>7, <2>4, <3>4, <4>3 DEF Missing
        <5>2. PICK m \in Legs : i \in P[m]
          BY <1>8, <5>1 DEF Accounted
        <5>3. i \in Q[m]
          BY <5>2
        <5> QED
          BY <5>3
      <4> QED
        BY <1>7, <4>1, <4>2, <4>3
    <3>5. Accounted(x, Q)'
      <4> HIDE DEF Q
      <4> QED
        BY <3>3, <3>4 DEF Accounted
    <3>6. Q \in [Legs -> SUBSET (1..Len(sent'[x]))]
      BY <1>7, <2>4, <3>1
    <3> QED
      BY <3>5, <3>6
  <2> QED
    BY <1>1, <2>3, <2>4
<1>9. LossInv'
  BY <1>6, <1>8, LossFrom
<1> QED
  BY <1>5, <1>9

-----------------------------------------------------------------------------
(* Legs close. *)

\* A close at one end keeps the window, and what is charged to a leg that goes
\* alone is below sendme_inc (cfx_del_leg).
LEMMA CloseWindow ==
    ASSUME CountingLaws, IndInv, LegsInv, LossInv, NEW e \in Ends, NEW l \in Legs, l \in legs[e],
           linked_circuit_closed(e, l),
           UNCHANGED <<circ_rtts_usec, blocked, sent, log, ccVars, seqVars, oooVars>>
    PROVE  LegsInv' /\ LossInv'
<1>g. PICK gone : gone = IF TeardownNeeded(e, l) THEN legs[e] ELSE {l}
  OBVIOUS
<1> DEFINE y == Peer(e)
           d(m) == CtlCell("destroy", last_seq_sent[e][m])
<1>1. y \in Ends /\ Peer(y) = e /\ y # e /\ \A x \in Ends : x = e \/ x = y
  BY PeerFacts DEF Ends, Peer
<1>2. TypeOK
  BY Opened
<1>3. /\ legs' = [legs EXCEPT ![e] = @ \ gone]
      /\ net' = [x \in Ends |-> [m \in Legs |->
              CASE m \notin gone -> net[x][m]
                [] m \in gone /\ x = e -> NetPut(e, m, <<d(m)>>)
                [] OTHER -> <<>>]]
  BY <1>g DEF linked_circuit_closed
<1>4. UNCHANGED <<inflight, unacked, sent, last_seq_delivered, ooo_q>>
  BY DEF ccVars, seqVars, oooVars
<1>5. gone \subseteq legs[e] /\ legs[e] \subseteq Legs
  BY <1>g, <1>2 DEF TypeOK
<1>6. legs'[e] = legs[e] \ gone /\ legs'[y] = legs[y]
  BY <1>1, <1>2, <1>3 DEF TypeOK
<1>7. \A m \in Legs \ gone : SameLeg(m)
  <2> SUFFICES ASSUME NEW m \in Legs \ gone, NEW x \in Ends
               PROVE  /\ net'[x][m] = net[x][m]
                      /\ inflight'[x][m] = inflight[x][m]
                      /\ unacked'[x][m] = unacked[x][m]
                      /\ m \in legs'[x] <=> m \in legs[x]
    BY DEF SameLeg
  <2>1. net'[x][m] = net[x][m]
    BY <1>3
  <2>2. m \in legs'[x] <=> m \in legs[x]
    BY <1>1, <1>6
  <2> QED
    BY <1>4, <2>1, <2>2
<1>8. ASSUME NEW m \in gone
      PROVE  /\ LegAt(e, m)' /\ Kept(y, m)
             /\ inflight[e][m] < SendmeInc => Kept(e, m)
  <2> DEFINE q == net[e][m]
             b == net[y][m]
             p == net'[e][m]
             c == d(m)
  <2>1. m \in Legs /\ m \in legs[e] /\ m \notin legs'[e]
    BY <1>5, <1>6, <1>8
  <2>2. p = NetPut(e, m, <<c>>) /\ net'[y][m] = <<>>
    BY <1>1, <1>3, <2>1, <1>8
  <2>3. p = IF ~(m \in legs[y]) \/ Ended(q) THEN q ELSE q \o <<c>>
    BY <2>2 DEF NetPut
  <2>4. c \in Cell /\ c.type = "destroy"
    <3>1. last_seq_sent[e][m] \in Nat
      BY <1>2, <2>1 DEF TypeOK
    <3> QED
      BY <3>1, CellFacts DEF CtlCell
  <2>5. /\ Leg(q, b, inflight[e][m], unacked[y][m], TRUE, m \in legs[y])
        /\ Leg(b, q, inflight[y][m], unacked[e][m], m \in legs[y], TRUE)
    <3>1. /\ Leg(q, b, inflight[e][m], unacked[y][m], m \in legs[e], m \in legs[y])
          /\ Leg(b, q, inflight[y][m], unacked[e][m], m \in legs[y], m \in legs[e])
      BY <1>1, <2>1 DEF LegsInv, LegAt
    <3> QED
      BY <2>1, <3>1 DEF Leg
  <2>6. /\ Leg(p, <<>>, inflight[e][m], unacked[y][m], FALSE, m \in legs[y])
        /\ \A S : inflight[e][m] < SendmeInc
                  /\ Holds(q, b, inflight[e][m], unacked[y][m], TRUE, m \in legs[y], S)
               => Holds(p, <<>>, inflight[e][m], unacked[y][m], FALSE, m \in legs[y], S)
    <3> HIDE DEF q, b, p, c, y, d
    <3> QED
      BY ONLY CountingLaws, <2>3, <2>4, <2>5, CloseMine, ZenonT(30)
  <2>7. /\ Leg(<<>>, p, inflight[y][m], unacked[e][m], m \in legs[y], FALSE)
        /\ \A S : Holds(b, q, inflight[y][m], unacked[e][m], m \in legs[y], TRUE, S)
               => Holds(<<>>, p, inflight[y][m], unacked[e][m], m \in legs[y], FALSE, S)
    <3> HIDE DEF q, b, p, c, y, d
    <3> QED
      BY ONLY CountingLaws, <2>3, <2>4, <2>5, CloseTheirs, ZenonT(30)
  <2>8. LegAt(e, m)'
    BY <1>1, <1>4, <1>6, <2>1, <2>2, <2>6 DEF LegAt, Leg
  <2>9. LegAt(y, m)'
    BY <1>1, <1>4, <1>6, <2>1, <2>2, <2>7 DEF LegAt, Leg
  <2>10. ASSUME NEW S, HoldsAt(y, m, S) PROVE HoldsAt(y, m, S)'
    <3>1. Holds(b, q, inflight[y][m], unacked[e][m], m \in legs[y], TRUE, S)
      BY <1>1, <2>1, <2>10 DEF HoldsAt, Holds
    <3>2. Holds(<<>>, p, inflight[y][m], unacked[e][m], m \in legs[y], FALSE, S)
      BY <2>7, <3>1
    <3> QED
      BY <1>1, <1>4, <1>6, <2>1, <2>2, <3>2 DEF HoldsAt, Holds
  <2>11. ASSUME NEW S, inflight[e][m] < SendmeInc, HoldsAt(e, m, S) PROVE HoldsAt(e, m, S)'
    <3>1. Holds(q, b, inflight[e][m], unacked[y][m], TRUE, m \in legs[y], S)
      BY <2>1, <2>11 DEF HoldsAt, Holds
    <3>2. Holds(p, <<>>, inflight[e][m], unacked[y][m], FALSE, m \in legs[y], S)
      BY <2>6, <2>11, <3>1
    <3> QED
      BY <1>4, <1>6, <2>1, <2>2, <3>2 DEF HoldsAt, Holds
  <2> QED
    BY <2>8, <2>9, <2>10, <2>11 DEF Kept
<1>9. LegsInv'
  <2> SUFFICES ASSUME NEW x \in Ends, NEW m \in Legs PROVE LegAt(x, m)'
    BY DEF LegsInv
  <2>1. CASE m \in gone
    BY <1>1, <1>8, <2>1 DEF Kept
  <2>2. CASE m \notin gone
    BY <1>7, <2>2, SameLegKept DEF Kept
  <2> QED
    BY <2>1, <2>2
<1>10. CASE TeardownNeeded(e, l)
  <2>1. legs'[e] = {}
    BY <1>g, <1>6, <1>10
  <2>2. LossInv'
    BY <2>1 DEF LossInv
  <2> QED
    BY <1>9, <2>2
<1>11. CASE ~TeardownNeeded(e, l)
  <2>1. gone = {l} /\ inflight[e][l] < SendmeInc
    <3>1. inflight[e][l] \in Int /\ SendmeInc \in Int /\ ~(inflight[e][l] >= SendmeInc)
      BY <1>2, <1>11, WindowAssumption DEF TypeOK, TeardownNeeded
    <3> QED
      BY <1>g, <1>11, <3>1
  <2>2. \A m \in Legs \ {l} : SameLeg(m)
    BY <1>7, <2>1
  <2>3. Kept(e, l) /\ Kept(y, l)
    BY <1>8, <2>1
  <2>4. \A x \in Ends, m \in Legs : Kept(x, m)
    BY <2>2, <2>3, EveryLeg
  <2>5. \A x \in Ends : legs'[x] \subseteq legs[x]
    BY <1>1, <1>6
  <2>6. \A x \in Ends : Missing(x)' \subseteq Missing(x)
    BY <1>4, MissingSame
  <2>7. LossInv'
    BY <1>2, <1>4, <2>4, <2>5, <2>6, LossQuiet
  <2> QED
    BY <1>9, <2>7
<1> QED
  BY <1>10, <1>11

\* A step that keeps every leg keeps the window and the account.
LEMMA AllKept ==
    ASSUME CountingLaws, TypeOK, LossInv, UNCHANGED <<legs, sent, last_seq_delivered, ooo_q>>,
           \A x \in Ends, m \in Legs : Kept(x, m)
    PROVE  LegsInv' /\ LossInv'
<1>1. \A x \in Ends : legs'[x] \subseteq legs[x] /\ Missing(x)' \subseteq Missing(x)
  BY MissingSame
<1>2. LossInv'
  BY <1>1, LossQuiet
<1>3. LegsInv'
  BY DEF LegsInv, Kept
<1> QED
  BY <1>2, <1>3

\* A relay fails in the middle of a path.
LEMMA PathFailsWindow ==
    ASSUME CountingLaws, IndInv, LegsInv, LossInv, NEW l \in Legs, PathFails(l)
    PROVE  LegsInv' /\ LossInv'
<1> DEFINE d(x) == CtlCell("destroy", last_seq_sent[x][l])
<1>2. TypeOK
  BY Opened
<1>3. /\ \A x \in Ends : l \in legs[x] /\ ~Ended(net[x][l])
      /\ net' = [x \in Ends |-> [net[x] EXCEPT ![l] = NetPut(x, l, <<d(x)>>)]]
      /\ UNCHANGED <<legs, inflight, unacked, sent, last_seq_delivered, ooo_q>>
  BY DEF PathFails, ccVars, seqVars, oooVars
<1>4. ASSUME NEW x \in Ends
      PROVE  /\ net'[x][l] = net[x][l] \o <<d(x)>>
             /\ \A m \in Legs \ {l} : net'[x][m] = net[x][m]
             /\ d(x) \in Cell /\ d(x).type = "destroy"
  <2>1. Peer(x) \in Ends
    BY PeerFacts
  <2>2. NetPut(x, l, <<d(x)>>) = net[x][l] \o <<d(x)>>
    BY <1>3, <2>1 DEF NetPut
  <2>3. last_seq_sent[x][l] \in Nat
    BY <1>2 DEF TypeOK
  <2>4. d(x) \in Cell /\ d(x).type = "destroy"
    BY <2>3, CellFacts DEF CtlCell
  <2> HIDE DEF d
  <2>5. /\ net'[x][l] = net[x][l] \o <<d(x)>>
        /\ \A m \in Legs \ {l} : net'[x][m] = net[x][m]
    BY <1>2, <1>3, <2>2 DEF TypeOK
  <2> QED
    BY <2>4, <2>5
<1>5. \A m \in Legs \ {l} : SameLeg(m)
  BY <1>3, <1>4 DEF SameLeg
<1>6. ASSUME NEW x \in Ends PROVE Kept(x, l)
  <2> DEFINE y == Peer(x)
             q == net[x][l]
             b == net[y][l]
             c == d(x)
             g == d(y)
  <2>1. y \in Ends
    BY PeerFacts
  <2>2. /\ net'[x][l] = q \o <<c>> /\ net'[y][l] = b \o <<g>>
        /\ c \in Cell /\ c.type = "destroy" /\ g \in Cell /\ g.type = "destroy"
    BY <1>4, <2>1
  <2>3. l \in legs[x] /\ l \in legs[y]
    BY <1>3, <2>1
  <2>4. Leg(q, b, inflight[x][l], unacked[y][l], TRUE, TRUE)
    BY <2>1, <2>3 DEF LegsInv, LegAt, Leg
  <2>5. /\ Leg(q \o <<c>>, b \o <<g>>, inflight[x][l], unacked[y][l], TRUE, TRUE)
        /\ \A S : Holds(q, b, inflight[x][l], unacked[y][l], TRUE, TRUE, S)
             => Holds(q \o <<c>>, b \o <<g>>, inflight[x][l], unacked[y][l], TRUE, TRUE, S)
    <3> HIDE DEF q, b, c, y, g, d
    <3> QED
      BY ONLY CountingLaws, <2>2, <2>4, BothEnd, ZenonT(30)
  <2> HIDE DEF c, g, d
  <2>6. LegAt(x, l)'
    BY <1>3, <2>1, <2>2, <2>3, <2>5 DEF LegAt, Leg
  <2>7. ASSUME NEW S, HoldsAt(x, l, S) PROVE HoldsAt(x, l, S)'
    <3>1. Holds(q, b, inflight[x][l], unacked[y][l], TRUE, TRUE, S)
      BY <2>3, <2>7 DEF HoldsAt, Holds
    <3>2. Holds(q \o <<c>>, b \o <<g>>, inflight[x][l], unacked[y][l], TRUE, TRUE, S)
      BY <2>5, <3>1
    <3> QED
      BY <1>3, <2>1, <2>2, <2>3, <3>2 DEF HoldsAt, Holds
  <2> QED
    BY <2>6, <2>7 DEF Kept
<1>7. \A x \in Ends, m \in Legs : Kept(x, m)
  BY <1>5, <1>6, SameLegKept
<1> QED
  BY <1>2, <1>3, <1>7, AllKept

\* A DESTROY overtakes a cell.
LEMMA OvertakesWindow ==
    ASSUME CountingLaws, IndInv, LegsInv, LossInv, NEW e \in Ends, NEW l \in Legs, DestroyOvertakes(e, l)
    PROVE  LegsInv' /\ LossInv'
<1> DEFINE y == Peer(e)
           q == net[e][l]
           b == net[y][l]
           s == net'[e][l]
<1>1. y \in Ends /\ Peer(y) = e /\ y # e
  BY PeerFacts
<1>2. TypeOK
  BY Opened
<1>3. /\ Ended(q) /\ Len(q) > 1
      /\ net' = [net EXCEPT ![e][l] = Append(SubSeq(q, 1, Len(q) - 2), q[Len(q)])]
      /\ UNCHANGED <<legs, inflight, unacked, sent, last_seq_delivered, ooo_q>>
  BY DEF DestroyOvertakes, ccVars, seqVars, oooVars
<1>4. /\ q \in Seq(Cell) /\ s = Append(SubSeq(q, 1, Len(q) - 2), q[Len(q)])
      /\ net'[y][l] = b
      /\ \A x \in Ends, m \in Legs \ {l} : net'[x][m] = net[x][m]
  BY <1>1, <1>2, <1>3 DEF TypeOK
<1>5. \A m \in Legs \ {l} : SameLeg(m)
  BY <1>3, <1>4 DEF SameLeg
<1>6. /\ s \in Seq(Cell) /\ Ended(s) /\ DataMsgs(s) \subseteq DataMsgs(q)
      /\ Count(s, "sendme") <= Count(q, "sendme")
  <2> HIDE DEF q, s
  <2> QED
    BY <1>3, <1>4, DataOvertake
<1>7. /\ Leg(q, b, inflight[e][l], unacked[y][l], l \in legs[e], l \in legs[y])
      /\ Leg(b, q, inflight[y][l], unacked[e][l], l \in legs[y], l \in legs[e])
  BY <1>1 DEF LegsInv, LegAt
<1>8. Kept(e, l)
  <2>1. /\ Leg(s, b, inflight[e][l], unacked[y][l], l \in legs[e], l \in legs[y])
        /\ \A S : Holds(q, b, inflight[e][l], unacked[y][l], l \in legs[e], l \in legs[y], S)
             => Holds(s, b, inflight[e][l], unacked[y][l], l \in legs[e], l \in legs[y], S)
    <3> HIDE DEF q, b, s, y
    <3> QED
      BY ONLY <1>3, <1>6, <1>7, OvertakeThere, ZenonT(30)
  <2> QED
    BY <1>1, <1>3, <1>4, <2>1 DEF Kept, LegAt, HoldsAt
<1>9. Kept(y, l)
  <2>1. /\ Leg(b, s, inflight[y][l], unacked[e][l], l \in legs[y], l \in legs[e])
        /\ \A S : Holds(b, q, inflight[y][l], unacked[e][l], l \in legs[y], l \in legs[e], S)
             => Holds(b, s, inflight[y][l], unacked[e][l], l \in legs[y], l \in legs[e], S)
    <3> HIDE DEF q, b, s, y
    <3> QED
      BY ONLY CountingLaws, <1>3, <1>6, <1>7, OvertakeBack, ZenonT(30)
  <2> QED
    BY <1>1, <1>3, <1>4, <2>1 DEF Kept, LegAt, HoldsAt
<1>10. \A x \in Ends, m \in Legs : Kept(x, m)
  BY <1>5, <1>8, <1>9, EveryLeg
<1> QED
  BY <1>2, <1>3, <1>10, AllKept

\* A LINKED_ACK, a SWITCH or a SENDME arrives.
LEMMA ControlWindow ==
    ASSUME CountingLaws, IndInv, LegsInv, LossInv, NEW e \in Ends, NEW l \in Legs,
           \/ RecvLinkedAck(e, l)
           \/ conflux_process_switch_command(e, l)
           \/ RecvSendme(e, l)
    PROVE  LegsInv' /\ LossInv'
<1>1. TypeOK
  BY Opened
<1>2. UNCHANGED <<legs, sent, last_seq_delivered, ooo_q>>
  BY DEF RecvLinkedAck, conflux_process_switch_command, RecvSendme, seqVars, oooVars
<1>3. CASE RecvSendme(e, l)
  BY <1>1, <1>2, <1>3, SendmeKept, AllKept
<1>4. CASE RecvLinkedAck(e, l) \/ conflux_process_switch_command(e, l)
  <2>1. /\ Incoming(e, l) # <<>> /\ Consume(e, l)
        /\ Head(Incoming(e, l)).type \notin {"data", "sendme", "destroy"}
    BY <1>4 DEF RecvLinkedAck, conflux_process_switch_command, Arrives
  <2>2. UNCHANGED <<legs, inflight, unacked>>
    BY <1>4 DEF RecvLinkedAck, conflux_process_switch_command, ccVars
  <2>3. \A x \in Ends, m \in Legs : Kept(x, m)
    BY <1>1, <2>1, <2>2, ConsumeKept
  <2> QED
    BY <1>1, <1>2, <2>3, AllKept
<1> QED
  BY <1>3, <1>4

\* Steps that leave the wires and the counters alone.
LEMMA StillWindow ==
    ASSUME CountingLaws, IndInv, LegsInv, LossInv,
           UNCHANGED <<legs, net, inflight, unacked, sent, last_seq_delivered>>,
           ooo_q' = ooo_q \/ \E e \in Ends : legs[e] = {}
    PROVE  LegsInv' /\ LossInv'
<1>1. TypeOK
  BY Opened
<1>2. \A m \in Legs : SameLeg(m)
  BY DEF SameLeg
<1>3. \A x \in Ends, m \in Legs : Kept(x, m)
  BY <1>2, SameLegKept
<1>4. LegsInv'
  BY <1>3 DEF LegsInv, Kept
<1>5. CASE ooo_q' = ooo_q
  BY <1>1, <1>3, <1>5, AllKept
<1>6. CASE \E e \in Ends : legs[e] = {}
  BY <1>4, <1>6 DEF LossInv
<1> QED
  BY <1>5, <1>6

\* Every step of a set keeps the windows and the account of what is missing.
LEMMA WindowStep ==
    ASSUME CountingLaws, IndInv, WindowInv, LossInv, [Next]_vars
    PROVE  WindowInv' /\ LossInv'
<1>0. LegsInv
  BY LegsOpened, Opened
<1> SUFFICES LegsInv' /\ LossInv'
  BY LegsClosed
<1>1. ASSUME NEW e \in Ends, PickLeg(e) PROVE LegsInv' /\ LossInv'
  BY <1>0, <1>1, StillWindow DEF PickLeg, ccVars, seqVars, oooVars
<1>2. ASSUME NEW e \in Ends, FreeSet(e) PROVE LegsInv' /\ LossInv'
  BY <1>0, <1>2, StillWindow DEF FreeSet, ccVars, seqVars
<1>3. ASSUME NEW e \in Ends, NEW k \in Multiplexed, Send(e, k) PROVE LegsInv' /\ LossInv'
  BY <1>0, <1>3, SendWindow
<1>4. ASSUME NEW e \in Ends, NEW l \in Legs, Receive(e, l) PROVE LegsInv' /\ LossInv'
  <2>1. CASE RecvMsg(e, l)
    BY <1>0, <2>1, RecvMsgWindow
  <2>2. CASE RecvDestroy(e, l)
    <3>1. /\ l \in legs[e] /\ linked_circuit_closed(e, l)
          /\ UNCHANGED <<circ_rtts_usec, blocked, sent, log, ccVars, seqVars, oooVars>>
      BY <2>2 DEF RecvDestroy, Arrives
    <3> QED
      BY <1>0, <3>1, CloseWindow
  <2> QED
    BY <1>0, <1>4, <2>1, <2>2, ControlWindow DEF Receive
<1>5. ASSUME NEW e \in Ends, NEW l \in Legs, NEW b \in BOOLEAN, SetBlocked(e, l, b)
      PROVE  LegsInv' /\ LossInv'
  BY <1>0, <1>5, StillWindow DEF SetBlocked, ccVars, seqVars, oooVars
<1>6. ASSUME NEW e \in Ends, NEW l \in Legs, CloseCircuit(e, l) PROVE LegsInv' /\ LossInv'
  <2>1. /\ l \in legs[e] /\ linked_circuit_closed(e, l)
        /\ UNCHANGED <<circ_rtts_usec, blocked, sent, log, ccVars, seqVars, oooVars>>
    BY <1>6 DEF CloseCircuit
  <2> QED
    BY <1>0, <2>1, CloseWindow
<1>7. ASSUME NEW e \in Ends, NEW l \in Legs, DestroyOvertakes(e, l) PROVE LegsInv' /\ LossInv'
  BY <1>0, <1>7, OvertakesWindow
<1>8. ASSUME NEW l \in Legs, PathFails(l) PROVE LegsInv' /\ LossInv'
  BY <1>0, <1>8, PathFailsWindow
<1>9. CASE UNCHANGED vars
  BY <1>0, <1>9, StillWindow DEF vars
<1> QED
  BY <1>1, <1>2, <1>3, <1>4, <1>5, <1>6, <1>7, <1>8, <1>9 DEF Next

-----------------------------------------------------------------------------
(* The laws of counting, from the theorems on finite sets. *)

INSTANCE FiniteSetTheorems

\* Each law of counting holds: the places are among the indices of the queue ...
LEMMA PlacesFiniteHolds == PlacesFiniteLaw
<1> SUFFICES ASSUME NEW q \in Seq(Cell), NEW t
             PROVE  /\ IsFiniteSet(Places(q, t))
                    /\ Count(q, t) = Cardinality(Places(q, t))
                    /\ Count(q, t) \in Nat
  BY DEF PlacesFiniteLaw
<1>1. Len(q) \in Nat
  OBVIOUS
<1>2. IsFiniteSet(1..Len(q))
  BY <1>1, FS_Interval
<1>3. Places(q, t) \in SUBSET (1..Len(q))
  BY DEF Places
<1>4. IsFiniteSet(Places(q, t))
  BY <1>2, <1>3, FS_Subset
<1>5. Count(q, t) = Cardinality(Places(q, t))
  BY DEF Count, Places
<1> QED
  BY <1>4, <1>5, FS_CardinalityType

\* ... a cell sent adds the place after the last ...
LEMMA CountAddHolds == CountAddLaw
<1> SUFFICES ASSUME NEW q \in Seq(Cell), NEW c \in Cell, NEW t
             PROVE  Count(q \o <<c>>, t)
                      = IF c.type = t THEN Count(q, t) + 1 ELSE Count(q, t)
  BY DEF CountAddLaw
<1> DEFINE p == q \o <<c>>
           n == Len(q) + 1
<1>1. /\ p \in Seq(Cell) /\ Len(p) = n /\ p[n] = c /\ Len(q) \in Nat
      /\ \A k \in 1..Len(q) : p[k] = q[k]
  OBVIOUS
<1>2. IsFiniteSet(Places(q, t)) /\ Count(q, t) = Cardinality(Places(q, t))
      /\ Count(p, t) = Cardinality(Places(p, t))
  BY <1>1, PlacesFiniteHolds DEF PlacesFiniteLaw
<1>3. n \notin Places(q, t)
  BY <1>1 DEF Places
<1> HIDE DEF p
<1>4. CASE c.type = t
  <2>1. Places(p, t) = Places(q, t) \cup {n}
    BY <1>1, <1>4 DEF Places
  <2>2. Cardinality(Places(q, t) \cup {n}) = Cardinality(Places(q, t)) + 1
    BY <1>2, <1>3, FS_AddElement
  <2> QED
    BY <1>2, <1>4, <2>1, <2>2 DEF p
<1>5. CASE c.type # t
  <2>1. Places(p, t) = Places(q, t)
    BY <1>1, <1>5 DEF Places
  <2> QED
    BY <1>2, <1>5, <2>1 DEF p
<1> QED
  BY <1>4, <1>5

\* ... a cell taken removes the first place and moves the others ...
LEMMA CountTakeHolds == CountTakeLaw
<1> SUFFICES ASSUME NEW q \in Seq(Cell), q # <<>>, NEW t
             PROVE  /\ Tail(q) \in Seq(Cell)
                    /\ Count(q, t) = IF Head(q).type = t THEN Count(Tail(q), t) + 1
                                                         ELSE Count(Tail(q), t)
  BY DEF CountTakeLaw
<1> DEFINE p == Tail(q)
           S == Places(p, t)
           T == Places(q, t)
           f == [i \in S |-> i + 1]
<1>1. /\ p \in Seq(Cell) /\ Len(q) \in Nat /\ Len(q) >= 1 /\ Len(p) = Len(q) - 1
      /\ Head(q) = q[1]
      /\ \A k \in 1..Len(p) : p[k] = q[k + 1]
  OBVIOUS
<1>2. IsFiniteSet(S) /\ Count(p, t) = Cardinality(S) /\ Cardinality(S) \in Nat
      /\ IsFiniteSet(T) /\ Count(q, t) = Cardinality(T)
  BY <1>1, PlacesFiniteHolds DEF PlacesFiniteLaw
<1> HIDE DEF p
<1>3. S \subseteq Nat /\ T \subseteq Nat
  BY DEF Places
<1>4. f \in Bijection(S, T \ {1})
  <2>1. \A i \in S : i + 1 \in T \ {1}
    BY <1>1 DEF Places
  <2>2. \A j \in T \ {1} : j - 1 \in S /\ (j - 1) + 1 = j
    BY <1>1 DEF Places
  <2> HIDE DEF S, T
  <2>3. f \in [S -> T \ {1}]
    BY <2>1
  <2>4. \A a, b \in S : f[a] = f[b] => a = b
    BY <1>3
  <2>5. \A j \in T \ {1} : \E i \in S : f[i] = j
    BY <2>2
  <2> HIDE DEF f
  <2>6. f \in Injection(S, T \ {1})
    BY <2>3, <2>4 DEF Injection, IsInjective
  <2>7. f \in Surjection(S, T \ {1})
    BY <2>3, <2>5 DEF Surjection
  <2> QED
    BY <2>6, <2>7 DEF Bijection
<1>5. Cardinality(T \ {1}) = Cardinality(S)
  <2> HIDE DEF S, T, f
  <2>1. ExistsBijection(S, T \ {1})
    BY <1>4 DEF ExistsBijection
  <2> QED
    BY <1>2, <2>1, FS_Bijection
<1>6. Cardinality(T \ {1}) = IF 1 \in T THEN Cardinality(T) - 1 ELSE Cardinality(T)
  BY <1>2, FS_RemoveElement
<1>7. 1 \in T <=> Head(q).type = t
  BY <1>1 DEF Places
<1>8. Cardinality(T) \in Nat
  BY <1>2, FS_CardinalityType
<1> QED
  BY ONLY <1>1, <1>2, <1>5, <1>6, <1>7, <1>8, SMTT(30) DEF p

\* ... and so for any finite set ...
LEMMA CardAddHolds == CardAddLaw
<1> SUFFICES ASSUME NEW S, NEW i, IsFiniteSet(S)
             PROVE  /\ IsFiniteSet(S \cup {i}) /\ Cardinality(S) \in Nat
                    /\ Cardinality(S \cup {i}) \in Nat
                    /\ Cardinality(S \cup {i}) <= Cardinality(S) + 1
  BY DEF CardAddLaw
<1> QED
  BY FS_AddElement, FS_CardinalityType

\* ... from which an element is taken ...
LEMMA CardDropHolds == CardDropLaw
<1> SUFFICES ASSUME NEW S, NEW i, IsFiniteSet(S), i \in S
             PROVE  /\ IsFiniteSet(S \ {i}) /\ Cardinality(S) \in Nat
                    /\ Cardinality(S \ {i}) = Cardinality(S) - 1
                    /\ Cardinality(S \ {i}) \in Nat
  BY DEF CardDropLaw
<1> QED
  BY FS_RemoveElement, FS_CardinalityType

\* ... and for a part of it.
LEMMA CardPartHolds == CardPartLaw
<1>1. ASSUME NEW n \in Nat PROVE IsFiniteSet(1..n)
  BY FS_Interval
<1>2. ASSUME NEW S, IsFiniteSet(S), NEW T \in SUBSET S
      PROVE  IsFiniteSet(T) /\ Cardinality(T) <= Cardinality(S)
  BY <1>2, FS_Subset
<1> QED
  BY <1>1, <1>2 DEF CardPartLaw

\* All of them.
LEMMA Counting == CountingLaws
BY PlacesFiniteHolds, CountAddHolds, CountTakeHolds, CardAddHolds, CardDropHolds,
   CardPartHolds DEF CountingLaws

-----------------------------------------------------------------------------
(* The results on the window. *)

\* In the beginning nothing is in flight and nothing is missing.
LEMMA WindowInit == Init => WindowInv /\ LossInv
<1> SUFFICES ASSUME Init PROVE WindowInv /\ LossInv
  OBVIOUS
<1>1. TypeOK
  BY TypeInit
<1>2. ASSUME NEW e \in Ends, NEW l \in Legs
      PROVE  /\ Count(net[e][l], "data") = 0 /\ Count(net[e][l], "sendme") = 0
             /\ DataMsgs(net[e][l]) = {}
             /\ inflight[e][l] = 0 /\ unacked[e][l] = 0 /\ l \in legs[e]
  <2>1. net[e][l] = <<>> \/ net[e][l] = <<CtlCell("linked_ack", 0)>>
    BY DEF Init
  <2>2. CtlCell("linked_ack", 0).type = "linked_ack"
    BY DEF CtlCell
  <2>3. \A k \in 1..Len(net[e][l]) : net[e][l][k].type = "linked_ack"
    <3>1. CASE net[e][l] = <<>>
      BY <3>1
    <3>2. CASE net[e][l] = <<CtlCell("linked_ack", 0)>>
      BY <2>2, <3>2
    <3> QED
      BY <2>1, <3>1, <3>2
  <2>4. /\ {i \in 1..Len(net[e][l]) : net[e][l][i].type = "data"} = {}
        /\ {i \in 1..Len(net[e][l]) : net[e][l][i].type = "sendme"} = {}
    BY <2>3
  <2>5. Count(net[e][l], "data") = 0 /\ Count(net[e][l], "sendme") = 0
    BY <2>4, FS_EmptySet DEF Count
  <2>6. DataMsgs(net[e][l]) = {}
    BY <2>4 DEF DataMsgs
  <2>7. inflight[e][l] = 0 /\ unacked[e][l] = 0 /\ l \in legs[e]
    BY DEF Init
  <2> QED
    BY <2>5, <2>6, <2>7
<1>3. SendmeInc \in Nat /\ SendmeInc > 0 /\ SendmeInc * 0 = 0
  BY WindowAssumption
<1>4. \A e \in Ends : Peer(e) \in Ends
  BY PeerFacts
<1>5. WindowInv
  <2> SUFFICES ASSUME NEW e \in Ends, NEW l \in Legs
               PROVE  /\ unacked[e][l] < SendmeInc
                      /\ l \in legs[Peer(e)]
                      /\ LegConserved(e, l)
    BY DEF WindowInv
  <2>1. unacked[e][l] < SendmeInc /\ l \in legs[Peer(e)]
    BY <1>2, <1>3, <1>4
  <2>2. inflight[e][l] = Count(net[e][l], "data") + unacked[Peer(e)][l]
                          + SendmeInc * Count(net[Peer(e)][l], "sendme")
    BY <1>2, <1>3, <1>4
  <2> QED
    BY <2>1, <2>2 DEF LegConserved
<1>6. LossInv
  <2> SUFFICES ASSUME NEW e \in Ends
               PROVE  \E P \in [Legs -> SUBSET (1..Len(sent[e]))] : Accounted(e, P)
    BY DEF LossInv
  <2> DEFINE P == [l \in Legs |-> {}]
  <2>1. sent[e] = <<>>
    BY DEF Init
  <2>2. Missing(e) = {}
    BY <2>1 DEF Missing
  <2>3. ASSUME NEW l \in Legs PROVE Charged(e, l, {})
    <3>1. Cardinality({}) = 0
      BY FS_EmptySet
    <3>2. DataMsgs(net[e][l]) = {} /\ l \in legs[e]
      BY <1>2
    <3>3. Cardinality({}) + unacked[Peer(e)][l]
            + SendmeInc * Count(net[Peer(e)][l], "sendme") <= inflight[e][l]
      BY <1>2, <1>3, <1>4, <3>1
    <3> QED
      BY <3>2, <3>3 DEF Charged
  <2>4. Accounted(e, P)
    BY <2>2, <2>3 DEF Accounted
  <2>5. P \in [Legs -> SUBSET (1..Len(sent[e]))]
    OBVIOUS
  <2> QED
    BY <2>4, <2>5
<1> QED
  BY <1>5, <1>6

\* A set covered by the sets P[l], each with at most k elements.
LEMMA CoverBound ==
    ASSUME NEW A, IsFiniteSet(A), NEW k \in Nat, NEW P, NEW X,
           \A l \in A : IsFiniteSet(P[l]) /\ Cardinality(P[l]) <= k,
           \A i \in X : \E l \in A : i \in P[l]
    PROVE  Cardinality(X) <= k * Cardinality(A)
<1>1. ASSUME NEW l \in A
      PROVE  \E g : \A i \in P[l] : \E r \in 1..k : g[r] = i
  <2>1. IsFiniteSet(P[l]) /\ Cardinality(P[l]) <= k /\ Cardinality(P[l]) \in Nat
    BY FS_CardinalityType
  <2>2. ExistsBijection(1..Cardinality(P[l]), P[l])
    BY <2>1, FS_CardinalityType
  <2>3. PICK g \in Bijection(1..Cardinality(P[l]), P[l]) : TRUE
    BY <2>2 DEF ExistsBijection
  <2>4. \A i \in P[l] : \E r \in 1..Cardinality(P[l]) : g[r] = i
    BY <2>3 DEF Bijection, Surjection
  <2>5. 1..Cardinality(P[l]) \subseteq 1..k
    BY <2>1
  <2> QED
    BY <2>4, <2>5
<1> DEFINE G(l) == CHOOSE g : \A i \in P[l] : \E r \in 1..k : g[r] = i
           B == A \X (1..k)
           h == [i \in X |-> CHOOSE p \in B : G(p[1])[p[2]] = i]
<1>2. \A l \in A : \A i \in P[l] : \E r \in 1..k : G(l)[r] = i
  BY <1>1
<1> HIDE DEF G
<1>3. ASSUME NEW i \in X PROVE h[i] \in B /\ G(h[i][1])[h[i][2]] = i
  <2>1. PICK l \in A : i \in P[l]
    OBVIOUS
  <2>2. PICK r \in 1..k : G(l)[r] = i
    BY <1>2, <2>1
  <2>3. \E p \in B : G(p[1])[p[2]] = i
    <3>1. <<l, r>> \in B
      OBVIOUS
    <3>2. G(<<l, r>>[1])[<<l, r>>[2]] = i
      BY <2>2
    <3> QED
      BY <3>1, <3>2
  <2> QED
    BY <2>3
<1>4. h \in Injection(X, B)
  <2>1. h \in [X -> B]
    BY <1>3
  <2>2. ASSUME NEW i \in X, NEW j \in X, h[i] = h[j] PROVE i = j
    <3> HIDE DEF h
    <3> QED
      BY <1>3, <2>2
  <2> HIDE DEF h, B
  <2> QED
    BY <2>1, <2>2 DEF Injection, IsInjective
<1>5. IsFiniteSet(1..k) /\ Cardinality(1..k) = k
  BY FS_Interval
<1>6. IsFiniteSet(B) /\ Cardinality(B) = Cardinality(A) * Cardinality(1..k)
  BY <1>5, FS_Product
<1>7. Cardinality(X) <= Cardinality(B)
  <2> HIDE DEF h, B
  <2> QED
    BY <1>4, <1>6, FS_Injection
<1>8. Cardinality(A) \in Nat
  BY FS_CardinalityType
<1>9. Cardinality(A) * k = k * Cardinality(A)
  BY <1>8
<1> QED
  BY <1>5, <1>6, <1>7, <1>9

\* What the account says of a set that has settled.
LEMMA LossBound ==
    ASSUME IndInv, WindowInv, LossInv
    PROVE  LossBelowSendme
<1> SUFFICES ASSUME Settled, NEW e \in Ends
             PROVE  Cardinality({i \in Lost(e) : sent[e][i] = "data"})
                      <= (SendmeInc - 1) * Cardinality(Legs \ legs[e])
  BY DEF LossBelowSendme
<1> DEFINE y == Peer(e)
           A == Legs \ legs[e]
           X == {i \in Lost(e) : sent[e][i] = "data"}
           n == Len(sent[e])
<1>1. TypeOK /\ y \in Ends
  BY Opened, PeerFacts
<1>2. \A x \in Ends : legs[x] # {}
  BY DEF Settled, Ends
<1>3. PICK P \in [Legs -> SUBSET (1..n)] : Accounted(e, P)
  BY <1>2 DEF LossInv
<1>4. n \in Nat /\ last_seq_delivered[y] \in Nat /\ SendmeInc \in Nat \ {0}
  BY <1>1, WindowAssumption DEF TypeOK
<1>5. IsFiniteSet(1..n) /\ IsFiniteSet(A)
  <2>1. IsFiniteSet(1..n)
    BY <1>4, FS_Interval
  <2>2. IsFiniteSet(A)
    BY FiniteAssumption, FS_Difference
  <2> QED
    BY <2>1, <2>2
<1>6. ASSUME NEW l \in A
      PROVE  IsFiniteSet(P[l]) /\ Cardinality(P[l]) <= SendmeInc - 1
  <2>1. P[l] \subseteq 1..n
    BY <1>3
  <2>2. IsFiniteSet(P[l]) /\ Cardinality(P[l]) \in Nat
    BY <1>5, <2>1, FS_Subset, FS_CardinalityType
  <2>3. Cardinality(P[l]) < SendmeInc
    BY <1>3 DEF Accounted, Charged
  <2> QED
    BY <1>4, <2>2, <2>3
<1>7. ASSUME NEW i \in X PROVE \E l \in A : i \in P[l]
  <2>1. /\ i \in (last_seq_delivered[y] + 1)..n /\ sent[e][i] = "data"
        /\ \A m \in ooo_q[y] : m.msg # i
        /\ \A l \in legs[y] : \A k \in 1..Len(net[e][l]) :
             net[e][l][k].type \in Multiplexed => net[e][l][k].msg # i
    BY DEF Lost
  <2>2. i \in Missing(e)
    BY <1>4, <2>1 DEF Missing
  <2>3. PICK l \in Legs : i \in P[l]
    BY <1>3, <2>1, <2>2 DEF Accounted
  <2>4. ASSUME l \in legs[e] PROVE FALSE
    <3>1. ~Ended(net[e][l]) /\ ~Ended(net[y][l])
      BY <1>1 DEF Settled
    <3>2. l \in legs[y]
      BY <2>4, <3>1 DEF WindowInv
    <3>3. i \in DataMsgs(net[e][l])
      BY <1>3, <2>3, <3>1, <3>2 DEF Accounted, Charged
    <3>4. PICK k \in 1..Len(net[e][l]) : net[e][l][k].type = "data" /\ net[e][l][k].msg = i
      BY <3>3, DataFacts
    <3> QED
      BY <2>1, <3>2, <3>4 DEF Multiplexed
  <2> QED
    BY <2>3, <2>4
<1>8. SendmeInc - 1 \in Nat
  BY <1>4
<1> HIDE DEF A, X
<1>9. Cardinality(X) <= (SendmeInc - 1) * Cardinality(A)
  BY <1>5, <1>6, <1>7, <1>8, CoverBound
<1> QED
  BY <1>9 DEF A, X

\* The windows of each leg are conserved, and every message that has not come
\* through is charged to a leg, for any number of legs and any window.
THEOREM WindowInvariance == Spec => [](IndInv /\ WindowInv /\ LossInv)
<1>1. Init => IndInv /\ WindowInv /\ LossInv
  BY InitStep, WindowInit
<1>2. IndInv /\ WindowInv /\ LossInv /\ [Next]_vars => (IndInv /\ WindowInv /\ LossInv)'
  BY Counting, NextStep, WindowStep
<1> QED
  BY <1>1, <1>2, PTL DEF Spec

\* cc->inflight is what is on the wire, not yet acknowledged, or acknowledged
\* by a SENDME on its way back: sendme_process_circuit_level_impl never takes
\* it below zero on a leg that is up.
THEOREM WindowConservedAlways == Spec => []WindowConserved
<1>1. ASSUME IndInv, WindowInv PROVE WindowConserved
  <2> SUFFICES ASSUME NEW e \in Ends, NEW l \in legs["client"] \cap legs["exit"],
                      ~Ended(net["client"][l]) /\ ~Ended(net["exit"][l])
               PROVE  inflight[e][l] = Count(net[e][l], "data") + unacked[Peer(e)][l]
                                        + SendmeInc * Count(net[Peer(e)][l], "sendme")
    BY DEF WindowConserved
  <2>1. "client" \in Ends /\ "exit" \in Ends /\ l \in Legs
    BY <1>1, Opened DEF TypeOK, Ends
  <2>2. /\ l \in legs[e] /\ l \in legs[Peer(e)]
        /\ ~Ended(net[e][l]) /\ ~Ended(net[Peer(e)][l])
    BY DEF Ends, Peer
  <2>3. LegConserved(e, l)
    BY <1>1, <2>1 DEF WindowInv
  <2> QED
    BY <2>2, <2>3 DEF LegConserved
<1>2. IndInv /\ WindowInv /\ LossInv => WindowConserved
  BY <1>1
<1> QED
  BY <1>2, WindowInvariance, PTL

\* cfx_del_leg keeps a set only when at most sendme_inc - 1 DATA messages went
\* down with each leg that closed.
THEOREM LossBelowSendmeAlways == Spec => []LossBelowSendme
<1>1. IndInv /\ WindowInv /\ LossInv => LossBelowSendme
  BY LossBound
<1> QED
  BY <1>1, WindowInvariance, PTL

=============================================================================
