-------------------------- MODULE ConfluxCells_proofs --------------------------
(***************************************************************************)
(* The cells of a conflux set.  The first part: what sending a cell,       *)
(* taking one and losing one does to the part of the inductive invariant   *)
(* about the cells under way on one leg in one direction.  The second:     *)
(* relay_send_command_from_edge_ preserves the invariant: the leg chosen   *)
(* is a leg of the set, a SWITCH brings the receiver to the number of the  *)
(* current leg, and the message is new.  The third:                        *)
(* connection_edge_process_relay_cell preserves it: the message at the     *)
(* head of a leg has the number the receiver gives it, and the dequeue     *)
(* loop hands over the next ones.                                          *)
(***************************************************************************)
EXTENDS ConfluxSet, TLAPS

\* A leaf is tried with Zenon, then with SMT, then with both for longer.
USE ZenonT(2), SMT, SMTT(30), Zenon

\* There are two ends, each the other's peer.
LEMMA PeerFacts ==
    ASSUME NEW e \in Ends
    PROVE  Peer(e) \in Ends /\ Peer(e) # e /\ Peer(Peer(e)) = e
BY DEF Ends, Peer

\* Facts about sequences, in the form in which the provers need them: elements,
LEMMA SeqElement ==
    ASSUME NEW S, NEW q \in Seq(S), NEW k \in 1..Len(q)
    PROVE  q[k] \in S
OBVIOUS

\* lengths,
LEMMA SeqLength ==
    ASSUME NEW S, NEW q \in Seq(S)
    PROVE  /\ Len(q) \in Nat
           /\ q # <<>> => Len(q) \in Nat \ {0}
           /\ q = <<>> => Len(q) = 0
OBVIOUS

\* and concatenation.
LEMMA SeqConcat ==
    ASSUME NEW S, NEW p \in Seq(S), NEW q \in Seq(S)
    PROVE  /\ p \o q \in Seq(S) /\ Len(p \o q) = Len(p) + Len(q)
           /\ \A k \in 1..Len(p) + Len(q) :
                (p \o q)[k] = IF k <= Len(p) THEN p[k] ELSE q[k - Len(p)]
OBVIOUS

-----------------------------------------------------------------------------
(* What the queue operations do to the parts of the invariant. *)

\* A message is among the cells of a wire when some cell carries it.
LEMMA MsgsFacts ==
    ASSUME NEW q, NEW i
    PROVE  i \in Msgs(q) <=>
             \E k \in 1..Len(q) : q[k].type \in Multiplexed /\ q[k].msg = i
BY DEF Msgs

\* Taking the first cell, which is not a DESTROY, of a way.
LEMMA TakeCell ==
    ASSUME NEW q \in Seq(Cell), NEW r \in Nat, NEW n \in Nat,
           q # <<>>, Chained(q, r, n), Unique(q),
           q[1].type # "destroy"
    PROVE  /\ Tail(q) \in Seq(Cell)
           /\ Chained(Tail(q), q[1].abs, n)
           /\ q[1].abs = r + Advance(q[1])
           /\ SeqAfter(Tail(q), q[1].abs, Len(Tail(q))) = SeqAfter(q, r, Len(q))
           /\ Ended(Tail(q)) <=> Ended(q)
           /\ Unique(Tail(q))
           /\ Msgs(Tail(q)) \subseteq Msgs(q)
           /\ q[1].type \in Multiplexed =>
                /\ q[1].msg = q[1].abs /\ q[1].msg <= n
                /\ q[1].msg \in Msgs(q)
                /\ q[1].msg \notin Msgs(Tail(q))
<1> DEFINE t == Tail(q)
<1>1. /\ Len(q) \in Nat /\ Len(q) >= 1
      /\ t \in Seq(Cell)
      /\ Len(t) = Len(q) - 1
      /\ \A k \in 1..Len(t) : t[k] = q[k + 1]
  BY SeqLength
<1>2. \A k \in 1..Len(q) : q[k] \in Cell
  BY SeqElement
<1> HIDE DEF t
<1>3. Chained(t, q[1].abs, n)
  <2> SUFFICES ASSUME NEW k \in 1..Len(t)
               PROVE  /\ t[k].type = "destroy" => k = Len(t)
                      /\ t[k].type # "destroy" =>
                           t[k].abs = SeqAfter(t, q[1].abs, k - 1) + Advance(t[k])
                      /\ t[k].type \in Multiplexed =>
                           t[k].msg = t[k].abs /\ t[k].msg <= n
    BY DEF Chained
  <2>1. t[k] = q[k + 1] /\ k + 1 \in 1..Len(q)
    BY <1>1
  <2>2. SeqAfter(t, q[1].abs, k - 1) = SeqAfter(q, r, k)
    <3>1. CASE k = 1
      BY <3>1 DEF SeqAfter
    <3>2. CASE k # 1
      <4>1. k - 1 \in 1..Len(t) /\ k - 1 # 0 /\ k # 0 /\ (k - 1) + 1 = k
        BY <3>2, <1>1
      <4>2. t[k - 1] = q[k]
        BY <4>1, <1>1
      <4> QED
        BY <4>1, <4>2 DEF SeqAfter
    <3> QED
      BY <3>1, <3>2
  <2> QED
    BY <1>1, <2>1, <2>2 DEF Chained
<1>4. q[1].abs = r + Advance(q[1])
  BY <1>1 DEF Chained, SeqAfter
<1>5. SeqAfter(t, q[1].abs, Len(t)) = SeqAfter(q, r, Len(q))
  BY <1>1 DEF SeqAfter
<1>6. Ended(t) <=> Ended(q)
  <2>1. CASE Len(q) = 1
    BY <2>1, <1>1, SeqLength DEF Ended
  <2>2. CASE Len(q) > 1
    BY <2>2, <1>1, SeqLength DEF Ended
  <2> QED
    BY <2>1, <2>2, <1>1
<1>7. Unique(t)
  BY <1>1 DEF Unique
<1>8. Msgs(t) \subseteq Msgs(q)
  BY <1>1, MsgsFacts
<1>9. ASSUME q[1].type \in Multiplexed
      PROVE  /\ q[1].msg = q[1].abs /\ q[1].msg <= n
             /\ q[1].msg \in Msgs(q)
             /\ q[1].msg \notin Msgs(t)
  <2>1. 1 \in 1..Len(q)
    BY <1>1
  <2>2. q[1].msg = q[1].abs /\ q[1].msg <= n
    BY <2>1, <1>9 DEF Chained
  <2>3. q[1].msg \in Msgs(q)
    BY <2>1, <1>9, MsgsFacts
  <2>4. ASSUME q[1].msg \in Msgs(t) PROVE FALSE
    <3>1. PICK i \in 1..Len(t) : t[i].type \in Multiplexed /\ t[i].msg = q[1].msg
      BY <2>4, MsgsFacts
    <3>2. i + 1 \in 1..Len(q) /\ i + 1 # 1 /\ q[i + 1] = t[i]
      BY <1>1
    <3> QED
      BY <2>1, <1>9, <3>1, <3>2 DEF Unique
  <2> QED
    BY <2>2, <2>3, <2>4
<1> QED
  BY <1>1, <1>3, <1>4, <1>5, <1>6, <1>7, <1>8, <1>9 DEF t

\* Adding a cell that continues the chain; messages up to n are already out.
LEMMA AddCell ==
    ASSUME NEW q \in Seq(Cell), NEW r \in Nat, NEW n \in Nat, NEW n2 \in Nat,
           NEW c \in Cell, n <= n2,
           Chained(q, r, n), Unique(q), ~Ended(q),
           c.type # "destroy" => c.abs = SeqAfter(q, r, Len(q)) + Advance(c),
           c.type \in Multiplexed =>
             c.msg = c.abs /\ n < c.msg /\ c.msg <= n2
    PROVE  /\ q \o <<c>> \in Seq(Cell)
           /\ Chained(q \o <<c>>, r, n2)
           /\ SeqAfter(q \o <<c>>, r, Len(q \o <<c>>)) = c.abs
           /\ Ended(q \o <<c>>) <=> c.type = "destroy"
           /\ Unique(q \o <<c>>)
           /\ Msgs(q) \subseteq Msgs(q \o <<c>>)
           /\ \A i \in Msgs(q \o <<c>>) :
                i \in Msgs(q) \/ (c.type \in Multiplexed /\ i = c.msg)
<1> DEFINE s == q \o <<c>>
<1>1. /\ Len(q) \in Nat
      /\ s \in Seq(Cell)
      /\ Len(s) = Len(q) + 1
      /\ \A k \in 1..Len(q) : s[k] = q[k]
      /\ s[Len(q) + 1] = c
  OBVIOUS
<1>2. \A k \in 1..Len(q) : q[k] \in Cell /\ q[k].type # "destroy"
  <2> SUFFICES ASSUME NEW k \in 1..Len(q)
               PROVE  q[k] \in Cell /\ q[k].type # "destroy"
    OBVIOUS
  <2>1. q[k] \in Cell
    BY SeqElement
  <2>2. q[k].type = "destroy" => k = Len(q)
    BY DEF Chained
  <2>3. q # <<>>
    BY <1>1, SeqLength
  <2> QED
    BY <2>1, <2>2, <2>3 DEF Ended
<1> HIDE DEF s
<1>3. Chained(s, r, n2)
  <2> SUFFICES ASSUME NEW k \in 1..Len(s)
               PROVE  /\ s[k].type = "destroy" => k = Len(s)
                      /\ s[k].type # "destroy" =>
                           s[k].abs = SeqAfter(s, r, k - 1) + Advance(s[k])
                      /\ s[k].type \in Multiplexed =>
                           s[k].msg = s[k].abs /\ s[k].msg <= n2
    BY DEF Chained
  <2>1. SeqAfter(s, r, k - 1) = SeqAfter(q, r, k - 1)
    <3>1. CASE k = 1
      BY <3>1 DEF SeqAfter
    <3>2. CASE k # 1
      <4>1. k - 1 \in 1..Len(q) /\ k - 1 # 0
        BY <3>2, <1>1
      <4> QED
        BY <4>1, <1>1 DEF SeqAfter
    <3> QED
      BY <3>1, <3>2
  <2>2. CASE k \in 1..Len(q)
    <3>1. s[k] = q[k] /\ q[k] \in Cell /\ q[k].type # "destroy"
      BY <2>2, <1>1, <1>2
    <3>2. q[k].abs = SeqAfter(q, r, k - 1) + Advance(q[k])
      BY <2>2, <3>1 DEF Chained
    <3>3. q[k].type \in Multiplexed => q[k].msg = q[k].abs /\ q[k].msg <= n
      BY <2>2, <3>1 DEF Chained
    <3>4. q[k].msg \in Nat
      BY <3>1 DEF Cell
    <3> QED
      BY <3>1, <3>2, <3>3, <3>4, <2>1
  <2>3. CASE k = Len(q) + 1
    <3>1. k - 1 = Len(q) /\ s[k] = c
      BY <2>3, <1>1
    <3> QED
      BY <3>1, <2>1, <2>3, <1>1
  <2> QED
    BY <2>2, <2>3, <1>1
<1>4. SeqAfter(s, r, Len(s)) = c.abs
  BY <1>1 DEF SeqAfter
<1>5. Ended(s) <=> c.type = "destroy"
  <2>1. s # <<>>
    BY <1>1, SeqLength
  <2> QED
    BY <2>1, <1>1 DEF Ended
<1>6. \A k \in 1..Len(q) : q[k].type \in Multiplexed =>
                             q[k].msg \in Nat /\ q[k].msg <= n
  BY <1>2 DEF Chained, Cell
<1>7. Unique(s)
  <2> SUFFICES ASSUME NEW i \in 1..Len(s), NEW j \in 1..Len(s),
                      s[i].type \in Multiplexed, s[j].type \in Multiplexed,
                      s[i].msg = s[j].msg
               PROVE  i = j
    BY DEF Unique
  <2>1. CASE i \in 1..Len(q) /\ j \in 1..Len(q)
    BY <2>1, <1>1 DEF Unique
  <2>2. CASE i \in 1..Len(q) /\ j = Len(q) + 1
    <3>1. q[i].msg \in Nat /\ q[i].msg <= n /\ c.msg = q[i].msg /\ n < c.msg
      BY <2>2, <1>1, <1>6
    <3> QED
      BY <3>1
  <2>3. CASE j \in 1..Len(q) /\ i = Len(q) + 1
    <3>1. q[j].msg \in Nat /\ q[j].msg <= n /\ c.msg = q[j].msg /\ n < c.msg
      BY <2>3, <1>1, <1>6
    <3> QED
      BY <3>1
  <2> QED
    BY <2>1, <2>2, <2>3, <1>1
<1>8. Msgs(q) \subseteq Msgs(s)
  <2> SUFFICES ASSUME NEW i \in Msgs(q) PROVE i \in Msgs(s)
    OBVIOUS
  <2>1. PICK k \in 1..Len(q) : q[k].type \in Multiplexed /\ q[k].msg = i
    BY MsgsFacts
  <2>2. k \in 1..Len(s) /\ s[k] = q[k]
    BY <1>1
  <2> QED
    BY <2>1, <2>2, MsgsFacts
<1>9. ASSUME NEW i \in Msgs(s)
      PROVE  i \in Msgs(q) \/ (c.type \in Multiplexed /\ i = c.msg)
  <2>1. PICK k \in 1..Len(s) : s[k].type \in Multiplexed /\ s[k].msg = i
    BY MsgsFacts
  <2>2. CASE k \in 1..Len(q)
    BY <2>1, <2>2, <1>1, MsgsFacts
  <2>3. CASE k = Len(q) + 1
    BY <2>1, <2>3, <1>1
  <2> QED
    BY <2>2, <2>3, <1>1
<1> QED
  BY <1>1, <1>3, <1>4, <1>5, <1>7, <1>8, <1>9 DEF s

\* A prefix of a wire, as DestroyOvertakes leaves it.
LEMMA PrefixFacts ==
    ASSUME NEW S, NEW q \in Seq(S), NEW m \in Nat, m <= Len(q)
    PROVE  /\ SubSeq(q, 1, m) \in Seq(S)
           /\ Len(SubSeq(q, 1, m)) = m
           /\ \A k \in 1..m : SubSeq(q, 1, m)[k] = q[k]
<1>1. \A k \in 1..m : q[k] \in S
  BY SeqElement
<1> QED
  BY <1>1

\* A DESTROY overtaking the cell before it.
LEMMA Overtake ==
    ASSUME NEW q \in Seq(Cell), NEW r \in Nat, NEW n \in Nat,
           Len(q) > 1, Chained(q, r, n), Unique(q), Ended(q),
           NEW s, s = Append(SubSeq(q, 1, Len(q) - 2), q[Len(q)])
    PROVE  /\ s \in Seq(Cell)
           /\ Chained(s, r, n)
           /\ Ended(s)
           /\ Unique(s)
           /\ Msgs(s) \subseteq Msgs(q)
<1> DEFINE p == SubSeq(q, 1, Len(q) - 2)
<1>1. /\ Len(q) \in Nat
      /\ p \in Seq(Cell)
      /\ Len(p) = Len(q) - 2
      /\ \A k \in 1..Len(q) - 2 : p[k] = q[k]
      /\ q[Len(q)] \in Cell
  <2>1. Len(q) \in Nat /\ q[Len(q)] \in Cell
    BY SeqElement
  <2>2. Len(q) - 2 \in Nat /\ Len(q) - 2 <= Len(q)
    BY <2>1
  <2> QED
    BY <2>1, <2>2, PrefixFacts
<1> HIDE DEF p
<1>2. /\ s \in Seq(Cell)
      /\ Len(s) = Len(q) - 1
      /\ \A k \in 1..Len(q) - 2 : s[k] = q[k]
      /\ s[Len(q) - 1] = q[Len(q)]
  <2>1. s = Append(p, q[Len(q)])
    BY DEF p
  <2> QED
    BY <2>1, <1>1
<1>3. q[Len(q)].type = "destroy"
  BY DEF Ended
<1>4. \A k \in 1..Len(s) : k # Len(s) => k \in 1..Len(q) - 2 /\ k \in 1..Len(q)
  BY <1>1, <1>2
<1>5. Chained(s, r, n)
  <2> SUFFICES ASSUME NEW k \in 1..Len(s)
               PROVE  /\ s[k].type = "destroy" => k = Len(s)
                      /\ s[k].type # "destroy" =>
                           s[k].abs = SeqAfter(s, r, k - 1) + Advance(s[k])
                      /\ s[k].type \in Multiplexed =>
                           s[k].msg = s[k].abs /\ s[k].msg <= n
    BY DEF Chained
  <2>1. CASE k = Len(s)
    BY <2>1, <1>1, <1>2, <1>3 DEF Multiplexed
  <2>2. CASE k # Len(s)
    <3>1. k \in 1..Len(q) /\ s[k] = q[k] /\ k # Len(q)
      BY <2>2, <1>1, <1>2, <1>4
    <3>2. SeqAfter(s, r, k - 1) = SeqAfter(q, r, k - 1)
      <4>1. CASE k = 1
        BY <4>1 DEF SeqAfter
      <4>2. CASE k # 1
        <5>1. k - 1 \in 1..Len(q) - 2 /\ k - 1 # 0
          BY <4>2, <2>2, <1>1, <1>2
        <5> QED
          BY <5>1, <1>2 DEF SeqAfter
      <4> QED
        BY <4>1, <4>2
    <3> QED
      BY <3>1, <3>2 DEF Chained
  <2> QED
    BY <2>1, <2>2
<1>6. Ended(s)
  <2>1. s # <<>> /\ s[Len(s)] = q[Len(q)]
    BY <1>1, <1>2, SeqLength
  <2> QED
    BY <2>1, <1>3 DEF Ended
<1>7. \A k \in 1..Len(s) : s[k].type \in Multiplexed =>
                             k \in 1..Len(q) /\ s[k] = q[k]
  BY <1>1, <1>2, <1>3, <1>4 DEF Multiplexed
<1>8. Unique(s)
  BY <1>7 DEF Unique
<1>9. Msgs(s) \subseteq Msgs(q)
  <2> SUFFICES ASSUME NEW i \in Msgs(s) PROVE i \in Msgs(q)
    OBVIOUS
  <2>1. PICK k \in 1..Len(s) : s[k].type \in Multiplexed /\ s[k].msg = i
    BY MsgsFacts
  <2> QED
    BY <2>1, <1>7, MsgsFacts
<1> QED
  BY <1>2, <1>5, <1>6, <1>8, <1>9

-----------------------------------------------------------------------------
(* The invariant, one way (a direction of a leg) at a time: cells q, the   *)
(* receiver's number r, n messages submitted, the sender's number s; up    *)
(* says that the receiver has the leg.                                     *)

Way(q, r, n, s, up) ==
    /\ q \in Seq(Cell)
    /\ Chained(q, r, n)
    /\ Unique(q)
    /\ up /\ ~Ended(q) => s = SeqAfter(q, r, Len(q))
    /\ ~up => q = <<>>

WaysInv ==
    \A e \in Ends, l \in Legs :
       Way(net[e][l], last_seq_recv[Peer(e)][l], Len(sent[e]),
           last_seq_sent[e][l], l \in legs[Peer(e)])

PlaceInv ==
    \A e \in Ends, l \in Legs : \A i \in Msgs(net[e][l]) :
       /\ i > last_seq_delivered[Peer(e)]
       /\ \A x \in ooo_q[Peer(e)] : x.seq # i
       /\ \A m \in Legs \ {l} : i \notin Msgs(net[e][m])

\* The invariant, its parts regrouped by wire (Way) for the steps below.
LEMMA Opened ==
    ASSUME IndInv
    PROVE  TypeOK /\ SenderInv /\ WaysInv /\ PlaceInv /\ QueueInv /\ InOrder
<1>1. WaysInv
  <2> SUFFICES ASSUME NEW e \in Ends, NEW l \in Legs
               PROVE  Way(net[e][l], last_seq_recv[Peer(e)][l], Len(sent[e]),
                          last_seq_sent[e][l], l \in legs[Peer(e)])
    BY DEF WaysInv
  <2>1. net[e][l] \in Seq(Cell)
    BY DEF IndInv, TypeOK
  <2> QED
    BY <2>1 DEF IndInv, ChainInv, OnePlaceInv, Way
<1>2. PlaceInv
  BY DEF IndInv, OnePlaceInv, PlaceInv
<1> QED
  BY <1>1, <1>2 DEF IndInv

\* The regrouped parts give the invariant back.
LEMMA Closed ==
    ASSUME TypeOK', SenderInv', WaysInv', PlaceInv', QueueInv', InOrder'
    PROVE  IndInv'
<1>1. ChainInv'
  BY DEF WaysInv, Way, ChainInv
<1>2. OnePlaceInv'
  BY DEF WaysInv, Way, PlaceInv, OnePlaceInv
<1> QED
  BY <1>1, <1>2 DEF IndInv

\* Taking a cell from a wire (conflux_process_switch_command, RecvMsg and the
\* like) preserves what the invariant says of it.
LEMMA WayTake ==
    ASSUME NEW q, NEW r \in Nat, NEW n \in Nat, NEW s, Way(q, r, n, s, TRUE),
           q # <<>>, Head(q).type # "destroy"
    PROVE  /\ Way(Tail(q), r + Advance(Head(q)), n, s, TRUE)
           /\ Msgs(Tail(q)) \subseteq Msgs(q)
           /\ Head(q).type \in Multiplexed =>
                /\ Head(q).msg = r + 1 /\ r + 1 <= n
                /\ r + 1 \in Msgs(q)
                /\ r + 1 \notin Msgs(Tail(q))
<1>1. q \in Seq(Cell) /\ Chained(q, r, n) /\ Unique(q) /\ Head(q) = q[1]
  BY DEF Way
<1>2. Head(q).type \in Multiplexed => Advance(Head(q)) = 1
  BY DEF Advance, Multiplexed
<1>3. q[1].abs = r + Advance(Head(q))
  BY <1>1, TakeCell
<1> QED
  BY <1>1, <1>2, <1>3, TakeCell DEF Way

\* More messages submitted elsewhere do not disturb a wire.
LEMMA WayMore ==
    ASSUME NEW q, NEW r \in Nat, NEW n \in Nat, NEW s, NEW up,
           NEW n2 \in Nat, n <= n2, Way(q, r, n, s, up)
    PROVE  Way(q, r, n2, s, up)
<1>1. \A k \in 1..Len(q) : q[k].msg \in Nat
  <2>1. \A k \in 1..Len(q) : q[k] \in Cell
    BY SeqElement DEF Way
  <2> QED
    BY <2>1 DEF Cell
<1>2. Chained(q, r, n2)
  BY <1>1 DEF Way, Chained
<1> QED
  BY <1>2 DEF Way

\* Sending a control cell that carries no message.
LEMMA WayCtl ==
    ASSUME NEW q, NEW r \in Nat, NEW n \in Nat, NEW s \in Nat,
           NEW t \in {"sendme", "destroy"}, Way(q, r, n, s, TRUE), ~Ended(q)
    PROVE  /\ Way(q \o <<CtlCell(t, s)>>, r, n, s, TRUE)
           /\ Msgs(q \o <<CtlCell(t, s)>>) \subseteq Msgs(q)
<1> DEFINE c == CtlCell(t, s)
<1>1. c \in Cell /\ c.type = t /\ c.abs = s
  BY DEF CtlCell, Cell, CellTypes
<1>2. Advance(c) = 0 /\ c.type \notin Multiplexed
  BY <1>1 DEF Advance, Multiplexed
<1>3. s = SeqAfter(q, r, Len(q))
  BY DEF Way
<1> HIDE DEF c
<1>4. c.type # "destroy" => c.abs = SeqAfter(q, r, Len(q)) + Advance(c)
  BY <1>1, <1>2, <1>3
<1>5. q \in Seq(Cell) /\ Chained(q, r, n) /\ Unique(q) /\ n <= n
  BY DEF Way
<1>6. /\ q \o <<c>> \in Seq(Cell)
      /\ Chained(q \o <<c>>, r, n)
      /\ SeqAfter(q \o <<c>>, r, Len(q \o <<c>>)) = c.abs
      /\ Unique(q \o <<c>>)
      /\ \A i \in Msgs(q \o <<c>>) :
           i \in Msgs(q) \/ (c.type \in Multiplexed /\ i = c.msg)
  BY <1>1, <1>2, <1>4, <1>5, AddCell
<1>7. Way(q \o <<c>>, r, n, s, TRUE)
  BY <1>1, <1>6 DEF Way
<1>8. Msgs(q \o <<c>>) \subseteq Msgs(q)
  BY <1>2, <1>6
<1> QED
  BY <1>7, <1>8 DEF c

\* The same for a way of the current state, which may be closed.
LEMMA PutCtl ==
    ASSUME TypeOK, WaysInv, NEW x \in Ends, NEW m \in Legs,
           NEW t \in {"sendme", "destroy"}, NEW q,
           q = NetPut(x, m, <<CtlCell(t, last_seq_sent[x][m])>>)
    PROVE  /\ Way(q, last_seq_recv[Peer(x)][m], Len(sent[x]),
                  last_seq_sent[x][m], m \in legs[Peer(x)])
           /\ Msgs(q) \subseteq Msgs(net[x][m])
<1> DEFINE p == net[x][m]
           r == last_seq_recv[Peer(x)][m]
           n == Len(sent[x])
           s == last_seq_sent[x][m]
<1>1. Way(p, r, n, s, m \in legs[Peer(x)])
  BY DEF WaysInv
<1>2. r \in Nat /\ n \in Nat /\ s \in Nat
  BY PeerFacts DEF TypeOK
<1>3. CASE m \notin legs[Peer(x)] \/ Ended(p)
  BY <1>1, <1>3 DEF NetPut
<1>4. CASE m \in legs[Peer(x)] /\ ~Ended(p)
  <2>1. q = p \o <<CtlCell(t, s)>>
    BY <1>4 DEF NetPut
  <2> HIDE DEF p, r, n, s
  <2>2. Way(p, r, n, s, TRUE)
    BY <1>1, <1>4 DEF Way
  <2>3. /\ Way(p \o <<CtlCell(t, s)>>, r, n, s, TRUE)
        /\ Msgs(p \o <<CtlCell(t, s)>>) \subseteq Msgs(p)
    BY <1>2, <1>4, <2>2, WayCtl
  <2>4. Way(q, r, n, s, m \in legs[Peer(x)])
    BY <1>4, <2>1, <2>3 DEF Way
  <2> QED
    BY <2>1, <2>3, <2>4 DEF p, r, n, s
<1> QED
  BY <1>3, <1>4

\* Two cells sent together are sent one after the other.
LEMMA TwoCells ==
    ASSUME NEW q \in Seq(Cell), NEW a \in Cell, NEW b \in Cell
    PROVE  q \o <<a, b>> = (q \o <<a>>) \o <<b>>
<1> DEFINE u == <<a>>
           v == <<b>>
           w == <<a, b>>
<1>1. u \in Seq(Cell) /\ Len(u) = 1 /\ u[1] = a
  OBVIOUS
<1>2. v \in Seq(Cell) /\ Len(v) = 1 /\ v[1] = b
  OBVIOUS
<1>3. w \in Seq(Cell) /\ Len(w) = 2 /\ w[1] = a /\ w[2] = b
  OBVIOUS
<1> HIDE DEF u, v, w
<1>4. /\ u \o v \in Seq(Cell) /\ Len(u \o v) = 2
      /\ (u \o v)[1] = a /\ (u \o v)[2] = b
  BY <1>1, <1>2, SeqConcat
<1>5. w = u \o v
  <2>1. \A i \in 1..Len(w) : w[i] = (u \o v)[i]
    BY <1>3, <1>4
  <2> QED
    BY <1>3, <1>4, <2>1
<1> QED
  BY <1>1, <1>2, <1>5 DEF u, v, w

\* A SWITCH brings the receiver's number up to the sender's n.
LEMMA WaySwitch ==
    ASSUME NEW q, NEW r \in Nat, NEW n \in Nat, NEW s \in Nat, s <= n,
           Way(q, r, n, s, TRUE), ~Ended(q),
           NEW p, p = q \o <<SwitchCell(n - s, n)>>
    PROVE  /\ Way(p, r, n, n, TRUE)
           /\ ~Ended(p)
           /\ Msgs(p) \subseteq Msgs(q)
<1> DEFINE c == SwitchCell(n - s, n)
<1>1. c \in Cell /\ c.type = "switch" /\ c.abs = n /\ c.rel = n - s
  BY DEF SwitchCell, Cell, CellTypes
<1>2. Advance(c) = n - s /\ c.type \notin Multiplexed
  BY <1>1 DEF Advance, Multiplexed
<1>3. s = SeqAfter(q, r, Len(q)) /\ p = q \o <<c>>
  BY DEF Way
<1> HIDE DEF c
<1>4. c.abs = SeqAfter(q, r, Len(q)) + Advance(c)
  BY <1>1, <1>2, <1>3
<1>5. q \in Seq(Cell) /\ Chained(q, r, n) /\ Unique(q) /\ n <= n
  BY DEF Way
<1>6. /\ q \o <<c>> \in Seq(Cell)
      /\ Chained(q \o <<c>>, r, n)
      /\ SeqAfter(q \o <<c>>, r, Len(q \o <<c>>)) = c.abs
      /\ Ended(q \o <<c>>) <=> c.type = "destroy"
      /\ Unique(q \o <<c>>)
      /\ \A i \in Msgs(q \o <<c>>) :
           i \in Msgs(q) \/ (c.type \in Multiplexed /\ i = c.msg)
  BY <1>1, <1>2, <1>3, <1>4, <1>5, AddCell
<1>7. Way(p, r, n, n, TRUE)
  BY <1>1, <1>3, <1>6 DEF Way
<1> QED
  BY <1>1, <1>2, <1>3, <1>6, <1>7

\* Message n + 1, sent on a leg whose number is n.
LEMMA WayMux ==
    ASSUME NEW q, NEW r \in Nat, NEW n \in Nat, NEW k \in Multiplexed,
           Way(q, r, n, n, TRUE), ~Ended(q),
           NEW p, p = q \o <<MuxCell(k, n + 1, n + 1)>>
    PROVE  /\ Way(p, r, n + 1, n + 1, TRUE)
           /\ Msgs(p) \subseteq Msgs(q) \cup {n + 1}
<1> DEFINE c == MuxCell(k, n + 1, n + 1)
<1>1. c \in Cell /\ c.type = k /\ c.abs = n + 1 /\ c.msg = n + 1
  BY DEF MuxCell, Cell, CellTypes
<1>2. Advance(c) = 1 /\ c.type # "destroy"
  BY <1>1 DEF Advance, Multiplexed
<1>3. n = SeqAfter(q, r, Len(q)) /\ p = q \o <<c>>
  BY DEF Way
<1> DEFINE n2 == n + 1
<1> HIDE DEF c
<1>4. c.abs = SeqAfter(q, r, Len(q)) + Advance(c) /\ n < c.msg /\ c.msg = c.abs
      /\ c \in Cell
  BY <1>1, <1>2, <1>3
<1>5. q \in Seq(Cell) /\ Chained(q, r, n) /\ Unique(q) /\ n2 \in Nat
      /\ n <= n2 /\ c.msg <= n2
  BY <1>1 DEF Way
<1>6. /\ q \o <<c>> \in Seq(Cell)
      /\ Chained(q \o <<c>>, r, n2)
      /\ SeqAfter(q \o <<c>>, r, Len(q \o <<c>>)) = c.abs
      /\ Unique(q \o <<c>>)
      /\ \A i \in Msgs(q \o <<c>>) :
           i \in Msgs(q) \/ (c.type \in Multiplexed /\ i = c.msg)
  <2> HIDE DEF n2
  <2>1. c.type # "destroy" => c.abs = SeqAfter(q, r, Len(q)) + Advance(c)
    BY <1>4
  <2>2. c.type \in Multiplexed => c.msg = c.abs /\ n < c.msg /\ c.msg <= n2
    BY <1>4, <1>5
  <2> QED
    BY <1>4, <1>5, <2>1, <2>2, AddCell
<1>7. Way(p, r, n + 1, n + 1, TRUE)
  BY <1>1, <1>3, <1>6 DEF Way
<1>8. Msgs(p) \subseteq Msgs(q) \cup {n + 1}
  BY <1>1, <1>3, <1>6
<1> QED
  BY <1>7, <1>8

-----------------------------------------------------------------------------
(* Typing. *)

\* NetPut yields a sequence of cells.
LEMMA NetPutType ==
    ASSUME TypeOK, NEW e \in Ends, NEW l \in Legs, NEW cs \in Seq(Cell)
    PROVE  NetPut(e, l, cs) \in Seq(Cell)
<1>1. net[e][l] \in Seq(Cell)
  BY DEF TypeOK
<1>2. net[e][l] \o cs \in Seq(Cell)
  BY <1>1
<1> QED
  BY <1>1, <1>2 DEF NetPut

\* The constructors of cells build cells.
LEMMA CellFacts ==
    /\ \A k \in Multiplexed, m \in Nat, a \in Nat : MuxCell(k, m, a) \in Cell
    /\ \A r \in Nat, a \in Nat : SwitchCell(r, a) \in Cell
    /\ \A t \in {"sendme", "destroy", "linked_ack"}, a \in Nat :
         CtlCell(t, a) \in Cell
BY DEF MuxCell, SwitchCell, CtlCell, Cell, CellTypes

-----------------------------------------------------------------------------
(* Sending. *)

\* The legs the scheduler may choose are legs of the set.
LEMMA ChosenLegs ==
    ASSUME TypeOK, SenderInv, NEW e \in Ends, legs[e] # {}
    PROVE  /\ CurrentLeg(e) \subseteq legs[e]
           /\ conflux_pick_first_leg(e) \subseteq legs[e]
           /\ conflux_decide_next_circ(e) \subseteq legs[e] \cup {NoLeg}
<1>1. \A S : LowestRtt(e, S) \subseteq S
  BY DEF LowestRtt
<1>2. conflux_pick_first_leg(e) \subseteq legs[e]
  BY <1>1 DEF conflux_pick_first_leg
<1>3. CurrentLeg(e) \subseteq legs[e]
  BY <1>2 DEF CurrentLeg, SenderInv
<1>4. conflux_decide_circ_minrtt(e) \subseteq legs[e] \cup {NoLeg}
  <2>1. LowestRtt(e, Measured(e, legs[e])) \subseteq legs[e]
    BY <1>1 DEF Measured
  <2> QED
    BY <2>1 DEF conflux_decide_circ_minrtt
<1>5. conflux_decide_circ_lowrtt(e) \subseteq legs[e] \cup {NoLeg}
  <2>1. ASSUME NEW S \in SUBSET legs[e]
        PROVE  LowestRtt(e, Measured(e, S)) \subseteq legs[e]
    BY <1>1 DEF Measured
  <2> QED
    BY <2>1 DEF conflux_decide_circ_lowrtt
<1> QED
  BY <1>2, <1>3, <1>4, <1>5 DEF conflux_decide_next_circ

\* The numbers of a message that is sent: the current leg c has the number of
\* messages sent so far, and the leg t it goes down on is not ahead of it.
LEMMA SendFacts ==
    ASSUME TypeOK, SenderInv, NEW e \in Ends, NEW k \in Multiplexed, Send(e, k),
           NEW c \in CurrentLeg(e), NEW d \in conflux_decide_next_circ(e),
           NEW t, t = IF d = NoLeg THEN c ELSE d,
           NEW n, n = Len(sent[e])
    PROVE  /\ c \in legs[e] /\ t \in legs[e] /\ c \in Legs /\ t \in Legs
           /\ n \in Nat /\ n + 1 \in Nat
           /\ last_seq_sent[e][c] = n
           /\ last_seq_sent[e][t] \in Nat /\ last_seq_sent[e][t] <= n
           /\ n - last_seq_sent[e][t] \in Nat
<1>1. c \in legs[e] /\ t \in legs[e] /\ c \in Legs /\ t \in Legs
  <2>1. legs[e] # {} /\ legs[e] \subseteq Legs
    BY DEF Send, TypeOK
  <2>2. c \in legs[e] /\ d \in legs[e] \cup {NoLeg}
    BY <2>1, ChosenLegs
  <2> QED
    BY <2>1, <2>2
<1>2. n \in Nat /\ last_seq_sent[e][c] \in Nat /\ last_seq_sent[e][t] \in Nat
  BY <1>1 DEF TypeOK
<1>3. last_seq_sent[e][c] <= n /\ last_seq_sent[e][t] <= n
  BY <1>1 DEF SenderInv
<1>4. last_seq_sent[e][c] = n
  <2>1. CASE curr_leg[e] = NoLeg
    <3>1. n = 0
      BY <2>1 DEF SenderInv, Send
    <3> QED
      BY <1>2, <1>3, <3>1
  <2>2. CASE curr_leg[e] # NoLeg
    BY <2>2 DEF SenderInv, CurrentLeg
  <2> QED
    BY <2>1, <2>2
<1>5. n + 1 \in Nat /\ n - last_seq_sent[e][t] \in Nat
  BY <1>2, <1>3
<1> QED
  BY <1>1, <1>2, <1>3, <1>4, <1>5

\* relay_send_command_from_edge_ preserves the types: the SWITCH it sends
\* carries a natural number, because no leg is ahead of the current one.
LEMMA TypeSend ==
    ASSUME TypeOK, SenderInv, NEW e \in Ends, NEW k \in Multiplexed, Send(e, k)
    PROVE  TypeOK'
<1>1. PICK c \in CurrentLeg(e), n \in conflux_decide_next_circ(e) :
        LET t == IF n = NoLeg THEN c ELSE n
            seq == last_seq_sent[e][c] + 1
            switch == SwitchCell(last_seq_sent[e][c] - last_seq_sent[e][t],
                                 last_seq_sent[e][c])
            mux == MuxCell(k, Len(sent[e]) + 1, seq)
        IN  /\ net' = [net EXCEPT ![e][t] =
                 NetPut(e, t, IF t = c THEN <<mux>> ELSE <<switch, mux>>)]
            /\ curr_leg' = [curr_leg EXCEPT ![e] = t]
            /\ last_seq_sent' = [last_seq_sent EXCEPT ![e][t] = seq]
            /\ inflight' = IF k = "data"
                 THEN [inflight EXCEPT ![e][t] = @ + 1] ELSE inflight
  BY DEF Send, NextSeq, RelativeSeq
<1> DEFINE t == IF n = NoLeg THEN c ELSE n
           seq == last_seq_sent[e][c]
           switch == SwitchCell(seq - last_seq_sent[e][t], seq)
           mux == MuxCell(k, Len(sent[e]) + 1, seq + 1)
           cs == IF t = c THEN <<mux>> ELSE <<switch, mux>>
<1>2. c \in legs[e] /\ t \in legs[e] /\ c \in Legs /\ t \in Legs
  BY SendFacts
<1>3. /\ seq = Len(sent[e]) /\ Len(sent[e]) \in Nat /\ Len(sent[e]) + 1 \in Nat
      /\ Len(sent[e]) - last_seq_sent[e][t] \in Nat
  <2> HIDE DEF t
  <2> QED
    BY SendFacts DEF t
<1>4. mux \in Cell /\ switch \in Cell
  <2> HIDE DEF seq, t
  <2> QED
    BY <1>3, CellFacts
<1>5. cs \in Seq(Cell)
  <2> HIDE DEF mux, switch
  <2> QED
    BY <1>4
<1>6. NetPut(e, t, cs) \in Seq(Cell)
  <2> HIDE DEF cs, t
  <2> QED
    BY <1>2, <1>5, NetPutType
<1>7. /\ net' = [net EXCEPT ![e][t] = NetPut(e, t, cs)]
      /\ curr_leg' = [curr_leg EXCEPT ![e] = t]
      /\ last_seq_sent' = [last_seq_sent EXCEPT ![e][t] = seq + 1]
      /\ inflight' = IF k = "data"
           THEN [inflight EXCEPT ![e][t] = @ + 1] ELSE inflight
  BY <1>1
<1> HIDE DEF t, cs, mux, switch, seq
<1>8. net' \in [Ends -> [Legs -> Seq(Cell)]]
  BY <1>2, <1>6, <1>7 DEF TypeOK
<1>9. last_seq_sent' \in [Ends -> [Legs -> Nat]]
  BY <1>2, <1>3, <1>7 DEF TypeOK
<1>10. inflight' \in [Ends -> [Legs -> Int]]
  BY <1>2, <1>7 DEF TypeOK
<1>11. curr_leg' \in [Ends -> Legs \cup {NoLeg}]
  BY <1>2, <1>7 DEF TypeOK
<1>12. sent' \in [Ends -> Seq(Multiplexed)]
  BY DEF TypeOK, Send
<1> QED
  BY <1>8, <1>9, <1>10, <1>11, <1>12 DEF TypeOK, Send, oooVars

\* Sending message n + 1: the leg it goes on is brought up to date first when
\* it is not the current one.
LEMMA SendStep ==
    ASSUME IndInv, NEW e \in Ends, NEW k \in Multiplexed, Send(e, k)
    PROVE  IndInv'
<1>1. PICK c \in CurrentLeg(e), d \in conflux_decide_next_circ(e) :
        LET t == IF d = NoLeg THEN c ELSE d
            seq == last_seq_sent[e][c] + 1
            switch == SwitchCell(last_seq_sent[e][c] - last_seq_sent[e][t],
                                 last_seq_sent[e][c])
            mux == MuxCell(k, Len(sent[e]) + 1, seq)
        IN  /\ net' = [net EXCEPT ![e][t] =
                 NetPut(e, t, IF t = c THEN <<mux>> ELSE <<switch, mux>>)]
            /\ curr_leg' = [curr_leg EXCEPT ![e] = t]
            /\ last_seq_sent' = [last_seq_sent EXCEPT ![e][t] = seq]
  BY DEF Send, NextSeq, RelativeSeq
<1> DEFINE t == IF d = NoLeg THEN c ELSE d
           n == Len(sent[e])
           s == last_seq_sent[e][t]
           q == net[e][t]
           r == last_seq_recv[Peer(e)][t]
           switch == SwitchCell(n - s, n)
           mux == MuxCell(k, n + 1, n + 1)
           cs == IF t = c THEN <<mux>> ELSE <<switch, mux>>
<1>2. TypeOK /\ SenderInv /\ WaysInv /\ PlaceInv /\ QueueInv /\ InOrder
  BY Opened
<1>3. TypeOK'
  BY <1>2, TypeSend
<1>4. c \in legs[e] /\ t \in legs[e] /\ c \in Legs /\ t \in Legs
  BY <1>2, SendFacts
<1>5. Peer(e) \in Ends /\ Peer(e) # e
  BY PeerFacts
<1>6. /\ n \in Nat /\ n + 1 \in Nat /\ s \in Nat /\ n - s \in Nat
      /\ r \in Nat /\ q \in Seq(Cell)
  <2>1. n \in Nat /\ n + 1 \in Nat /\ s \in Nat /\ n - s \in Nat
    BY <1>2, SendFacts
  <2>2. r \in Nat /\ q \in Seq(Cell)
    <3> HIDE DEF t
    <3> QED
      BY <1>2, <1>4, <1>5 DEF TypeOK
  <2> QED
    BY <2>1, <2>2
<1>7. last_seq_sent[e][c] = n /\ s <= n
  BY <1>2, SendFacts
<1>8. /\ net' = [net EXCEPT ![e][t] = NetPut(e, t, cs)]
      /\ curr_leg' = [curr_leg EXCEPT ![e] = t]
      /\ last_seq_sent' = [last_seq_sent EXCEPT ![e][t] = n + 1]
  BY <1>1, <1>7
<1>9. /\ sent' = [sent EXCEPT ![e] = Append(@, k)]
      /\ UNCHANGED <<legs, last_seq_recv, last_seq_delivered, log, ooo_q>>
  BY DEF Send, oooVars
<1>10. Way(q, r, n, s, t \in legs[Peer(e)])
  BY <1>2, <1>4 DEF WaysInv
<1>11. ASSUME t \in legs[Peer(e)], ~Ended(q)
       PROVE  /\ Way(q \o cs, r, n + 1, n + 1, TRUE)
              /\ Msgs(q \o cs) \subseteq Msgs(q) \cup {n + 1}
  <2>1. Way(q, r, n, s, TRUE)
    BY <1>10, <1>11 DEF Way
  <2>2. CASE t = c
    <3>1. s = n /\ cs = <<MuxCell(k, n + 1, n + 1)>>
      BY <1>7, <2>2
    <3> HIDE DEF cs, q, r, n, s
    <3> QED
      BY <1>6, <1>11, <2>1, <3>1, WayMux
  <2>3. CASE t # c
    <3> DEFINE p == q \o <<SwitchCell(n - s, n)>>
    <3>1. /\ Way(p, r, n, n, TRUE)
          /\ ~Ended(p)
          /\ Msgs(p) \subseteq Msgs(q)
      <4>1. p = q \o <<SwitchCell(n - s, n)>>
        OBVIOUS
      <4> HIDE DEF p, q, r, n, s
      <4> QED
        BY <1>6, <1>7, <1>11, <2>1, <4>1, WaySwitch
    <3>2. q \o cs = p \o <<MuxCell(k, n + 1, n + 1)>>
      <4>1. switch \in Cell /\ mux \in Cell
        <5> HIDE DEF n, s
        <5> QED
          BY <1>6, CellFacts
      <4>2. cs = <<switch, mux>> /\ p = q \o <<switch>>
        BY <2>3
      <4> HIDE DEF cs, q, switch, mux, n, s, p
      <4>3. q \o <<switch, mux>> = (q \o <<switch>>) \o <<mux>>
        BY <1>6, <4>1, TwoCells
      <4> QED
        BY <4>2, <4>3 DEF mux
    <3> HIDE DEF p, cs, q, r, n, s
    <3>3. /\ Way(q \o cs, r, n + 1, n + 1, TRUE)
          /\ Msgs(q \o cs) \subseteq Msgs(p) \cup {n + 1}
      BY <1>6, <3>1, <3>2, WayMux
    <3> QED
      BY <3>1, <3>3
  <2> QED
    BY <2>2, <2>3
<1>12. /\ Way(NetPut(e, t, cs), r, n + 1, n + 1, t \in legs[Peer(e)])
       /\ Msgs(NetPut(e, t, cs)) \subseteq Msgs(q) \cup {n + 1}
  <2>1. CASE t \in legs[Peer(e)] /\ ~Ended(q)
    <3>1. NetPut(e, t, cs) = q \o cs
      BY <2>1 DEF NetPut
    <3> HIDE DEF cs, q, r, n, t
    <3> QED
      BY <1>11, <2>1, <3>1 DEF Way
  <2>2. CASE t \notin legs[Peer(e)] \/ Ended(q)
    <3>1. NetPut(e, t, cs) = q
      BY <2>2 DEF NetPut
    <3> HIDE DEF cs, q, r, n, t, s
    <3>2. n + 1 \in Nat /\ n <= n + 1
      BY <1>6
    <3>3. Way(q, r, n + 1, s, t \in legs[Peer(e)])
      BY <1>6, <1>10, <3>2, WayMore
    <3> QED
      BY <2>2, <3>1, <3>3 DEF Way
  <2> QED
    BY <2>1, <2>2
<1> HIDE DEF t, cs, s, mux, switch
<1>13. /\ \A x \in Ends : x # e => sent'[x] = sent[x]
       /\ Len(sent'[e]) = n + 1 /\ sent'[e] # <<>>
  BY <1>2, <1>9 DEF TypeOK
<1>14. \A x \in Ends : /\ Len(sent[x]) \in Nat /\ Len(sent'[x]) \in Nat
                       /\ Len(sent[x]) <= Len(sent'[x])
  <2> SUFFICES ASSUME NEW x \in Ends
               PROVE  /\ Len(sent[x]) \in Nat /\ Len(sent'[x]) \in Nat
                      /\ Len(sent[x]) <= Len(sent'[x])
    OBVIOUS
  <2>1. Len(sent[x]) \in Nat /\ Len(sent'[x]) \in Nat
    BY <1>2, <1>3 DEF TypeOK
  <2> QED
    BY <1>13, <2>1
<1>15. WaysInv'
  <2> SUFFICES ASSUME NEW x \in Ends, NEW m \in Legs
               PROVE  Way(net'[x][m], last_seq_recv[Peer(x)][m], Len(sent'[x]),
                          last_seq_sent'[x][m], m \in legs[Peer(x)])
    BY <1>9 DEF WaysInv
  <2>1. CASE x = e /\ m = t
    <3>1. net'[x][m] = NetPut(e, t, cs) /\ last_seq_sent'[x][m] = n + 1
      BY <1>2, <1>4, <1>8, <2>1 DEF TypeOK
    <3> QED
      BY <1>12, <1>13, <2>1, <3>1
  <2>2. CASE ~(x = e /\ m = t)
    <3>1. net'[x][m] = net[x][m]
      BY <1>2, <1>4, <1>8, <2>2 DEF TypeOK
    <3>2. last_seq_sent'[x][m] = last_seq_sent[x][m]
      BY <1>2, <1>4, <1>8, <2>2 DEF TypeOK
    <3>3. Way(net[x][m], last_seq_recv[Peer(x)][m], Len(sent[x]),
              last_seq_sent[x][m], m \in legs[Peer(x)])
      BY <1>2 DEF WaysInv
    <3>4. last_seq_recv[Peer(x)][m] \in Nat
      BY <1>2, PeerFacts DEF TypeOK
    <3>5. Way(net[x][m], last_seq_recv[Peer(x)][m], Len(sent'[x]),
              last_seq_sent[x][m], m \in legs[Peer(x)])
      BY <1>14, <3>3, <3>4, WayMore
    <3> QED
      BY <3>1, <3>2, <3>5
  <2> QED
    BY <2>1, <2>2
<1>16. SenderInv'
  <2> SUFFICES ASSUME NEW x \in Ends
               PROVE  /\ curr_leg'[x] # NoLeg =>
                          /\ curr_leg'[x] \in legs[x]
                          /\ last_seq_sent'[x][curr_leg'[x]] = Len(sent'[x])
                      /\ curr_leg'[x] = NoLeg /\ legs[x] # {} => sent'[x] = <<>>
                      /\ \A l \in Legs : last_seq_sent'[x][l] <= Len(sent'[x])
    BY <1>9 DEF SenderInv
  <2>1. CASE x # e
    <3>1. /\ curr_leg'[x] = curr_leg[x] /\ last_seq_sent'[x] = last_seq_sent[x]
          /\ sent'[x] = sent[x]
      BY <1>2, <1>4, <1>8, <1>13, <2>1 DEF TypeOK
    <3> QED
      BY <1>2, <3>1 DEF SenderInv
  <2>2. CASE x = e
    <3>1. curr_leg'[x] = t /\ t # NoLeg
      BY <1>2, <1>4, <1>8, <2>2, LegsAssumption DEF TypeOK
    <3>2. last_seq_sent'[x] = [last_seq_sent[e] EXCEPT ![t] = n + 1]
      BY <1>2, <1>4, <1>8, <2>2 DEF TypeOK
    <3>3. last_seq_sent'[x][t] = n + 1
      BY <1>2, <1>4, <3>2 DEF TypeOK
    <3>4. ASSUME NEW l \in Legs PROVE last_seq_sent'[x][l] <= n + 1
      <4>1. CASE l = t
        BY <1>6, <3>3, <4>1
      <4>2. CASE l # t
        <5>1. last_seq_sent'[x][l] = last_seq_sent[e][l]
          BY <1>2, <3>2, <4>2 DEF TypeOK
        <5>2. last_seq_sent[e][l] <= n /\ last_seq_sent[e][l] \in Nat
          BY <1>2 DEF SenderInv, TypeOK
        <5> QED
          BY <1>6, <5>1, <5>2
      <4> QED
        BY <4>1, <4>2
    <3> QED
      BY <1>4, <1>13, <2>2, <3>1, <3>3, <3>4
  <2> QED
    BY <2>1, <2>2
<1>17. QueueInv'
  <2> SUFFICES ASSUME NEW x \in Ends, NEW m \in ooo_q[x]
               PROVE  /\ m.msg = m.seq
                      /\ m.seq > last_seq_delivered[x] + 1
                      /\ m.seq <= Len(sent'[Peer(x)])
    BY <1>9 DEF QueueInv
  <2>1. m.seq \in Nat
    BY <1>2 DEF TypeOK
  <2>2. Peer(x) \in Ends
    BY PeerFacts
  <2>3. m.seq <= Len(sent[Peer(x)])
    BY <1>2 DEF QueueInv
  <2>4. m.msg = m.seq /\ m.seq > last_seq_delivered[x] + 1
    BY <1>2 DEF QueueInv
  <2>5. Len(sent[Peer(x)]) \in Nat /\ Len(sent'[Peer(x)]) \in Nat
        /\ Len(sent[Peer(x)]) <= Len(sent'[Peer(x)])
    BY <1>14, <2>2
  <2> QED
    BY <2>1, <2>3, <2>4, <2>5
<1>18. InOrder'
  <2> SUFFICES ASSUME NEW x \in Ends
               PROVE  last_seq_delivered[x] <= Len(sent'[Peer(x)])
    BY <1>2, <1>9 DEF InOrder
  <2>1. last_seq_delivered[x] \in Nat /\ Peer(x) \in Ends
    BY <1>2, PeerFacts DEF TypeOK
  <2>2. last_seq_delivered[x] <= Len(sent[Peer(x)])
    BY <1>2 DEF InOrder
  <2>3. Len(sent[Peer(x)]) \in Nat /\ Len(sent'[Peer(x)]) \in Nat
        /\ Len(sent[Peer(x)]) <= Len(sent'[Peer(x)])
    BY <1>14, <2>1
  <2> QED
    BY <2>1, <2>2, <2>3
<1>19. PlaceInv'
  <2>1. ASSUME NEW x \in Ends, NEW m \in Legs
        PROVE  Msgs(net'[x][m]) \subseteq
                 Msgs(net[x][m]) \cup (IF x = e /\ m = t THEN {n + 1} ELSE {})
    <3>1. CASE x = e /\ m = t
      <4>1. net'[x][m] = NetPut(e, t, cs) /\ net[x][m] = q
        BY <1>2, <1>4, <1>8, <3>1 DEF TypeOK
      <4> QED
        BY <1>12, <3>1, <4>1
    <3>2. CASE ~(x = e /\ m = t)
      <4>1. net'[x][m] = net[x][m]
        BY <1>2, <1>4, <1>8, <3>2 DEF TypeOK
      <4> QED
        BY <3>2, <4>1
    <3> QED
      BY <3>1, <3>2
  <2>2. ASSUME NEW m \in Legs PROVE n + 1 \notin Msgs(net[e][m])
    <3> SUFFICES ASSUME n + 1 \in Msgs(net[e][m]) PROVE FALSE
      OBVIOUS
    <3>1. PICK i \in 1..Len(net[e][m]) :
            net[e][m][i].type \in Multiplexed /\ net[e][m][i].msg = n + 1
      BY MsgsFacts
    <3>2. Chained(net[e][m], last_seq_recv[Peer(e)][m], n)
      BY <1>2 DEF WaysInv, Way
    <3>3. n + 1 <= n
      BY <3>1, <3>2 DEF Chained
    <3> QED
      BY <1>6, <3>3
  <2>3. n + 1 > last_seq_delivered[Peer(e)]
    <3>1. last_seq_delivered[Peer(e)] <= n /\ last_seq_delivered[Peer(e)] \in Nat
      BY <1>2, PeerFacts DEF InOrder, TypeOK
    <3> QED
      BY <1>6, <3>1
  <2>4. \A y \in ooo_q[Peer(e)] : y.seq # n + 1
    <3> SUFFICES ASSUME NEW y \in ooo_q[Peer(e)] PROVE y.seq # n + 1
      OBVIOUS
    <3>1. y.seq <= n /\ y.seq \in Nat
      BY <1>2, PeerFacts DEF QueueInv, TypeOK
    <3> QED
      BY <1>6, <3>1
  <2> HIDE DEF n
  <2> SUFFICES ASSUME NEW x \in Ends, NEW m \in Legs, NEW i \in Msgs(net'[x][m])
               PROVE  /\ i > last_seq_delivered[Peer(x)]
                      /\ \A y \in ooo_q[Peer(x)] : y.seq # i
                      /\ \A j \in Legs \ {m} : i \notin Msgs(net'[x][j])
    BY <1>9 DEF PlaceInv
  <2>5. CASE x = e /\ m = t /\ i = n + 1
    BY <2>1, <2>2, <2>3, <2>4, <2>5
  <2>6. CASE ~(x = e /\ m = t /\ i = n + 1)
    <3>1. i \in Msgs(net[x][m])
      BY <2>1, <2>6
    <3>2. x = e => i # n + 1
      BY <2>2, <3>1
    <3> QED
      BY <1>2, <2>1, <3>1, <3>2 DEF PlaceInv
  <2> QED
    BY <2>5, <2>6
<1> QED
  BY <1>3, <1>15, <1>16, <1>17, <1>18, <1>19, Closed

-----------------------------------------------------------------------------
(* Receiving: connection_edge_process_relay_cell. *)

\* Taking the head of a wire leaves a sequence of cells.
LEMMA TypeConsume ==
    ASSUME TypeOK, NEW e \in Ends, NEW l \in Legs, NEW types,
           Arrives(e, l, types), Consume(e, l)
    PROVE  /\ net' \in [Ends -> [Legs -> Seq(Cell)]]
           /\ Head(Incoming(e, l)) \in Cell
           /\ Incoming(e, l) \in Seq(Cell)
           /\ Tail(Incoming(e, l)) \in Seq(Cell)
<1>1. Incoming(e, l) \in Seq(Cell) /\ Incoming(e, l) # <<>> /\ Peer(e) \in Ends
  BY PeerFacts DEF Incoming, TypeOK, Arrives
<1>2. Head(Incoming(e, l)) \in Cell /\ Tail(Incoming(e, l)) \in Seq(Cell)
  BY <1>1
<1> QED
  BY <1>1, <1>2 DEF TypeOK, Consume, Incoming

\* connection_edge_process_relay_cell preserves the types.
LEMMA TypeRecvMsg ==
    ASSUME TypeOK, NEW e \in Ends, NEW l \in Legs, RecvMsg(e, l)
    PROVE  TypeOK'
<1> DEFINE c == Head(Incoming(e, l))
           seq == last_seq_recv[e][l] + 1
           ack == c.type = "data" /\ SendmeDue(e, l)
           put == NetPut(e, l, <<CtlCell("sendme", last_seq_sent[e][l])>>)
<1>1. Peer(e) \in Ends /\ Peer(e) # e
  BY PeerFacts
<1>2. Incoming(e, l) \in Seq(Cell) /\ Incoming(e, l) # <<>>
  <2>1. net \in [Ends -> [Legs -> Seq(Cell)]]
    BY DEF TypeOK
  <2>2. Incoming(e, l) # <<>>
    BY DEF RecvMsg, Arrives
  <2> QED
    BY <1>1, <2>1, <2>2 DEF Incoming
<1>3. c \in Cell /\ Tail(Incoming(e, l)) \in Seq(Cell)
  BY <1>2
<1>4. c.msg \in Nat /\ seq \in Nat
  <2>1. c.msg \in Nat
    <3> HIDE DEF c
    <3> QED
      BY <1>3 DEF Cell
  <2>2. seq \in Nat
    BY DEF TypeOK
  <2> QED
    BY <2>1, <2>2
<1>5. put \in Seq(Cell)
  <2>1. CtlCell("sendme", last_seq_sent[e][l]) \in Cell
    BY CellFacts DEF TypeOK
  <2>2. <<CtlCell("sendme", last_seq_sent[e][l])>> \in Seq(Cell)
    BY <2>1
  <2> QED
    BY <2>2, NetPutType
<1>6. net' = [net EXCEPT ![Peer(e)][l] = Tail(@), ![e][l] = IF ack THEN put ELSE @]
  BY DEF RecvMsg
<1>7. net' \in [Ends -> [Legs -> Seq(Cell)]]
  <2> HIDE DEF ack, put, c
  <2> QED
    BY <1>1, <1>3, <1>5, <1>6 DEF TypeOK, Incoming
<1>8. unacked' \in [Ends -> [Legs -> Nat]]
  <2>1. (unacked[e][l] + 1) % SendmeInc \in Nat
    BY WindowAssumption DEF TypeOK
  <2>2. unacked' = IF c.type # "data" THEN unacked
             ELSE [unacked EXCEPT ![e][l] = (unacked[e][l] + 1) % SendmeInc]
    BY DEF RecvMsg
  <2> QED
    BY <2>1, <2>2 DEF TypeOK
<1>9. last_seq_recv' \in [Ends -> [Legs -> Nat]]
  BY <1>4 DEF RecvMsg, TypeOK
<1>10. /\ last_seq_delivered' \in [Ends -> Nat]
       /\ ooo_q' \in [Ends -> SUBSET [seq : Nat, msg : Nat]]
       /\ total_ooo_q' \in [Ends -> Int]
       /\ log' \in [Ends -> Seq(Nat)]
  <2>1. ASSUME NEW n \in {seq} \cup {m.seq : m \in ooo_q[e]},
               DequeuesTo(seq, n, ooo_q[e]),
               last_seq_delivered' = [last_seq_delivered EXCEPT ![e] = n],
               log' = [log EXCEPT ![e] =
                         Append(@, c.msg) \o Run(seq, n, ooo_q[e])],
               ooo_q' = [ooo_q EXCEPT ![e] = {m \in @ : m.seq > n}],
               total_ooo_q' = [total_ooo_q EXCEPT ![e] = @ - (n - seq)]
        PROVE  <1>10!:
    <3>1. n \in Nat
      <4>1. \A m \in ooo_q[e] : m.seq \in Nat
        BY DEF TypeOK
      <4> HIDE DEF seq
      <4> QED
        BY <1>4, <4>1
    <3>2. Run(seq, n, ooo_q[e]) \in Seq(Nat)
      <4>1. \A j \in 1..(n - seq) : seq + j \in (seq + 1)..n
        BY <1>4, <3>1
      <4>2. \A j \in 1..(n - seq) : \E m \in ooo_q[e] : m.seq = seq + j
        BY <2>1, <4>1 DEF DequeuesTo
      <4>3. \A j \in 1..(n - seq) :
              (CHOOSE m \in ooo_q[e] : m.seq = seq + j) \in ooo_q[e]
        BY <4>2
      <4>4. \A m \in ooo_q[e] : m.msg \in Nat
        BY DEF TypeOK
      <4>5. Run(seq, n, ooo_q[e]) \in [1..(n - seq) -> Nat]
        BY <4>3, <4>4 DEF Run
      <4> QED
        BY <4>5, <3>1, <1>4
    <3>3. Append(log[e], c.msg) \in Seq(Nat)
      BY <1>4 DEF TypeOK
    <3>4. Append(log[e], c.msg) \o Run(seq, n, ooo_q[e]) \in Seq(Nat)
      BY <3>2, <3>3
    <3>5. log' \in [Ends -> Seq(Nat)]
      BY <3>4, <2>1 DEF TypeOK
    <3>6. last_seq_delivered' \in [Ends -> Nat]
      BY <3>1, <2>1 DEF TypeOK
    <3>7. ooo_q' \in [Ends -> SUBSET [seq : Nat, msg : Nat]]
      <4>1. {m \in ooo_q[e] : m.seq > n} \in SUBSET [seq : Nat, msg : Nat]
        BY DEF TypeOK
      <4> QED
        BY <4>1, <2>1 DEF TypeOK
    <3>8. total_ooo_q' \in [Ends -> Int]
      <4>1. total_ooo_q[e] - (n - seq) \in Int
        BY <3>1, <1>4 DEF TypeOK
      <4> QED
        BY <4>1, <2>1 DEF TypeOK
    <3> QED
      BY <3>5, <3>6, <3>7, <3>8
  <2>2. CASE /\ ooo_q' = [ooo_q EXCEPT ![e] =
                             @ \cup {[seq |-> seq, msg |-> c.msg]}]
             /\ total_ooo_q' = [total_ooo_q EXCEPT ![e] = @ + 1]
             /\ UNCHANGED <<last_seq_delivered, log>>
    <3>1. /\ ooo_q \in [Ends -> SUBSET [seq : Nat, msg : Nat]]
          /\ total_ooo_q \in [Ends -> Int]
          /\ last_seq_delivered \in [Ends -> Nat] /\ log \in [Ends -> Seq(Nat)]
      BY DEF TypeOK
    <3>2. ooo_q' \in [Ends -> SUBSET [seq : Nat, msg : Nat]]
      <4>1. ooo_q[e] \cup {[seq |-> seq, msg |-> c.msg]}
               \in SUBSET [seq : Nat, msg : Nat]
        BY <3>1, <1>4
      <4> QED
        BY <3>1, <4>1, <2>2
    <3>3. total_ooo_q' \in [Ends -> Int]
      BY <3>1, <2>2
    <3> QED
      BY <3>1, <3>2, <3>3, <2>2
  <2> QED
    BY <2>1, <2>2 DEF RecvMsg
<1> QED
  BY <1>7, <1>8, <1>9, <1>10 DEF TypeOK, RecvMsg

\* What the receiver finds at the head of a way, and what is left behind it.
LEMMA TakeWay ==
    ASSUME IndInv, NEW e \in Ends, NEW l \in Legs, NEW types,
           Arrives(e, l, types), "destroy" \notin types
    PROVE  /\ Way(Tail(Incoming(e, l)),
                  last_seq_recv[e][l] + Advance(Head(Incoming(e, l))),
                  Len(sent[Peer(e)]), last_seq_sent[Peer(e)][l], l \in legs[e])
           /\ Msgs(Tail(Incoming(e, l))) \subseteq Msgs(Incoming(e, l))
           /\ Head(Incoming(e, l)).type \in Multiplexed =>
                /\ Advance(Head(Incoming(e, l))) = 1
                /\ Head(Incoming(e, l)).msg = last_seq_recv[e][l] + 1
                /\ last_seq_recv[e][l] + 1 <= Len(sent[Peer(e)])
                /\ last_seq_recv[e][l] + 1 \in Msgs(Incoming(e, l))
                /\ last_seq_recv[e][l] + 1 \notin Msgs(Tail(Incoming(e, l)))
<1> DEFINE q == Incoming(e, l)
           r == last_seq_recv[e][l]
           n == Len(sent[Peer(e)])
           s == last_seq_sent[Peer(e)][l]
<1>1. TypeOK /\ WaysInv
  BY Opened
<1>2. Peer(e) \in Ends /\ Peer(Peer(e)) = e
  BY PeerFacts
<1>3. r \in Nat /\ n \in Nat
  BY <1>1, <1>2 DEF TypeOK
<1>4. q # <<>> /\ Head(q).type # "destroy" /\ l \in legs[e]
  BY DEF Arrives
<1>5. Way(q, r, n, s, l \in legs[e])
  BY <1>1, <1>2 DEF WaysInv, Incoming
<1> HIDE DEF q, r, n, s
<1>6. Way(q, r, n, s, TRUE)
  BY <1>4, <1>5 DEF Way
<1>7. /\ Way(Tail(q), r + Advance(Head(q)), n, s, TRUE)
      /\ Msgs(Tail(q)) \subseteq Msgs(q)
      /\ Head(q).type \in Multiplexed =>
                /\ Head(q).msg = r + 1 /\ r + 1 <= n
                /\ r + 1 \in Msgs(q)
                /\ r + 1 \notin Msgs(Tail(q))
  BY <1>3, <1>4, <1>6, WayTake
<1>8. Way(Tail(q), r + Advance(Head(q)), n, s, l \in legs[e])
  BY <1>4, <1>7 DEF Way
<1>9. Head(q).type \in Multiplexed => Advance(Head(q)) = 1
  BY DEF Advance, Multiplexed
<1> QED
  BY <1>7, <1>8, <1>9 DEF q, r, n, s

\* Two consecutive runs of numbers joined.
LEMMA JoinRuns ==
    ASSUME NEW L \in Seq(Nat), NEW R \in Seq(Nat),
           \A i \in 1..Len(L) : L[i] = i,
           \A j \in 1..Len(R) : R[j] = Len(L) + j
    PROVE  /\ Len(L \o R) = Len(L) + Len(R)
           /\ \A i \in 1..Len(L) + Len(R) : (L \o R)[i] = i
<1>1. Len(L) \in Nat /\ Len(R) \in Nat
  OBVIOUS
<1>2. Len(L \o R) = Len(L) + Len(R)
  OBVIOUS
<1>3. ASSUME NEW i \in 1..Len(L) + Len(R) PROVE (L \o R)[i] = i
  <2>1. CASE i <= Len(L)
    BY <2>1
  <2>2. CASE i > Len(L)
    <3>1. i - Len(L) \in 1..Len(R) /\ Len(L) + (i - Len(L)) = i
      BY <1>1, <2>2
    <3>2. (L \o R)[i] = R[i - Len(L)]
      BY <2>2
    <3> QED
      BY <3>1, <3>2
  <2> QED
    BY <1>1, <2>1, <2>2
<1> QED
  BY <1>2, <1>3

\* What the dequeue loop hands over continues a log of the first d messages.
LEMMA RunLog ==
    ASSUME NEW d \in Nat, NEW n \in Nat, d <= n,
           NEW S, \A m \in S : m.msg = m.seq, DequeuesTo(d, n, S)
    PROVE  /\ Run(d, n, S) \in Seq(Nat)
           /\ Len(Run(d, n, S)) = n - d
           /\ \A j \in 1..(n - d) : Run(d, n, S)[j] = d + j
<1>1. ASSUME NEW j \in 1..(n - d)
      PROVE  (CHOOSE m \in S : m.seq = d + j).msg = d + j
  <2>1. d + j \in (d + 1)..n
    OBVIOUS
  <2>2. \E m \in S : m.seq = d + j
    BY <2>1 DEF DequeuesTo
  <2> DEFINE x == CHOOSE m \in S : m.seq = d + j
  <2>3. x \in S /\ x.seq = d + j
    BY <2>2
  <2> QED
    BY <2>3
<1>2. Run(d, n, S) = [j \in 1..(n - d) |-> d + j]
  BY <1>1 DEF Run
<1>3. n - d \in Nat
  OBVIOUS
<1> QED
  BY <1>2, <1>3

\* Messages have numbers.
LEMMA MsgsNat ==
    ASSUME TypeOK, NEW x \in Ends, NEW m \in Legs
    PROVE  Msgs(net[x][m]) \subseteq Nat
<1>1. \A k \in 1..Len(net[x][m]) : net[x][m][k] \in Cell
  BY SeqElement DEF TypeOK
<1>2. \A k \in 1..Len(net[x][m]) : net[x][m][k].msg \in Nat
  BY <1>1 DEF Cell
<1> QED
  BY <1>2, MsgsFacts

\* A message arrives: it has the number its sender gave it, it was nowhere
\* else, and it is delivered with what it releases, or queued.
LEMMA RecvMsgStep ==
    ASSUME IndInv, NEW e \in Ends, NEW l \in Legs, RecvMsg(e, l)
    PROVE  IndInv'
<1> DEFINE P == Peer(e)
           q == Incoming(e, l)
           c == Head(q)
           seq == last_seq_recv[e][l] + 1
           d == last_seq_delivered[e]
           ack == c.type = "data" /\ SendmeDue(e, l)
           put == NetPut(e, l, <<CtlCell("sendme", last_seq_sent[e][l])>>)
<1>1. TypeOK /\ SenderInv /\ WaysInv /\ PlaceInv /\ QueueInv /\ InOrder
  BY Opened
<1>2. TypeOK'
  BY <1>1, TypeRecvMsg
<1>3. P \in Ends /\ P # e /\ Peer(P) = e
  BY PeerFacts
<1>4. Arrives(e, l, Multiplexed) /\ "destroy" \notin Multiplexed /\ c.type \in Multiplexed
  BY DEF RecvMsg, Multiplexed, Arrives
<1>5. /\ Way(Tail(q), seq, Len(sent[P]), last_seq_sent[P][l], l \in legs[e])
      /\ Msgs(Tail(q)) \subseteq Msgs(q)
      /\ c.msg = seq /\ seq <= Len(sent[P])
      /\ seq \in Msgs(q) /\ seq \notin Msgs(Tail(q))
  BY <1>4, TakeWay
<1>6. /\ seq \in Nat /\ d \in Nat /\ Len(sent[P]) \in Nat
  <2>1. /\ last_seq_recv \in [Ends -> [Legs -> Nat]]
        /\ last_seq_delivered \in [Ends -> Nat]
        /\ sent \in [Ends -> Seq(Multiplexed)]
    BY <1>1 DEF TypeOK
  <2> QED
    BY <2>1, <1>3
<1>7. /\ net' = [net EXCEPT ![P][l] = Tail(@), ![e][l] = IF ack THEN put ELSE @]
      /\ last_seq_recv' = [last_seq_recv EXCEPT ![e][l] = seq]
      /\ UNCHANGED <<legs, curr_leg, last_seq_sent, sent>>
  BY DEF RecvMsg
<1>8. /\ seq > d
      /\ \A y \in ooo_q[e] : y.seq # seq
      /\ \A m \in Legs \ {l} : seq \notin Msgs(net[P][m])
  <2>1. seq \in Msgs(net[P][l])
    BY <1>5 DEF Incoming
  <2> HIDE DEF P, seq
  <2> QED
    BY <1>1, <1>3, <2>1 DEF PlaceInv
<1>9. /\ Way(put, last_seq_recv[P][l], Len(sent[e]), last_seq_sent[e][l], l \in legs[P])
      /\ Msgs(put) \subseteq Msgs(net[e][l])
  BY <1>1, PutCtl
<1>10. q = net[P][l]
  BY DEF Incoming
<1> HIDE DEF P, q, c, seq, d, ack, put
<1>11. /\ net'[P][l] = Tail(q)
       /\ net'[e][l] = IF ack THEN put ELSE net[e][l]
       /\ \A x \in Ends, m \in Legs : m # l => net'[x][m] = net[x][m]
  BY <1>1, <1>3, <1>7, <1>10 DEF TypeOK
<1>12. /\ last_seq_recv'[e][l] = seq
       /\ \A x \in Ends, m \in Legs :
            x # e \/ m # l => last_seq_recv'[x][m] = last_seq_recv[x][m]
  BY <1>1, <1>7 DEF TypeOK
<1>13. ASSUME NEW x \in Ends, NEW m \in Legs
       PROVE  /\ Way(net'[x][m], last_seq_recv'[Peer(x)][m], Len(sent[x]),
                     last_seq_sent[x][m], m \in legs[Peer(x)])
              /\ Msgs(net'[x][m]) \subseteq Msgs(net[x][m])
  <2>1. Peer(x) \in Ends
    BY PeerFacts
  <2>2. CASE m # l
    <3>1. last_seq_recv'[Peer(x)][m] = last_seq_recv[Peer(x)][m]
          /\ net'[x][m] = net[x][m]
      BY <1>11, <1>12, <2>1, <2>2
    <3> QED
      BY <1>1, <3>1 DEF WaysInv
  <2>3. CASE m = l /\ x = P
    BY <1>3, <1>5, <1>10, <1>11, <1>12, <2>3
  <2>4. CASE m = l /\ x = e
    <3>1. last_seq_recv'[P][l] = last_seq_recv[P][l] /\ Peer(x) = P
      BY <1>3, <1>12, <2>4 DEF P
    <3>2. CASE ack
      BY <1>9, <1>11, <2>4, <3>1, <3>2
    <3>3. CASE ~ack
      <4>1. Way(net[e][l], last_seq_recv[Peer(e)][l], Len(sent[e]),
                last_seq_sent[e][l], l \in legs[Peer(e)])
        BY <1>1 DEF WaysInv
      <4> QED
        BY <4>1, <1>11, <2>4, <3>1, <3>3
    <3> QED
      BY <3>2, <3>3
  <2>5. x = P \/ x = e
    BY DEF P, Ends, Peer
  <2> QED
    BY <2>2, <2>3, <2>4, <2>5
<1>14. \A m \in Legs : seq \notin Msgs(net'[P][m])
  BY <1>3, <1>5, <1>8, <1>11
<1>15. WaysInv'
  BY <1>7, <1>13 DEF WaysInv
<1>16. SenderInv'
  BY <1>1, <1>7 DEF SenderInv
<1>17. PlaceInv' /\ QueueInv' /\ InOrder'
  <2>1. ASSUME seq = d + 1,
               NEW n \in {seq} \cup {m.seq : m \in ooo_q[e]},
               DequeuesTo(seq, n, ooo_q[e]),
               last_seq_delivered' = [last_seq_delivered EXCEPT ![e] = n],
               log' = [log EXCEPT ![e] =
                         Append(@, c.msg) \o Run(seq, n, ooo_q[e])],
               ooo_q' = [ooo_q EXCEPT ![e] = {m \in @ : m.seq > n}]
        PROVE  <1>17!:
    <3>1. ASSUME NEW y \in ooo_q[e]
          PROVE  /\ y.seq \in Nat /\ y.msg = y.seq /\ y.seq > seq
                 /\ y.seq <= Len(sent[P])
      <4>1. /\ y.seq \in Nat /\ y.msg = y.seq /\ y.seq > last_seq_delivered[e] + 1
            /\ y.seq <= Len(sent[Peer(e)])
        BY <1>1 DEF QueueInv, TypeOK
      <4> QED
        BY <4>1, <2>1 DEF P, d
    <3>2. n \in Nat /\ seq <= n /\ n <= Len(sent[P])
      <4>0. seq \in Nat /\ seq <= Len(sent[P]) /\ Len(sent[P]) \in Nat
        BY <1>5, <1>6
      <4> HIDE DEF seq, P
      <4>1. CASE n = seq
        BY <4>0, <4>1
      <4>2. CASE n \in {m.seq : m \in ooo_q[e]}
        <5>1. PICK m \in ooo_q[e] : n = m.seq
          BY <4>2
        <5> QED
          BY <5>1, <4>0, <3>1
      <4> QED
        BY <4>1, <4>2
    <3>3. /\ last_seq_delivered'[e] = n
          /\ last_seq_delivered'[P] = last_seq_delivered[P]
          /\ ooo_q'[e] = {m \in ooo_q[e] : m.seq > n}
          /\ ooo_q'[P] = ooo_q[P]
          /\ log'[e] = Append(log[e], seq) \o Run(seq, n, ooo_q[e])
          /\ log'[P] = log[P]
      BY <1>1, <1>3, <1>5, <2>1 DEF TypeOK
    <3>4. PlaceInv'
      <4> SUFFICES ASSUME NEW x \in Ends, NEW m \in Legs, NEW i \in Msgs(net'[x][m])
                   PROVE  /\ i > last_seq_delivered'[Peer(x)]
                          /\ \A y \in ooo_q'[Peer(x)] : y.seq # i
                          /\ \A j \in Legs \ {m} : i \notin Msgs(net'[x][j])
        BY DEF PlaceInv
      <4>1. /\ i \in Msgs(net[x][m]) /\ i \in Nat
            /\ i > last_seq_delivered[Peer(x)]
            /\ \A y \in ooo_q[Peer(x)] : y.seq # i
            /\ \A j \in Legs \ {m} : i \notin Msgs(net[x][j])
        BY <1>1, <1>13, MsgsNat DEF PlaceInv
      <4>2. \A j \in Legs \ {m} : i \notin Msgs(net'[x][j])
        BY <1>13, <4>1
      <4>3. CASE x = e
        <5>1. Peer(x) = P
          BY <4>3 DEF P
        <5> QED
          BY <3>3, <4>1, <4>2, <5>1
      <4>4. CASE x = P
        <5>1. Peer(x) = e /\ i # seq
          BY <1>3, <1>14, <4>4
        <5>2. i > d /\ i > seq
          <6>1. seq = d + 1 /\ seq \in Nat /\ d \in Nat
            BY <2>1, <1>6
          <6>2. i > d /\ i \in Nat
            BY <4>1, <5>1 DEF d
          <6> HIDE DEF seq, d
          <6> QED
            BY <5>1, <6>1, <6>2
        <5>3. i > n
          <6> SUFFICES ASSUME ~(i > n) PROVE FALSE
            OBVIOUS
          <6>1. i \in (seq + 1)..n
            BY <1>6, <3>2, <4>1, <5>2
          <6>2. \E y \in ooo_q[e] : y.seq = i
            BY <2>1, <6>1 DEF DequeuesTo
          <6> QED
            BY <4>1, <5>1, <6>2
        <5> QED
          BY <3>3, <4>1, <4>2, <5>1, <5>3
      <4>5. x = P \/ x = e
        BY DEF P, Ends, Peer
      <4> QED
        BY <4>3, <4>4, <4>5
    <3>5. QueueInv'
      <4> SUFFICES ASSUME NEW x \in Ends, NEW m \in ooo_q'[x]
                   PROVE  /\ m.msg = m.seq
                          /\ m.seq > last_seq_delivered'[x] + 1
                          /\ m.seq <= Len(sent[Peer(x)])
        BY <1>7 DEF QueueInv
      <4>1. CASE x = e
        <5>1. /\ m \in ooo_q[e] /\ m.seq > n
          BY <3>3, <4>1
        <5>2. m.seq # n + 1
          BY <2>1, <5>1 DEF DequeuesTo
        <5>3. /\ m.seq \in Nat /\ m.msg = m.seq /\ m.seq <= Len(sent[P])
          BY <3>1, <5>1
        <5>4. m.seq > n + 1
          BY <3>2, <5>1, <5>2, <5>3
        <5> QED
          BY <3>3, <4>1, <5>3, <5>4 DEF P
      <4>2. CASE x = P
        BY <1>1, <3>3, <4>2 DEF QueueInv
      <4>3. x = P \/ x = e
        BY DEF P, Ends, Peer
      <4> QED
        BY <4>1, <4>2, <4>3
    <3>6. InOrder'
      <4> DEFINE L == Append(log[e], seq)
      <4>1. /\ log[e] \in Seq(Nat) /\ Len(log[e]) = d
            /\ \A i \in 1..d : log[e][i] = i
        BY <1>1 DEF InOrder, TypeOK, d
      <4>2. /\ L \in Seq(Nat) /\ Len(L) = seq
            /\ \A i \in 1..seq : L[i] = i
        <5>1. seq = d + 1 /\ seq \in Nat /\ d \in Nat
          BY <2>1, <1>6
        <5> HIDE DEF seq, d
        <5> QED
          BY <4>1, <5>1
      <4>3. \A m \in ooo_q[e] : m.msg = m.seq
        BY <3>1
      <4> HIDE DEF L
      <4>4. /\ Len(L \o Run(seq, n, ooo_q[e])) = n
            /\ \A i \in 1..n : (L \o Run(seq, n, ooo_q[e]))[i] = i
        <5> DEFINE R == Run(seq, n, ooo_q[e])
        <5>1. /\ R \in Seq(Nat) /\ Len(R) = n - seq
              /\ \A j \in 1..(n - seq) : R[j] = seq + j
          <6>1. seq \in Nat /\ DequeuesTo(seq, n, ooo_q[e])
            BY <2>1, <1>6
          <6>2. n \in Nat /\ seq <= n
            BY <3>2
          <6> HIDE DEF seq
          <6> QED
            BY <4>3, <6>1, <6>2, RunLog
        <5> HIDE DEF R
        <5>2. Len(L) + Len(R) = n
          BY <1>6, <3>2, <4>2, <5>1
        <5>3. Len(L \o R) = n /\ \A i \in 1..n : (L \o R)[i] = i
          <6>1. /\ L \in Seq(Nat) /\ R \in Seq(Nat)
                /\ \A i \in 1..Len(L) : L[i] = i
                /\ \A j \in 1..Len(R) : R[j] = Len(L) + j
            BY <4>2, <5>1
          <6>2. /\ Len(L \o R) = Len(L) + Len(R)
                /\ \A i \in 1..Len(L) + Len(R) : (L \o R)[i] = i
            BY <6>1, JoinRuns
          <6> QED
            BY <5>2, <6>2
        <5> QED
          BY <5>3 DEF R
      <4>5. Len(log'[e]) = n /\ \A i \in 1..n : log'[e][i] = i
        BY <3>3, <4>4 DEF L
      <4> SUFFICES ASSUME NEW x \in Ends
                   PROVE  /\ Len(log'[x]) = last_seq_delivered'[x]
                          /\ last_seq_delivered'[x] <= Len(sent[Peer(x)])
                          /\ \A i \in 1..Len(log'[x]) : log'[x][i] = i
        BY <1>7 DEF InOrder
      <4>6. CASE x = e
        BY <3>2, <3>3, <4>5, <4>6 DEF P
      <4>7. CASE x = P
        BY <1>1, <3>3, <4>7 DEF InOrder
      <4>8. x = P \/ x = e
        BY DEF P, Ends, Peer
      <4> QED
        BY <4>6, <4>7, <4>8
    <3> QED
      BY <3>4, <3>5, <3>6
  <2>2. ASSUME seq > d + 1,
               ooo_q' = [ooo_q EXCEPT ![e] = @ \cup {[seq |-> seq, msg |-> c.msg]}],
               UNCHANGED <<last_seq_delivered, log>>
        PROVE  <1>17!:
    <3> DEFINE y0 == [seq |-> seq, msg |-> seq]
    <3>1. y0.seq = seq /\ y0.msg = seq
      OBVIOUS
    <3>2. ooo_q'[e] = ooo_q[e] \cup {y0} /\ ooo_q'[P] = ooo_q[P]
      BY <1>1, <1>3, <1>5, <2>2 DEF TypeOK
    <3> HIDE DEF y0
    <3>3. PlaceInv'
      <4> SUFFICES ASSUME NEW x \in Ends, NEW m \in Legs, NEW i \in Msgs(net'[x][m])
                   PROVE  /\ i > last_seq_delivered[Peer(x)]
                          /\ \A y \in ooo_q'[Peer(x)] : y.seq # i
                          /\ \A j \in Legs \ {m} : i \notin Msgs(net'[x][j])
        BY <2>2 DEF PlaceInv
      <4>1. /\ i \in Msgs(net[x][m])
            /\ i > last_seq_delivered[Peer(x)]
            /\ \A y \in ooo_q[Peer(x)] : y.seq # i
            /\ \A j \in Legs \ {m} : i \notin Msgs(net[x][j])
        BY <1>1, <1>13 DEF PlaceInv
      <4>2. \A j \in Legs \ {m} : i \notin Msgs(net'[x][j])
        BY <1>13, <4>1
      <4>3. CASE x = e
        <5>1. Peer(x) = P
          BY <4>3 DEF P
        <5> QED
          BY <3>2, <4>1, <4>2, <5>1
      <4>4. CASE x = P
        <5>1. Peer(x) = e /\ i # seq
          BY <1>3, <1>14, <4>4
        <5> QED
          BY <3>1, <3>2, <4>1, <4>2, <5>1
      <4>5. x = P \/ x = e
        BY DEF P, Ends, Peer
      <4> QED
        BY <4>3, <4>4, <4>5
    <3>4. QueueInv'
      <4> SUFFICES ASSUME NEW x \in Ends, NEW m \in ooo_q'[x]
                   PROVE  /\ m.msg = m.seq
                          /\ m.seq > last_seq_delivered[x] + 1
                          /\ m.seq <= Len(sent[Peer(x)])
        BY <1>7, <2>2 DEF QueueInv
      <4>1. CASE m \in ooo_q[x]
        BY <1>1, <4>1 DEF QueueInv
      <4>2. CASE x = e /\ m = y0
        BY <1>5, <2>2, <3>1, <4>2 DEF P, d
      <4>3. x = P \/ x = e
        BY DEF P, Ends, Peer
      <4> QED
        BY <3>2, <4>1, <4>2, <4>3
    <3>5. InOrder'
      BY <1>1, <1>7, <2>2 DEF InOrder
    <3> QED
      BY <3>3, <3>4, <3>5
  <2> QED
    BY <2>1, <2>2 DEF RecvMsg, seq, d, c, q
<1> QED
  BY <1>2, <1>15, <1>16, <1>17, Closed

================================================================================
