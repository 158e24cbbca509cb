--------------------------- MODULE ConfluxPool_proofs ---------------------------
(***************************************************************************)
(* The lifetime of conflux_t objects, for any set of circuits, any numbers *)
(* of legs and retries, and any end that shuts down.  The invariant says,  *)
(* for each end, who may still point to a conflux_t, and for each circuit, *)
(* how far its linking has come at the two ends.                           *)
(***************************************************************************)
EXTENDS ConfluxPool, TLAPS

\* A leaf is tried with Zenon, then with SMT, then with both for longer.
USE ZenonT(2), SMT, SMTT(30), Zenon

-----------------------------------------------------------------------------
(* Types, and who may still point to a conflux_t at each of the two ends. *)

States == {"none", "building", "open", "marked", "freed"}

\* A new conflux_t means that no set was ever launched: launch_new_set finds
\* no unlinked set.
LEMMA Fresh ==
    IndInv /\ status["client"][ClientCfx] = "new"
      => unlinked = NoObj /\ legs = {} /\ linked = {} /\ ~Referenced("client", ClientCfx)
BY ObjsAssumption DEF IndInv, SetInv, LivesWhileReferenced, Referenced, Ends, Objs, TypeOK

\* Adding circuits to the list of legs of one conflux_t.
LEMMA ExceptLegs ==
    ASSUME NEW f \in [Ends -> [Objs -> SUBSET Circs]], NEW e, NEW o,
           NEW C \in SUBSET Circs
    PROVE  [f EXCEPT ![e][o] = @ \cup C] \in [Ends -> [Objs -> SUBSET Circs]]
<1>1. e \in Ends => [f[e] EXCEPT ![o] = @ \cup C] \in [Objs -> SUBSET Circs]
    OBVIOUS
<1> QED
    BY <1>1

\* Every step keeps the types.
LEMMA TypeStep == IndInv /\ [Next]_vars => TypeOK'
<1> SUFFICES ASSUME IndInv, [Next]_vars PROVE TypeOK'
    OBVIOUS
<1>t. TypeOK
    BY DEF IndInv
<1>s. legs # {} => unlinked = ClientCfx
    BY DEF IndInv, SetInv
<1> USE <1>t DEF TypeOK, setVars, objVars
<1>e. "client" \in Ends /\ "exit" \in Ends /\ ClientCfx \in Objs
    BY DEF Ends, Objs
<1>m. MaxLaunch \in Nat
    BY LegsAssumption DEF MaxLaunch
<1>c. ASSUME NEW e \in Ends, NEW c \in Circs, NEW k \in Kinds, NEW s \in {0, 1}
      PROVE  Cell(e, c, k, s) \in Cells
    BY DEF Cell, Cells
<1>k. "LINK" \in Kinds /\ "LINKED" \in Kinds /\ "LINKED_ACK" \in Kinds /\ "DATA" \in Kinds
    BY DEF Kinds
<1>w. ASSUME NEW e, NEW C PROVE Without(e, C) \subseteq Cells
    BY DEF Without
\* A circuit closes.
<1>x. ASSUME NEW e \in Ends, NEW c \in Circs, conflux_circuit_has_closed(e, c)
      PROVE  TypeOK'
  <2>1. CASE unlinked_circuit_closed(c)
    <3>1. wire' \subseteq Cells
        BY <2>1, <1>w DEF unlinked_circuit_closed
    <3>2. CASE legs = {c}
      <4>1. /\ state' = [state EXCEPT !["client"][c] = "marked"]
            /\ legs' = {} /\ unlinked' = NoObj /\ linked' = linked \ {c}
            /\ status' = [status EXCEPT !["client"][unlinked] = "freed"]
            /\ UNCHANGED <<num_leg_launch, conflux, pool, cfx_legs, sent,
                           delivered, stopping>>
          BY <2>1, <3>2 DEF unlinked_circuit_closed
      <4>2. linked' \subseteq legs'
          BY <3>2, <4>1
      <4>3. status' \in [Ends -> [Objs -> {"new", "live", "freed"}]]
          BY <4>1
      <4> QED
          BY <3>1, <4>1, <4>2, <4>3
    <3>3. CASE legs # {c}
      <4>1. PICK r \in Launches(num_leg_launch) :
               /\ num_leg_launch' = r.launches
               /\ \/ /\ r.leg
                     /\ \E d \in Unused :
                           /\ state' = [state EXCEPT !["client"][c] = "marked",
                                                     !["client"][d] = "building"]
                           /\ legs' = (legs \ {c}) \cup {d}
                  \/ /\ ~r.leg
                     /\ state' = [state EXCEPT !["client"][c] = "marked"]
                     /\ legs' = legs \ {c}
          BY <2>1, <3>3 DEF unlinked_circuit_closed
      <4>2. num_leg_launch' \in 0..MaxLaunch
        <5>1. num_leg_launch \in 0..MaxLaunch
            OBVIOUS
        <5>2. r.launches \in 0..MaxLaunch
          <6>1. CASE r \in [leg : {TRUE}, launches : (num_leg_launch + 1)..MaxLaunch]
              BY <6>1, <5>1, <1>m
          <6>2. CASE r \in [leg : {FALSE}, launches : {MaxLaunch}]
              BY <6>2, <1>m
          <6> QED
              BY <6>1, <6>2 DEF Launches
        <5> QED
            BY <4>1, <5>2
      <4>3. UNCHANGED <<unlinked, status, conflux, pool, cfx_legs, sent,
                        delivered, stopping>> /\ linked' = linked \ {c}
          BY <2>1, <3>3 DEF unlinked_circuit_closed
      <4> DEFINE Typed == /\ state' \in [Ends -> [Circs -> States]]
                          /\ legs' \subseteq Circs /\ linked' \subseteq legs'
      <4>4. Typed
        <5>1. ASSUME NEW d \in Unused,
                     state' = [state EXCEPT !["client"][c] = "marked",
                                            !["client"][d] = "building"],
                     legs' = (legs \ {c}) \cup {d}
              PROVE  Typed
          <6>1. d \in Circs
              BY DEF Unused
          <6>2. state' \in [Ends -> [Circs -> States]]
              BY <5>1, <6>1, <1>e DEF States
          <6> QED
              BY <5>1, <6>1, <6>2, <4>3
        <5>2. ASSUME state' = [state EXCEPT !["client"][c] = "marked"],
                     legs' = legs \ {c}
              PROVE  Typed
            BY <5>2, <4>3, <1>e DEF States
        <5> QED
            BY <4>1, <5>1, <5>2
      <4> QED
          BY <3>1, <4>2, <4>3, <4>4 DEF States
    <3> QED
        BY <3>2, <3>3
  <2>2. CASE linked_circuit_closed(e, c)
    <3>1. PICK D :
             /\ \E last \in D :
                   conflux' = [conflux EXCEPT ![e] = ConfluxAfter(e, D, last)]
             /\ pool' = [pool EXCEPT ![e] = PoolAfter(e, D)]
             /\ cfx_legs' = [cfx_legs EXCEPT ![e] = [q \in Objs |-> @[q] \ D]]
             /\ state' = [state EXCEPT ![e] =
                            [d \in Circs |-> IF d \in D THEN "marked" ELSE @[d]]]
             /\ wire' = Without(e, D)
        BY <2>2 DEF linked_circuit_closed
    <3>2. conflux' \in [Ends -> [Circs -> Objs \cup {NoObj}]]
        BY <3>1 DEF ConfluxAfter
    <3>3. pool' \in [Ends -> Objs \cup {NoObj}]
        BY <3>1 DEF PoolAfter
    <3>4. UNCHANGED <<status, sent, delivered, setVars, stopping>>
        BY <2>2 DEF linked_circuit_closed
    <3> QED
        BY <3>1, <3>2, <3>3, <3>4, <1>w
  <2>3. CASE PlainClose(e, c)
      BY <2>3, <1>w DEF PlainClose
  <2> QED
      BY <1>x, <2>1, <2>2, <2>3 DEF conflux_circuit_has_closed
<1>f. ASSUME NEW e \in Ends, NEW C \in SUBSET Circs, FreeCircs(e, C),
             UNCHANGED <<stopping, wire>>
      PROVE  TypeOK'
    BY <1>f DEF FreeCircs
<1>1. CASE launch_new_set
  <2>1. PICK C \in SUBSET Circs, n \in 1..MaxLaunch :
           /\ state' = [state EXCEPT !["client"] =
                          [c \in Circs |-> IF c \in C THEN "building" ELSE @[c]]]
           /\ legs' = C
           /\ num_leg_launch' = n
      BY <1>1 DEF launch_new_set
  <2>2. /\ unlinked' = ClientCfx
        /\ status' = [status EXCEPT !["client"][ClientCfx] = "live"]
        /\ UNCHANGED <<conflux, pool, cfx_legs, sent, delivered, linked, stopping,
                       wire>>
      BY <1>1 DEF launch_new_set
  <2>3. linked = {}
      BY <1>1, Fresh DEF launch_new_set
  <2> QED
      BY <2>1, <2>2, <2>3, <1>e, <1>m
<1>2. ASSUME NEW c \in Circs, conflux_circuit_has_opened(c) PROVE TypeOK'
  <2>1. Cell("exit", c, "LINK", 0) \in Cells /\ Cell("exit", c, "LINK", 1) \in Cells
      BY <1>c, <1>e, <1>k
  <2>2. sent["client"][unlinked] \in {0, 1}
      BY <1>2, <1>s, <1>e DEF conflux_circuit_has_opened
  <2> QED
      BY <1>2, <2>1, <2>2, <1>e DEF conflux_circuit_has_opened
<1>3. ASSUME NEW c \in Circs, conflux_process_link(c) PROVE TypeOK'
  <2>1. ExitObj(c) \in Objs
      BY <1>e DEF ExitObj, Objs
  <2>2. PICK o \in Objs :
          \/ /\ conflux' = [conflux EXCEPT !["exit"][c] = o]
             /\ cfx_legs' = [cfx_legs EXCEPT !["exit"][o] = @ \cup {c}]
             /\ pool' = [pool EXCEPT !["exit"] = o]
             /\ status' = [status EXCEPT !["exit"][o] = "live"]
             /\ wire' \subseteq wire \cup {Cell("client", c, "LINKED", sent["exit"][o])}
             /\ UNCHANGED state
          \/ /\ state' = [state EXCEPT !["exit"][c] = "marked"]
             /\ wire' = Without("exit", {c})
             /\ UNCHANGED <<conflux, cfx_legs, pool, status>>
      BY <1>3, <2>1 DEF conflux_process_link
  <2>3. UNCHANGED <<sent, delivered, setVars, stopping>>
      BY <1>3 DEF conflux_process_link
  <2>4. Cell("client", c, "LINKED", sent["exit"][o]) \in Cells
    <3>1. sent["exit"][o] \in {0, 1}
        BY <1>e
    <3> QED
        BY <3>1, <1>c, <1>e, <1>k
  <2>5. wire' \subseteq Cells
      BY <2>2, <2>4, <1>w
  <2>6. CASE /\ conflux' = [conflux EXCEPT !["exit"][c] = o]
             /\ cfx_legs' = [cfx_legs EXCEPT !["exit"][o] = @ \cup {c}]
             /\ pool' = [pool EXCEPT !["exit"] = o]
             /\ status' = [status EXCEPT !["exit"][o] = "live"]
             /\ UNCHANGED state
    <3>1. cfx_legs' \in [Ends -> [Objs -> SUBSET Circs]]
      <4>1. [cfx_legs EXCEPT !["exit"][o] = @ \cup {c}]
               \in [Ends -> [Objs -> SUBSET Circs]]
        <5>1. cfx_legs \in [Ends -> [Objs -> SUBSET Circs]]
            OBVIOUS
        <5>2. {c} \in SUBSET Circs
            OBVIOUS
        <5> QED
            BY <5>1, <5>2, ExceptLegs, Zenon
      <4> QED
          BY <2>6, <4>1
    <3> QED
        BY <2>3, <2>5, <2>6, <3>1, <1>e
  <2>7. CASE /\ state' = [state EXCEPT !["exit"][c] = "marked"]
             /\ UNCHANGED <<conflux, cfx_legs, pool, status>>
      BY <2>3, <2>5, <2>7, <1>e
  <2> QED
      BY <2>2, <2>6, <2>7
<1>4. ASSUME NEW c \in Circs, conflux_process_linked(c) PROVE TypeOK'
  <2>1. CASE conflux_circuit_has_closed("client", c)
      BY <2>1, <1>x, <1>e
  <2>2. CASE ~conflux_circuit_has_closed("client", c)
    <3>1. /\ c \in legs
          /\ \/ FinalizeSet
             \/ /\ linked' = linked \cup {c}
                /\ UNCHANGED <<conflux, cfx_legs, pool, legs, unlinked,
                               num_leg_launch>>
          /\ UNCHANGED <<state, status, sent, delivered, stopping>>
        BY <1>4, <2>2 DEF conflux_process_linked
    <3>2. wire' \subseteq Cells
        BY <1>4, <2>2, <1>c, <1>e, <1>k DEF conflux_process_linked
    <3>3. CASE FinalizeSet
      <4>1. unlinked \in Objs
          BY <3>1, <1>s, <1>e
      <4>2. cfx_legs' \in [Ends -> [Objs -> SUBSET Circs]]
          BY <3>3, ExceptLegs DEF FinalizeSet
      <4>3. num_leg_launch' \in 0..MaxLaunch
          BY <3>3, <1>m DEF FinalizeSet
      <4> QED
          BY <3>1, <3>2, <3>3, <4>1, <4>2, <4>3 DEF FinalizeSet
    <3> QED
        BY <3>1, <3>2, <3>3
  <2> QED
      BY <2>1, <2>2
<1>5. ASSUME NEW c \in Circs, conflux_process_linked_ack(c) PROVE TypeOK'
    BY <1>5 DEF conflux_process_linked_ack
<1>6. ASSUME NEW e \in Ends, NEW c \in Circs, circuit_mark_for_close(e, c)
      PROVE  TypeOK'
    BY <1>6, <1>x DEF circuit_mark_for_close
<1>7. ASSUME NEW e \in Ends, NEW c \in Circs, SendData(e, c) PROVE TypeOK'
    BY <1>7, <1>c, <1>k DEF SendData, Peer, Ends
<1>8. ASSUME NEW e \in Ends, NEW c \in Circs, DataArrives(e, c) PROVE TypeOK'
    BY <1>8 DEF DataArrives
<1>9. ASSUME NEW e \in Ends, circuit_close_all_marked(e) PROVE TypeOK'
    BY <1>9, <1>f DEF circuit_close_all_marked
<1>10. ASSUME NEW e \in Ends, NEW c \in Circs, FreeAtExit(e, c) PROVE TypeOK'
    BY <1>10, <1>f DEF FreeAtExit
<1>11. ASSUME NEW e \in Ends, Shutdown(e) PROVE TypeOK'
    BY <1>11, <1>w DEF Shutdown
<1>12. ASSUME NEW e \in Ends, conflux_pool_free_all(e) PROVE TypeOK'
    BY <1>12 DEF conflux_pool_free_all
<1>13. CASE UNCHANGED vars
    BY <1>13 DEF vars
<1> QED
    BY <1>1, <1>2, <1>3, <1>4, <1>5, <1>6, <1>7, <1>8, <1>9, <1>10, <1>11,
       <1>12, <1>13 DEF Next

-----------------------------------------------------------------------------
(* What the two steps that touch many circuits at once do, circuit by      *)
(* circuit.                                                                *)

\* circ->conflux agrees with cfx->legs at end e, and the conflux_t of e live
\* while something points to them.
ObjInv(e) ==
    /\ \A o \in Objs : \A c \in cfx_legs[e][o] :
          conflux[e][c] = o /\ state[e][c] = "open"
    /\ \A c \in Circs :
          conflux[e][c] # NoObj /\ c \notin cfx_legs[e][conflux[e][c]] =>
             /\ state[e][c] = "marked"
             /\ cfx_legs[e][conflux[e][c]] = {}
             /\ pool[e] # conflux[e][c]
    /\ pool[e] # NoObj => cfx_legs[e][pool[e]] # {}
    /\ \A c, d \in Circs :
          conflux[e][c] # NoObj /\ conflux[e][c] = conflux[e][d] /\ c # d
             => {c, d} \subseteq cfx_legs[e][conflux[e][c]]
    /\ \A o \in Objs : status[e][o] = "live" <=> Referenced(e, o)

\* The three invariants about conflux_t, put together end by end.
LEMMA ByEnd ==
    LegsInv /\ FreedByOne /\ LivesWhileReferenced <=> \A e \in Ends : ObjInv(e)
BY DEF LegsInv, FreedByOne, LivesWhileReferenced, ObjInv

\* The same after a step.
LEMMA ByEndPrime ==
    (\A e \in Ends : ObjInv(e)') => (LegsInv /\ FreedByOne /\ LivesWhileReferenced)'
BY DEF LegsInv, FreedByOne, LivesWhileReferenced, ObjInv

\* A step that leaves an end's conflux_t alone, and every circuit that has one.
LEMMA ObjFrame ==
    ASSUME NEW e \in Ends, TypeOK, ObjInv(e),
           conflux'[e] = conflux[e], pool'[e] = pool[e],
           cfx_legs'[e] = cfx_legs[e], status'[e] = status[e],
           e = "client" => unlinked' = unlinked,
           \A c \in Circs : conflux[e][c] # NoObj => state'[e][c] = state[e][c]
    PROVE  ObjInv(e)'
<1>1. \A o \in Objs : Referenced(e, o)' <=> Referenced(e, o)
    BY DEF Referenced
<1>2. \A o \in Objs : \A c \in cfx_legs[e][o] : c \in Circs /\ o # NoObj
    BY ObjsAssumption DEF TypeOK
<1> QED
    BY <1>1, <1>2 DEF ObjInv

\* The circuits D of end e are marked, and at most one conflux_t, q, loses its
\* last leg; then circuit last still points to it.
Closes(e, c, D, last, q) ==
    /\ c \in D
    /\ \A d \in D : conflux[e][d] # NoObj /\ d \in cfx_legs[e][conflux[e][d]]
    /\ \A x \in Ends, d \in Circs : state'[x][d] =
          IF x = e /\ d \in D THEN "marked" ELSE state[x][d]
    /\ \A x \in Ends, o \in Objs : cfx_legs'[x][o] =
          IF x = e THEN cfx_legs[x][o] \ D ELSE cfx_legs[x][o]
    /\ wire' = Without(e, D)
    /\ \/ /\ \A o \in Objs : cfx_legs[e][o] \subseteq D => cfx_legs[e][o] = {}
          /\ pool' = pool
          /\ \A x \in Ends, d \in Circs : conflux'[x][d] =
                IF x = e /\ d \in D THEN NoObj ELSE conflux[x][d]
       \/ /\ \A o \in Objs : o # q /\ cfx_legs[e][o] \subseteq D
                               => cfx_legs[e][o] = {}
          /\ last \in cfx_legs[e][q] /\ cfx_legs[e][q] \subseteq D
          /\ \A x \in Ends : pool'[x] = IF x = e THEN NoObj ELSE pool[x]
          /\ \A x \in Ends, d \in Circs : conflux'[x][d] =
                IF x = e /\ d \in D \ {last} THEN NoObj ELSE conflux[x][d]

\* That is what linked_circuit_closed does, with or without a full teardown.
LEMMA CloseEffect ==
    ASSUME TypeOK, NEW e \in Ends, NEW c \in Circs, ObjInv(e), Up(e, c),
           linked_circuit_closed(e, c)
    PROVE  \E D \in SUBSET Circs, last \in Circs, q \in Objs : Closes(e, c, D, last, q)
<1> DEFINE o == conflux[e][c]
<1>1. o \in Objs /\ o # NoObj /\ c \in cfx_legs[e][o]
  <2>1. o \in Objs /\ o # NoObj
      BY DEF linked_circuit_closed, TypeOK
  <2>2. state[e][c] # "marked"
      BY DEF Up
  <2> QED
      BY <2>1, <2>2 DEF ObjInv
<1>2. PICK teardown \in BOOLEAN : LET D == ClosesWith(e, o, c, teardown) IN
         /\ \E last \in IF D = {c} THEN D ELSE D \ {c} :
               conflux' = [conflux EXCEPT ![e] = ConfluxAfter(e, D, last)]
         /\ pool' = [pool EXCEPT ![e] = PoolAfter(e, D)]
         /\ cfx_legs' = [cfx_legs EXCEPT ![e] = [q \in Objs |-> @[q] \ D]]
         /\ state' = [state EXCEPT ![e] =
                        [d \in Circs |-> IF d \in D THEN "marked" ELSE @[d]]]
         /\ wire' = Without(e, D)
    BY DEF linked_circuit_closed
<1> DEFINE D == ClosesWith(e, o, c, teardown)
<1>3. PICK last \in IF D = {c} THEN D ELSE D \ {c} :
         conflux' = [conflux EXCEPT ![e] = ConfluxAfter(e, D, last)]
    BY <1>2
<1>4. \A q \in Objs : \A d \in cfx_legs[e][q] : d \in Circs /\ conflux[e][d] = q
    BY DEF TypeOK, ObjInv
<1>5. PICK q \in Objs :
         /\ D \subseteq Circs /\ c \in D /\ last \in D
         /\ \A d \in D : conflux[e][d] # NoObj /\ d \in cfx_legs[e][conflux[e][d]]
         /\ \/ Emptied(e, D) = {}
            \/ Emptied(e, D) = {q} /\ last \in cfx_legs[e][q]
  <2>1. CASE D = {c}
    <3>1. Emptied(e, D) \subseteq {o}
        BY <2>1, <1>1, <1>4 DEF Emptied
    <3> QED
        BY <2>1, <3>1, <1>1, <1>3
  <2>2. CASE D # {c}
    <3>1. /\ pool[e] # NoObj /\ pool[e] \in Objs
          /\ pool[e] = o \/ cfx_legs[e][o] # {c}
          /\ D = {c} \cup cfx_legs[e][pool[e]]
        BY <2>2 DEF ClosesWith, TypeOK
    <3>2. Emptied(e, D) = {pool[e]}
      <4>1. pool[e] \in Emptied(e, D)
          BY <3>1 DEF Emptied, ObjInv
      <4>2. ASSUME NEW p \in Emptied(e, D), p # pool[e] PROVE FALSE
        <5>1. p \in Objs /\ cfx_legs[e][p] # {} /\ cfx_legs[e][p] \subseteq D
            BY DEF Emptied
        <5>2. cfx_legs[e][p] = {c}
            BY <5>1, <3>1, <1>4, <4>2
        <5>3. p = o
            BY <5>1, <5>2, <1>4
        <5> QED
            BY <5>2, <5>3, <3>1, <4>2
      <4> QED
          BY <4>1, <4>2
    <3>3. \A d \in D : d \in Circs /\ conflux[e][d] # NoObj
                       /\ d \in cfx_legs[e][conflux[e][d]]
        BY <3>1, <1>1, <1>4, ObjsAssumption
    <3>4. last \in D /\ last \in cfx_legs[e][pool[e]]
        BY <2>2, <3>1, <1>3
    <3> QED
        BY <3>1, <3>2, <3>3, <3>4
  <2> QED
      BY <2>1, <2>2
<1> HIDE DEF D, o
<1>6. \A x \in Ends, d \in Circs : state'[x][d] =
         IF x = e /\ d \in D THEN "marked" ELSE state[x][d]
    BY <1>2 DEF D, TypeOK
<1>7. \A x \in Ends, p \in Objs : cfx_legs'[x][p] =
         IF x = e THEN cfx_legs[x][p] \ D ELSE cfx_legs[x][p]
    BY <1>2 DEF D, TypeOK
<1>8. wire' = Without(e, D) /\ pool' = [pool EXCEPT ![e] = PoolAfter(e, D)]
    BY <1>2 DEF D
<1>9. CASE Emptied(e, D) = {}
  <2>1. \A p \in Objs : cfx_legs[e][p] \subseteq D => cfx_legs[e][p] = {}
      BY <1>9 DEF Emptied
  <2>2. pool' = pool
      BY <1>8, <1>9 DEF PoolAfter, TypeOK
  <2>3. \A x \in Ends, d \in Circs : conflux'[x][d] =
           IF x = e /\ d \in D THEN NoObj ELSE conflux[x][d]
      BY <1>3, <1>9 DEF ConfluxAfter, TypeOK
  <2> QED
    <3>1. Closes(e, c, D, last, q)
        BY <1>5, <1>6, <1>7, <1>8, <2>1, <2>2, <2>3 DEF Closes
    <3> QED
        BY <3>1, <1>5
<1>10. CASE Emptied(e, D) = {q} /\ last \in cfx_legs[e][q]
  <2>1. /\ \A p \in Objs : p # q /\ cfx_legs[e][p] \subseteq D => cfx_legs[e][p] = {}
        /\ cfx_legs[e][q] \subseteq D
      BY <1>10 DEF Emptied
  <2>2. \A x \in Ends : pool'[x] = IF x = e THEN NoObj ELSE pool[x]
      BY <1>8, <1>10 DEF PoolAfter, TypeOK
  <2>3. \A x \in Ends, d \in Circs : conflux'[x][d] =
           IF x = e /\ d \in D \ {last} THEN NoObj ELSE conflux[x][d]
      BY <1>3, <1>10 DEF ConfluxAfter, TypeOK
  <2> QED
    <3>1. Closes(e, c, D, last, q)
        BY <1>5, <1>6, <1>7, <1>8, <1>10, <2>1, <2>2, <2>3 DEF Closes
    <3> QED
        BY <3>1, <1>5
<1> QED
    BY <1>5, <1>9, <1>10

-----------------------------------------------------------------------------
(* The conflux_t of each end. *)

\* A close keeps an end's conflux_t and circuits in agreement: what loses its
\* last leg leaves the pool and is held by one marked circuit.
LEMMA ClosesObj ==
    ASSUME TypeOK, NEW e \in Ends, NEW c \in Circs, ObjInv(e),
           NEW D \in SUBSET Circs, NEW last \in Circs, NEW q \in Objs,
           Closes(e, c, D, last, q),
           status' = status, unlinked' = unlinked
    PROVE  ObjInv(e)'
<1>1. /\ \A d \in D : conflux[e][d] # NoObj /\ d \in cfx_legs[e][conflux[e][d]]
      /\ \A d \in Circs : state'[e][d] = IF d \in D THEN "marked" ELSE state[e][d]
      /\ \A o \in Objs : cfx_legs'[e][o] = cfx_legs[e][o] \ D
  <2>1. \A d \in D : conflux[e][d] # NoObj /\ d \in cfx_legs[e][conflux[e][d]]
      BY DEF Closes
  <2>2. \A d \in Circs : state'[e][d] = IF d \in D THEN "marked" ELSE state[e][d]
      BY DEF Closes
  <2>3. \A o \in Objs : cfx_legs'[e][o] = cfx_legs[e][o] \ D
    <3>1. \A x \in Ends, o \in Objs : cfx_legs'[x][o] =
             IF x = e THEN cfx_legs[x][o] \ D ELSE cfx_legs[x][o]
        BY Zenon DEF Closes
    <3> QED
        BY ONLY <3>1, e \in Ends, ZenonT(30)
  <2> QED
      BY <2>1, <2>2, <2>3
<1>2. /\ \A d \in Circs : conflux[e][d] \in Objs \cup {NoObj}
      /\ pool[e] \in Objs \cup {NoObj} /\ NoObj \notin Objs
      /\ \A o \in Objs : cfx_legs[e][o] \subseteq Circs
    BY ObjsAssumption DEF TypeOK
<1>3. \A o \in Objs : \A d \in cfx_legs[e][o] : conflux[e][d] = o /\ state[e][d] = "open"
    BY DEF ObjInv
<1>o. \A d \in Circs : conflux[e][d] # NoObj /\ d \notin cfx_legs[e][conflux[e][d]] =>
         /\ state[e][d] = "marked"
         /\ cfx_legs[e][conflux[e][d]] = {}
         /\ pool[e] # conflux[e][d]
    BY DEF ObjInv
<1>4. CASE /\ \A o \in Objs : cfx_legs[e][o] \subseteq D => cfx_legs[e][o] = {}
           /\ pool' = pool
           /\ \A d \in Circs : conflux'[e][d] =
                 IF d \in D THEN NoObj ELSE conflux[e][d]
  <2>1. \A o \in Objs : \A d \in cfx_legs'[e][o] :
           conflux'[e][d] = o /\ state'[e][d] = "open"
      BY <1>1, <1>2, <1>3, <1>4
  <2>2. ASSUME NEW d \in Circs, conflux'[e][d] # NoObj,
               d \notin cfx_legs'[e][conflux'[e][d]]
        PROVE  /\ state'[e][d] = "marked"
               /\ cfx_legs'[e][conflux'[e][d]] = {}
               /\ pool'[e] # conflux'[e][d]
    <3>1. d \notin D /\ conflux'[e][d] = conflux[e][d] /\ conflux[e][d] \in Objs
        BY <1>2, <1>4, <2>2
    <3>2. d \notin cfx_legs[e][conflux[e][d]]
        BY <3>1, <2>2, <1>1
    <3>3. /\ state[e][d] = "marked" /\ cfx_legs[e][conflux[e][d]] = {}
          /\ pool[e] # conflux[e][d]
        BY <3>1, <3>2, <1>o, <2>2
    <3> QED
        BY <3>1, <3>3, <1>1, <1>4
  <2>3. pool'[e] # NoObj => cfx_legs'[e][pool'[e]] # {}
      BY <1>1, <1>2, <1>4 DEF ObjInv
  <2>4. ASSUME NEW x \in Circs, NEW y \in Circs, conflux'[e][x] # NoObj,
               conflux'[e][x] = conflux'[e][y], x # y
        PROVE  {x, y} \subseteq cfx_legs'[e][conflux'[e][x]]
    <3>1. x \notin D /\ y \notin D /\ conflux[e][x] = conflux[e][y]
          /\ conflux'[e][x] = conflux[e][x] /\ conflux[e][x] \in Objs
        BY <2>4, <1>2, <1>4
    <3>2. {x, y} \subseteq cfx_legs[e][conflux[e][x]]
        BY <3>1, <2>4 DEF ObjInv
    <3> QED
        BY <3>1, <3>2, <1>1
  <2>5. ASSUME NEW o \in Objs PROVE status'[e][o] = "live" <=> Referenced(e, o)'
    <3>1. status'[e][o] = "live" <=> Referenced(e, o)
        BY DEF ObjInv
    <3>2. Referenced(e, o)' => Referenced(e, o)
        BY <1>2, <1>4 DEF Referenced
    <3>3. ASSUME NEW d \in Circs, conflux[e][d] = o
          PROVE  \E y \in Circs : conflux'[e][y] = o
      <4>1. CASE d \notin D
          BY <4>1, <3>3, <1>4
      <4>2. CASE d \in D
        <5>1. cfx_legs[e][o] # {}
            BY <4>2, <3>3, <1>1
        <5>2. PICK y \in cfx_legs[e][o] : y \notin D
            BY <5>1, <1>4
        <5> QED
            BY <5>2, <1>2, <1>3, <1>4
      <4> QED
          BY <4>1, <4>2
    <3> QED
        BY <3>1, <3>2, <3>3, <1>4 DEF Referenced
  <2> QED
      BY <2>1, <2>2, <2>3, <2>4, <2>5 DEF ObjInv
<1>5. CASE /\ \A o \in Objs : o # q /\ cfx_legs[e][o] \subseteq D => cfx_legs[e][o] = {}
           /\ last \in cfx_legs[e][q] /\ cfx_legs[e][q] \subseteq D
           /\ pool'[e] = NoObj
           /\ \A d \in Circs : conflux'[e][d] =
                 IF d \in D \ {last} THEN NoObj ELSE conflux[e][d]
  <2>0. conflux'[e][last] = q /\ conflux[e][last] = q /\ cfx_legs'[e][q] = {}
        /\ state'[e][last] = "marked" /\ last \in D
      BY <1>1, <1>3, <1>5
  <2>1. \A o \in Objs : \A d \in cfx_legs'[e][o] :
           conflux'[e][d] = o /\ state'[e][d] = "open"
      BY <1>1, <1>2, <1>3, <1>5
  <2>2. ASSUME NEW d \in Circs, conflux'[e][d] # NoObj,
               d \notin cfx_legs'[e][conflux'[e][d]]
        PROVE  /\ state'[e][d] = "marked"
               /\ cfx_legs'[e][conflux'[e][d]] = {}
               /\ pool'[e] # conflux'[e][d]
    <3>1. CASE d = last
        BY <3>1, <2>0, <2>2, <1>5
    <3>2. CASE d # last
      <4>1. d \notin D /\ conflux'[e][d] = conflux[e][d] /\ conflux[e][d] \in Objs
          BY <1>2, <1>5, <2>2, <3>2
      <4>2. d \notin cfx_legs[e][conflux[e][d]]
          BY <4>1, <2>2, <1>1
      <4>3. /\ state[e][d] = "marked" /\ cfx_legs[e][conflux[e][d]] = {}
          BY <4>1, <4>2, <1>o, <2>2
      <4>4. pool'[e] # conflux'[e][d]
          BY <1>5, <2>2
      <4> QED
          BY <4>1, <4>3, <4>4, <1>1
    <3> QED
        BY <3>1, <3>2
  <2>3. pool'[e] # NoObj => cfx_legs'[e][pool'[e]] # {}
      BY <1>5
  <2>4. ASSUME NEW x \in Circs, NEW y \in Circs, conflux'[e][x] # NoObj,
               conflux'[e][x] = conflux'[e][y], x # y
        PROVE  {x, y} \subseteq cfx_legs'[e][conflux'[e][x]]
    <3>1. conflux[e][x] = conflux[e][y]
          /\ conflux'[e][x] = conflux[e][x] /\ conflux[e][x] \in Objs
          /\ x \notin D \ {last} /\ y \notin D \ {last}
        BY <2>4, <1>2, <1>5
    <3>2. {x, y} \subseteq cfx_legs[e][conflux[e][x]]
        BY <3>1, <2>4 DEF ObjInv
    <3>3. conflux[e][x] # q
        BY <3>1, <3>2, <1>5, <2>4
    <3>4. x # last /\ y # last
        BY <3>1, <3>3, <2>0
    <3> QED
        BY <3>1, <3>2, <3>4, <1>1
  <2>5. ASSUME NEW o \in Objs PROVE status'[e][o] = "live" <=> Referenced(e, o)'
    <3>1. status'[e][o] = "live" <=> Referenced(e, o)
        BY DEF ObjInv
    <3>2. Referenced(e, o)' => Referenced(e, o)
        BY <1>2, <1>5 DEF Referenced
    <3>3. ASSUME NEW d \in Circs, conflux[e][d] = o
          PROVE  \E y \in Circs : conflux'[e][y] = o
      <4>1. CASE d \notin D
          BY <4>1, <3>3, <1>5
      <4>2. CASE d \in D /\ o # q
        <5>1. cfx_legs[e][o] # {}
            BY <4>2, <3>3, <1>1
        <5>2. PICK y \in cfx_legs[e][o] : y \notin D
            BY <5>1, <4>2, <1>5
        <5> QED
            BY <5>2, <1>2, <1>3, <1>5
      <4>3. CASE o = q
          BY <4>3, <2>0
      <4> QED
          BY <4>1, <4>2, <4>3
    <3>4. pool[e] = o => \E d \in Circs : conflux[e][d] = o
        BY <1>2, <1>3 DEF ObjInv
    <3> QED
        BY <3>1, <3>2, <3>3, <3>4 DEF Referenced
  <2> QED
      BY <2>1, <2>2, <2>3, <2>4, <2>5 DEF ObjInv
<1> QED
    BY <1>4, <1>5 DEF Closes

\* Freeing circuits frees the conflux_t that only they pointed to, and no other.
LEMMA FreesObj ==
    ASSUME TypeOK, SetInv, NEW e \in Ends, ObjInv(e), NEW C \in SUBSET Circs,
           FreeCircs(e, C)
    PROVE  ObjInv(e)'
<1>1. /\ \A d \in Circs : state'[e][d] = IF d \in C THEN "freed" ELSE state[e][d]
      /\ \A o \in Objs : cfx_legs'[e][o] = cfx_legs[e][o] \ C
      /\ \A d \in Circs : conflux'[e][d] = IF d \in C THEN NoObj ELSE conflux[e][d]
      /\ pool'[e] = IF LastHeldBy(e, C) # {} THEN NoObj ELSE pool[e]
      /\ unlinked' = unlinked
    BY DEF FreeCircs, TypeOK
<1>2. /\ \A d \in Circs : conflux[e][d] \in Objs \cup {NoObj}
      /\ pool[e] \in Objs \cup {NoObj} /\ NoObj \notin Objs
      /\ \A o \in Objs : cfx_legs[e][o] \subseteq Circs
    BY ObjsAssumption DEF TypeOK
<1>3. \A o \in Objs : \A d \in cfx_legs[e][o] : conflux[e][d] = o /\ state[e][d] = "open"
    BY DEF ObjInv
<1>4. Frees(e, C) = LastHeldBy(e, C)
  <2>1. e = "client" /\ unlinked # NoObj => LastHeldBy(e, C) = {}
      BY <1>2 DEF SetInv, LastHeldBy
  <2> QED
      BY <2>1 DEF Frees
<1>5. \A o \in Objs : status'[e][o] =
         IF o \in LastHeldBy(e, C) THEN "freed" ELSE status[e][o]
    BY <1>4 DEF FreeCircs, TypeOK
<1>6. \A o \in Objs : o \in LastHeldBy(e, C) <=>
         cfx_legs[e][o] \subseteq C /\ \E d \in C : conflux[e][d] = o
    BY DEF LastHeldBy
<1>7. \A o \in Objs : cfx_legs[e][o] # {} /\ o \notin LastHeldBy(e, C)
                        => cfx_legs'[e][o] # {}
  <2> SUFFICES ASSUME NEW o \in Objs, cfx_legs[e][o] # {}, o \notin LastHeldBy(e, C)
               PROVE  cfx_legs'[e][o] # {}
      OBVIOUS
  <2>1. PICK d \in cfx_legs[e][o] : conflux[e][d] = o
      BY <1>3
  <2>2. ~(cfx_legs[e][o] \subseteq C)
      BY <2>1, <1>6
  <2>3. PICK x \in cfx_legs[e][o] : x \notin C
      BY <2>2
  <2> QED
      BY <2>3, <1>1
<1>8. \A o \in Objs : \A d \in cfx_legs'[e][o] :
         conflux'[e][d] = o /\ state'[e][d] = "open"
    BY <1>1, <1>2, <1>3
<1>9. ASSUME NEW d \in Circs, conflux'[e][d] # NoObj,
             d \notin cfx_legs'[e][conflux'[e][d]]
      PROVE  /\ state'[e][d] = "marked"
             /\ cfx_legs'[e][conflux'[e][d]] = {}
             /\ pool'[e] # conflux'[e][d]
  <2>1. d \notin C /\ conflux'[e][d] = conflux[e][d] /\ conflux[e][d] \in Objs
      BY <1>1, <1>2, <1>9
  <2>2. d \notin cfx_legs[e][conflux[e][d]]
      BY <2>1, <1>9, <1>1
  <2>3. /\ state[e][d] = "marked"
        /\ cfx_legs[e][conflux[e][d]] = {}
        /\ pool[e] # conflux[e][d]
      BY <2>1, <2>2, <1>9 DEF ObjInv
  <2> QED
      BY <2>1, <2>3, <1>1, <1>2
<1>10. pool'[e] # NoObj => cfx_legs'[e][pool'[e]] # {}
    BY <1>1, <1>2, <1>7 DEF ObjInv
<1>11. ASSUME NEW x \in Circs, NEW y \in Circs, conflux'[e][x] # NoObj,
              conflux'[e][x] = conflux'[e][y], x # y
       PROVE  {x, y} \subseteq cfx_legs'[e][conflux'[e][x]]
  <2>1. x \notin C /\ y \notin C /\ conflux[e][x] = conflux[e][y]
        /\ conflux'[e][x] = conflux[e][x] /\ conflux[e][x] \in Objs
      BY <1>1, <1>2, <1>11
  <2>2. \A u, v \in Circs :
           conflux[e][u] # NoObj /\ conflux[e][u] = conflux[e][v] /\ u # v
           => {u, v} \subseteq cfx_legs[e][conflux[e][u]]
      BY DEF ObjInv
  <2>3. {x, y} \subseteq cfx_legs[e][conflux[e][x]]
      BY <2>1, <2>2, <1>11
  <2> QED
      BY <2>1, <2>3, <1>1
<1>12. ASSUME NEW o \in Objs PROVE status'[e][o] = "live" <=> Referenced(e, o)'
  <2>0. status[e][o] = "live" <=> Referenced(e, o)
      BY DEF ObjInv
  <2>1. CASE o \in LastHeldBy(e, C)
    <3>1. PICK d \in C : conflux[e][d] = o /\ cfx_legs[e][o] \subseteq C
        BY <2>1, <1>6
    <3>2. \A y \in Circs : conflux'[e][y] # o
      <4>1. ASSUME NEW y \in Circs, conflux'[e][y] = o PROVE FALSE
        <5>1. y \notin C /\ conflux[e][y] = o /\ y # d
            BY <4>1, <1>1, <1>2, <3>1
        <5>2. y \in cfx_legs[e][o]
          <6>1. \A u, v \in Circs :
                   conflux[e][u] # NoObj /\ conflux[e][u] = conflux[e][v] /\ u # v
                   => {u, v} \subseteq cfx_legs[e][conflux[e][u]]
              BY DEF ObjInv
          <6>2. d \in Circs /\ conflux[e][y] # NoObj /\ conflux[e][y] = conflux[e][d]
              BY <5>1, <3>1, <1>2
          <6>3. {y, d} \subseteq cfx_legs[e][conflux[e][y]]
              BY <5>1, <6>1, <6>2
          <6> QED
              BY <5>1, <6>3
        <5> QED
            BY <5>1, <5>2, <3>1
      <4> QED
          BY <4>1
    <3>3. e = "client" => unlinked # o
        BY <3>1, <1>2 DEF SetInv
    <3>4. pool'[e] # o
        BY <2>1, <1>1, <1>2
    <3> QED
        BY <2>1, <1>1, <1>5, <3>2, <3>3, <3>4 DEF Referenced
  <2>2. CASE o \notin LastHeldBy(e, C)
    <3>1. Referenced(e, o)' => Referenced(e, o)
        BY <1>1, <1>2 DEF Referenced
    <3>2. (\E d \in Circs : conflux[e][d] = o) => \E y \in Circs : conflux'[e][y] = o
      <4>1. SUFFICES ASSUME NEW d \in Circs, conflux[e][d] = o
                     PROVE  \E y \in Circs : conflux'[e][y] = o
          OBVIOUS
      <4>2. CASE d \notin C
          BY <4>1, <4>2, <1>1
      <4>3. CASE d \in C
        <5>1. PICK y \in cfx_legs[e][o] : y \notin C
            BY <4>1, <4>3, <2>2, <1>6
        <5> QED
            BY <5>1, <1>1, <1>2, <1>3
      <4> QED
          BY <4>2, <4>3
    <3>3. pool[e] = o => \E d \in Circs : conflux[e][d] = o
        BY <1>2, <1>3 DEF ObjInv
    <3>4. (\E d \in Circs : conflux[e][d] = o) => Referenced(e, o)'
        BY <3>2 DEF Referenced
    <3>5. e = "client" /\ unlinked = o => Referenced(e, o)'
        BY <1>1 DEF Referenced
    <3>6. Referenced(e, o) => Referenced(e, o)'
        BY <3>3, <3>4, <3>5 DEF Referenced
    <3>7. status'[e][o] = status[e][o]
        BY <2>2, <1>5
    <3> QED
        BY <2>0, <3>1, <3>6, <3>7
  <2> QED
      BY <2>1, <2>2
<1> QED
    BY <1>8, <1>9, <1>10, <1>11, <1>12 DEF ObjInv

\* Every step keeps each end's conflux_t and circuits in agreement.
LEMMA ObjStep ==
    IndInv /\ [Next]_vars => (LegsInv /\ FreedByOne /\ LivesWhileReferenced)'
<1> SUFFICES ASSUME IndInv, [Next]_vars PROVE \A e \in Ends : ObjInv(e)'
    BY ByEndPrime
<1>t. TypeOK /\ SetInv /\ WireInv /\ \A e \in Ends : ObjInv(e)
    BY ByEnd DEF IndInv
<1> USE <1>t DEF setVars, objVars
<1>e. "client" \in Ends /\ "exit" \in Ends /\ ClientCfx \in Objs /\ ClientCfx # NoObj
      /\ NoObj \notin Objs /\ \A e \in Ends : e \in {"client", "exit"}
    BY ObjsAssumption DEF Ends, Objs
\* A circuit with a conflux_t is open or marked.
<1>o. ASSUME NEW e \in Ends, NEW c \in Circs, conflux[e][c] # NoObj
      PROVE  state[e][c] \in {"open", "marked"}
    BY <1>o DEF ObjInv, TypeOK
<1>f. ASSUME UNCHANGED <<state, conflux, pool, cfx_legs, status, unlinked>>
      PROVE  \A e \in Ends : ObjInv(e)'
    BY <1>f, ObjFrame
\* A circuit closes.
<1>x. ASSUME NEW e \in Ends, NEW c \in Circs, Up(e, c), conflux_circuit_has_closed(e, c)
      PROVE  \A x \in Ends : ObjInv(x)'
  <2>1. CASE e = "client" /\ unlinked_circuit_closed(c)
    <3>1. unlinked = ClientCfx /\ \A d \in Circs : conflux["client"][d] = NoObj
        BY <2>1 DEF unlinked_circuit_closed, SetInv
    <3>2. UNCHANGED <<conflux, pool, cfx_legs>>
        BY <2>1 DEF unlinked_circuit_closed
    <3>3. /\ state'["exit"] = state["exit"] /\ status'["exit"] = status["exit"]
      <4>1. ASSUME NEW d,
                   state' = [state EXCEPT !["client"][c] = "marked",
                                          !["client"][d] = "building"]
            PROVE  state'["exit"] = state["exit"]
          BY <4>1, <1>e DEF TypeOK
      <4>2. ASSUME state' = [state EXCEPT !["client"][c] = "marked"]
            PROVE  state'["exit"] = state["exit"]
          BY <4>2, <1>e DEF TypeOK
      <4>3. state'["exit"] = state["exit"]
          BY <4>1, <4>2, <2>1 DEF unlinked_circuit_closed
      <4>4. ASSUME status' = [status EXCEPT !["client"][unlinked] = "freed"]
            PROVE  status'["exit"] = status["exit"]
          BY <4>4, <1>e DEF TypeOK
      <4> QED
          BY <4>3, <4>4, <2>1 DEF unlinked_circuit_closed
    <3>4. ObjInv("exit")'
        BY <3>2, <3>3, <1>e, ObjFrame
    <3>5. ObjInv("client")'
      <4>1. CASE unlinked' = unlinked /\ status' = status
          BY <4>1, <3>1, <3>2, <1>e, ObjFrame
      <4>2. CASE /\ unlinked' = NoObj
                 /\ status' = [status EXCEPT !["client"][unlinked] = "freed"]
          BY <4>2, <3>1, <3>2, <1>e DEF ObjInv, Referenced, TypeOK, SetInv
      <4> QED
          BY <4>1, <4>2, <2>1 DEF unlinked_circuit_closed
    <3> QED
        BY <3>4, <3>5, <1>e
  <2>2. CASE linked_circuit_closed(e, c)
    <3>1. PICK D \in SUBSET Circs, last \in Circs, q \in Objs : Closes(e, c, D, last, q)
        BY <2>2, <1>x, CloseEffect
    <3>2. status' = status /\ unlinked' = unlinked
        BY <2>2 DEF linked_circuit_closed
    <3>3. ObjInv(e)'
        BY <3>1, <3>2, ClosesObj
    <3>4. ASSUME NEW x \in Ends, x # e PROVE ObjInv(x)'
      <4>1. /\ conflux'[x] = conflux[x] /\ pool'[x] = pool[x]
            /\ cfx_legs'[x] = cfx_legs[x] /\ state'[x] = state[x]
          BY <2>2, <3>4 DEF linked_circuit_closed, TypeOK
      <4> QED
          BY <4>1, <3>2, ObjFrame
    <3> QED
        BY <3>3, <3>4
  <2>3. CASE PlainClose(e, c)
    <3>1. \A x \in Ends, d \in Circs :
             conflux[x][d] # NoObj => state'[x][d] = state[x][d]
        BY <2>3 DEF PlainClose, TypeOK
    <3>2. UNCHANGED <<conflux, pool, cfx_legs, status, unlinked>>
        BY <2>3 DEF PlainClose
    <3> QED
        BY <3>1, <3>2, ObjFrame
  <2> QED
      BY <1>x, <2>1, <2>2, <2>3 DEF conflux_circuit_has_closed
<1>g. ASSUME NEW e \in Ends, NEW C \in SUBSET Circs, FreeCircs(e, C)
      PROVE  \A x \in Ends : ObjInv(x)'
  <2>1. ObjInv(e)'
      BY <1>g, FreesObj
  <2>2. ASSUME NEW x \in Ends, x # e PROVE ObjInv(x)'
    <3>1. /\ conflux'[x] = conflux[x] /\ pool'[x] = pool[x] /\ status'[x] = status[x]
          /\ cfx_legs'[x] = cfx_legs[x] /\ state'[x] = state[x] /\ unlinked' = unlinked
        BY <1>g, <2>2 DEF FreeCircs, TypeOK
    <3> QED
        BY <3>1, ObjFrame
  <2> QED
      BY <2>1, <2>2
<1>1. CASE launch_new_set
  <2>1. /\ unlinked' = ClientCfx /\ unlinked = NoObj
        /\ status' = [status EXCEPT !["client"][ClientCfx] = "live"]
        /\ UNCHANGED <<conflux, pool, cfx_legs>>
        /\ \A c \in Circs : state["client"][c] = "none"
      BY <1>1, Fresh DEF launch_new_set, SetInv
  <2>2. \A c \in Circs : conflux["client"][c] = NoObj
      BY <2>1, <1>o, <1>e
  <2>3. state'["exit"] = state["exit"]
      BY <1>1 DEF launch_new_set, TypeOK
  <2>4. ObjInv("exit")'
    <3>1. status'["exit"] = status["exit"]
        BY <2>1, <1>e DEF TypeOK
    <3> QED
        BY <2>1, <2>3, <3>1, <1>e, ObjFrame
  <2>5. ObjInv("client")'
    <3>1. \A o \in Objs : status["client"][o] = "live" <=> Referenced("client", o)
        BY <1>e DEF ObjInv
    <3>2. \A o \in Objs : status'["client"][o] = "live" <=> Referenced("client", o)'
        BY <2>1, <3>1, <1>e DEF Referenced, TypeOK
    <3>3. \A o \in Objs : cfx_legs["client"][o] = {}
        BY <2>2, <1>e DEF ObjInv, TypeOK
    <3> QED
        BY <2>1, <2>2, <3>2, <3>3, <1>e DEF ObjInv, TypeOK
  <2> QED
      BY <2>4, <2>5, <1>e
<1>2. ASSUME NEW c \in Circs, conflux_circuit_has_opened(c)
      PROVE  \A e \in Ends : ObjInv(e)'
  <2>1. state["client"][c] = "building" /\ state["exit"][c] = "none"
      BY <1>2 DEF conflux_circuit_has_opened, WireInv
  <2>2. conflux["client"][c] = NoObj /\ conflux["exit"][c] = NoObj
      BY <2>1, <1>o, <1>e
  <2>3. UNCHANGED <<conflux, pool, cfx_legs, status, unlinked>>
      BY <1>2 DEF conflux_circuit_has_opened
  <2>4. \A x \in Ends, d \in Circs : conflux[x][d] # NoObj => state'[x][d] = state[x][d]
      BY <1>2, <2>2, <1>e DEF conflux_circuit_has_opened, TypeOK
  <2> QED
      BY <2>3, <2>4, ObjFrame
<1>4. ASSUME NEW c \in Circs, conflux_process_linked(c)
      PROVE  \A e \in Ends : ObjInv(e)'
  <2>1. CASE conflux_circuit_has_closed("client", c)
      BY <1>4, <2>1, <1>x, <1>e DEF conflux_process_linked
  <2>2. CASE ~conflux_circuit_has_closed("client", c)
    <3>1. /\ c \in legs /\ Up("client", c)
          /\ \E m \in wire : m.circ = c
          /\ \/ FinalizeSet /\ StillWaiting(c) = {}
             \/ UNCHANGED <<conflux, cfx_legs, pool, unlinked>>
          /\ UNCHANGED <<state, status>>
        BY <1>4, <2>2 DEF conflux_process_linked
    <3>2. CASE FinalizeSet /\ StillWaiting(c) = {}
      <4>1. unlinked = ClientCfx /\ pool["client"] = NoObj
            /\ \A d \in Circs : conflux["client"][d] = NoObj
          BY <3>1, <1>e DEF SetInv
      <4>2. \A o \in Objs : cfx_legs["client"][o] = {}
          BY <4>1, <1>e DEF ObjInv, TypeOK
      <4>3. \A d \in legs : state["client"][d] = "open"
        <5>1. \A d \in legs : d = c \/ d \in linked
            BY <3>2 DEF StillWaiting
        <5>2. state["client"][c] \notin {"none", "building"}
            BY <3>1 DEF WireInv
        <5>3. \A d \in legs : state["client"][d] \in {"building", "open"}
            BY <3>1 DEF SetInv, Up
        <5> QED
            BY <5>1, <5>2, <5>3 DEF SetInv
      <4>4. /\ \A d \in Circs : conflux'["client"][d] =
                  IF d \in legs THEN ClientCfx ELSE NoObj
            /\ conflux'["exit"] = conflux["exit"]
          BY <3>2, <4>1, <1>e DEF FinalizeSet, TypeOK
      <4>5. /\ \A o \in Objs : cfx_legs'["client"][o] =
                  IF o = ClientCfx THEN legs ELSE {}
            /\ cfx_legs'["exit"] = cfx_legs["exit"]
          BY <3>2, <4>1, <4>2, <1>e DEF FinalizeSet, TypeOK
      <4>6. /\ pool'["client"] = ClientCfx /\ pool'["exit"] = pool["exit"]
            /\ unlinked' = NoObj /\ state' = state /\ status' = status
          BY <3>1, <3>2, <4>1, <1>e DEF FinalizeSet, TypeOK
      <4>7. ObjInv("exit")'
          BY <4>4, <4>5, <4>6, <1>e, ObjFrame
      <4>8. ObjInv("client")'
        <5>1. \A o \in Objs : status["client"][o] = "live" <=> Referenced("client", o)
            BY <1>e DEF ObjInv
        <5>2. \A o \in Objs : Referenced("client", o) <=> o = ClientCfx
            BY <4>1, <1>e DEF Referenced
        <5>3. \A o \in Objs : Referenced("client", o)' <=> o = ClientCfx
            BY <4>4, <4>6, <1>e DEF Referenced
        <5>4. \A o \in Objs : status'["client"][o] = "live" <=> Referenced("client", o)'
            BY <5>1, <5>2, <5>3, <4>6
        <5>5. legs # {} /\ legs \subseteq Circs
            BY <3>1 DEF TypeOK
        <5>6. ClientCfx \in Objs /\ ClientCfx # NoObj
            BY ObjsAssumption DEF Objs
        <5>7. \A o \in Objs : \A d \in cfx_legs'["client"][o] :
                 conflux'["client"][d] = o /\ state'["client"][d] = "open"
            BY <4>3, <4>4, <4>5, <4>6, <5>5
        <5>8. \A d \in Circs : conflux'["client"][d] # NoObj
                 => conflux'["client"][d] = ClientCfx /\ d \in cfx_legs'["client"][ClientCfx]
            BY <4>4, <4>5, <5>6
        <5>9. cfx_legs'["client"][pool'["client"]] # {}
            BY <4>5, <4>6, <5>5, <5>6
        <5> QED
            BY <5>4, <5>7, <5>8, <5>9 DEF ObjInv
      <4> QED
          BY <4>7, <4>8, <1>e
    <3> QED
        BY <3>1, <3>2, <1>f
  <2> QED
      BY <2>1, <2>2
<1>5. ASSUME NEW c \in Circs, conflux_process_linked_ack(c)
      PROVE  \A e \in Ends : ObjInv(e)'
    BY <1>5, <1>f DEF conflux_process_linked_ack
<1>6. ASSUME NEW e \in Ends, NEW c \in Circs, circuit_mark_for_close(e, c)
      PROVE  \A x \in Ends : ObjInv(x)'
    BY <1>6, <1>x DEF circuit_mark_for_close
<1>7. ASSUME NEW e \in Ends, NEW c \in Circs, SendData(e, c) \/ DataArrives(e, c)
      PROVE  \A x \in Ends : ObjInv(x)'
    BY <1>7, <1>f DEF SendData, DataArrives
<1>9. ASSUME NEW e \in Ends, circuit_close_all_marked(e)
      PROVE  \A x \in Ends : ObjInv(x)'
    BY <1>9, <1>g DEF circuit_close_all_marked
<1>10. ASSUME NEW e \in Ends, NEW c \in Circs, FreeAtExit(e, c)
       PROVE  \A x \in Ends : ObjInv(x)'
    BY <1>10, <1>g DEF FreeAtExit
<1>11. ASSUME NEW e \in Ends, Shutdown(e) PROVE \A x \in Ends : ObjInv(x)'
    BY <1>11, <1>f DEF Shutdown
<1>12. ASSUME NEW e \in Ends, conflux_pool_free_all(e)
       PROVE  \A x \in Ends : ObjInv(x)'
  <2>1. \A c \in Circs : conflux[e][c] = NoObj
      BY <1>12, <1>o DEF conflux_pool_free_all
  <2>2. \A o \in Objs : cfx_legs[e][o] = {}
      BY <2>1, <1>e DEF ObjInv, TypeOK
  <2>3. pool[e] = NoObj
      BY <2>2 DEF ObjInv, TypeOK
  <2>4. /\ UNCHANGED <<state, conflux, cfx_legs>>
        /\ \A x \in Ends : pool'[x] = IF x = e THEN NoObj ELSE pool[x]
        /\ e = "client" => unlinked' = NoObj
        /\ e # "client" => unlinked' = unlinked
      BY <1>12 DEF conflux_pool_free_all, TypeOK
  <2>5. /\ \A o \in Objs : status'[e][o] =
              IF e = "client" /\ o = unlinked THEN "freed" ELSE status[e][o]
        /\ \A x \in Ends : x # e => status'[x] = status[x]
      BY <1>12, <2>3, <1>e DEF conflux_pool_free_all, TypeOK
  <2>6. \A x \in Ends : x # e => ObjInv(x)'
      BY <2>4, <2>5, <1>e, ObjFrame
  <2>7. ObjInv(e)'
    <3>1. \A o \in Objs : status[e][o] = "live" <=> e = "client" /\ unlinked = o
      <4>1. \A o \in Objs : status[e][o] = "live" <=> Referenced(e, o)
          BY DEF ObjInv
      <4>2. \A o \in Objs : Referenced(e, o) <=> e = "client" /\ unlinked = o
          BY <2>1, <2>3, <1>e DEF Referenced
      <4> QED
          BY <4>1, <4>2
    <3>2. \A o \in Objs : status'[e][o] = "live" <=> Referenced(e, o)'
        BY <3>1, <2>1, <2>3, <2>4, <2>5, <1>e DEF Referenced
    <3> QED
        BY <3>2, <2>1, <2>2, <2>4 DEF ObjInv
  <2> QED
      BY <2>6, <2>7
<1>13. CASE UNCHANGED vars
    BY <1>13, <1>f DEF vars
<1>3. ASSUME NEW c \in Circs, conflux_process_link(c)
      PROVE  \A e \in Ends : ObjInv(e)'
  <2>1. CASE /\ state' = [state EXCEPT !["exit"][c] = "marked"]
             /\ UNCHANGED <<conflux, cfx_legs, pool, status>>
    <3>1. conflux["exit"][c] = NoObj /\ unlinked' = unlinked
        BY <1>3 DEF conflux_process_link
    <3>2. \A x \in Ends, d \in Circs :
             conflux[x][d] # NoObj => state'[x][d] = state[x][d]
        BY <2>1, <3>1, <1>e DEF TypeOK
    <3> QED
        BY <2>1, <3>1, <3>2, ObjFrame
  <2>2. ASSUME NEW o \in Objs, o = ExitObj(c),
               conflux' = [conflux EXCEPT !["exit"][c] = o],
               cfx_legs' = [cfx_legs EXCEPT !["exit"][o] = @ \cup {c}],
               pool' = [pool EXCEPT !["exit"] = o],
               status' = [status EXCEPT !["exit"][o] = "live"],
               UNCHANGED state
        PROVE  \A e \in Ends : ObjInv(e)'
    <3>1. /\ conflux["exit"][c] = NoObj /\ unlinked' = unlinked /\ Up("exit", c)
          /\ status["exit"][c] = "new"
        BY <1>3 DEF conflux_process_link, WireInv
    <3>2. /\ conflux'["client"] = conflux["client"] /\ pool'["client"] = pool["client"]
          /\ cfx_legs'["client"] = cfx_legs["client"]
          /\ status'["client"] = status["client"]
        BY <2>2, <1>e DEF TypeOK
    <3>3. ObjInv("client")'
        BY <2>2, <3>1, <3>2, <1>e, ObjFrame
    <3>4. /\ \A d \in Circs : conflux'["exit"][d] =
                IF d = c THEN o ELSE conflux["exit"][d]
          /\ pool'["exit"] = o
          /\ \A p \in Objs : status'["exit"][p] =
                IF p = o THEN "live" ELSE status["exit"][p]
        BY <2>2, <1>e DEF TypeOK
    <3>5. \A p \in Objs : cfx_legs'["exit"][p] =
             IF p = o THEN cfx_legs["exit"][p] \cup {c} ELSE cfx_legs["exit"][p]
        BY <2>2, <1>e DEF TypeOK
    <3>6. state["exit"][c] = "open"
        BY <3>1 DEF Up, WireInv
    <3>7. \A d \in Circs : conflux["exit"][d] = o => d \in cfx_legs["exit"][o]
      <4>1. CASE pool["exit"] = o
          BY <4>1, <1>e DEF ObjInv
      <4>2. CASE o = c
        <5>1. ~Referenced("exit", o)
            BY <4>2, <3>1, <1>e DEF ObjInv
        <5> QED
            BY <5>1 DEF Referenced
      <4> QED
          BY <4>1, <4>2, <2>2 DEF ExitObj
    <3>8. pool["exit"] # NoObj => pool["exit"] = o
        BY <2>2 DEF ExitObj
    <3>9. ObjInv("exit")'
      <4>0. \A p \in Objs : \A d \in cfx_legs["exit"][p] :
               d \in Circs /\ conflux["exit"][d] = p /\ state["exit"][d] = "open"
          BY <1>e DEF ObjInv, TypeOK
      <4>a. cfx_legs'["exit"][o] = cfx_legs["exit"][o] \cup {c} /\ state' = state
          BY <2>2, <3>5
      <4>b. \A p \in Objs : p # o => cfx_legs'["exit"][p] = cfx_legs["exit"][p]
          BY <3>5
      <4>1. \A p \in Objs : \A d \in cfx_legs'["exit"][p] :
               conflux'["exit"][d] = p /\ state'["exit"][d] = "open"
          BY <4>0, <2>2, <3>1, <3>4, <3>5, <3>6, <1>e
      <4>2. \A d \in Circs :
               conflux'["exit"][d] # NoObj /\ d \notin cfx_legs'["exit"][conflux'["exit"][d]]
               => /\ state'["exit"][d] = "marked"
                  /\ cfx_legs'["exit"][conflux'["exit"][d]] = {}
                  /\ pool'["exit"] # conflux'["exit"][d]
        <5>1. SUFFICES ASSUME NEW d \in Circs, conflux'["exit"][d] # NoObj,
                              d \notin cfx_legs'["exit"][conflux'["exit"][d]]
                       PROVE  /\ state'["exit"][d] = "marked"
                              /\ cfx_legs'["exit"][conflux'["exit"][d]] = {}
                              /\ pool'["exit"] # conflux'["exit"][d]
            OBVIOUS
        <5>2. d # c /\ conflux'["exit"][d] = conflux["exit"][d]
            BY <5>1, <3>4, <3>5
        <5>3. conflux["exit"][d] \in Objs
            BY <5>1, <5>2, <1>e DEF TypeOK
        <5>4. conflux["exit"][d] # o
            BY <5>1, <5>2, <4>a, <3>7
        <5>5. cfx_legs'["exit"][conflux["exit"][d]] = cfx_legs["exit"][conflux["exit"][d]]
            BY <5>3, <5>4, <4>b
        <5>6. /\ state["exit"][d] = "marked"
              /\ cfx_legs["exit"][conflux["exit"][d]] = {}
            BY <5>1, <5>2, <5>5, <1>e DEF ObjInv
        <5> QED
            BY <5>2, <5>4, <5>5, <5>6, <4>a, <3>4
      <4>3. pool'["exit"] # NoObj => cfx_legs'["exit"][pool'["exit"]] # {}
          BY <3>4, <3>5
      <4>4. \A x, y \in Circs :
               conflux'["exit"][x] # NoObj /\ conflux'["exit"][x] = conflux'["exit"][y] /\ x # y
               => {x, y} \subseteq cfx_legs'["exit"][conflux'["exit"][x]]
        <5>1. SUFFICES ASSUME NEW x \in Circs, NEW y \in Circs,
                              conflux'["exit"][x] # NoObj, x # y,
                              conflux'["exit"][x] = conflux'["exit"][y]
                       PROVE  {x, y} \subseteq cfx_legs'["exit"][conflux'["exit"][x]]
            OBVIOUS
        <5>2. CASE conflux'["exit"][x] = o
          <6>1. \A z \in {x, y} : z = c \/ conflux["exit"][z] = o
              BY <5>1, <5>2, <3>4
          <6> QED
              BY <5>2, <6>1, <4>a, <3>7
        <5>3. CASE conflux'["exit"][x] # o
          <6>1. /\ conflux'["exit"][x] = conflux["exit"][x]
                /\ conflux["exit"][y] = conflux["exit"][x]
                /\ conflux["exit"][x] \in Objs
              BY <5>1, <5>3, <3>4, <1>e DEF TypeOK
          <6>2. {x, y} \subseteq cfx_legs["exit"][conflux["exit"][x]]
            <7>1. ObjInv("exit") /\ conflux["exit"][x] # NoObj
                BY <5>1, <6>1, <1>e
            <7>2. \A u, v \in Circs :
                     conflux["exit"][u] # NoObj /\ conflux["exit"][u] = conflux["exit"][v] /\ u # v
                     => {u, v} \subseteq cfx_legs["exit"][conflux["exit"][u]]
                BY <7>1 DEF ObjInv
            <7> QED
                BY <7>1, <7>2, <5>1, <6>1
          <6>3. cfx_legs'["exit"][conflux'["exit"][x]] = cfx_legs["exit"][conflux["exit"][x]]
              BY <5>3, <6>1, <4>b
          <6> QED
              BY <6>2, <6>3
        <5> QED
            BY <5>2, <5>3
      <4>5. ASSUME NEW p \in Objs
            PROVE  status'["exit"][p] = "live" <=> Referenced("exit", p)'
        <5>1. CASE p = o
            BY <5>1, <3>4 DEF Referenced
        <5>2. CASE p # o
          <6>1. status["exit"][p] = "live" <=> Referenced("exit", p)
              BY <1>e DEF ObjInv
          <6>2. /\ \A d \in Circs : conflux["exit"][d] = p <=> conflux'["exit"][d] = p
                /\ pool["exit"] = p <=> pool'["exit"] = p
            <7>1. p # NoObj
                BY ObjsAssumption
            <7> QED
                BY <7>1, <5>2, <3>1, <3>4, <3>8, <1>e
          <6>3. Referenced("exit", p) <=> Referenced("exit", p)'
              BY <6>2 DEF Referenced
          <6> QED
              BY <6>1, <6>3, <5>2, <3>4
        <5> QED
            BY <5>1, <5>2
      <4> QED
          BY <4>1, <4>2, <4>3, <4>4, <4>5 DEF ObjInv
    <3> QED
        BY <3>3, <3>9, <1>e
  <2>3. ExitObj(c) \in Objs
      BY <1>e DEF ExitObj, TypeOK, Objs
  <2> QED
      BY <1>3, <2>1, <2>2, <2>3 DEF conflux_process_link
<1> QED
    BY <1>1, <1>2, <1>3, <1>4, <1>5, <1>6, <1>7, <1>9, <1>10, <1>11,
       <1>12, <1>13 DEF Next

-----------------------------------------------------------------------------
(* The client's unlinked set. *)

\* A step that leaves the client's circuits, pools and set alone.
LEMMA SetFrame ==
    ASSUME SetInv, state'["client"] = state["client"],
           conflux'["client"] = conflux["client"], pool'["client"] = pool["client"],
           sent'["client"] = sent["client"], status'["client"] = status["client"],
           UNCHANGED <<unlinked, legs, linked>>, stopping \subseteq stopping'
    PROVE  SetInv'
<1>1. "client" \notin stopping' => "client" \notin stopping
    OBVIOUS
<1> QED
    BY <1>1 DEF SetInv

\* Every step keeps the client's unlinked set in order: it exists while it has
\* legs, its circuits are up, and nothing of its nonce is linked yet.
LEMMA SetStep == IndInv /\ [Next]_vars => SetInv'
<1> SUFFICES ASSUME IndInv, [Next]_vars PROVE SetInv'
    OBVIOUS
<1>t. TypeOK /\ SetInv /\ WireInv /\ \A e \in Ends : ObjInv(e)
    BY ByEnd DEF IndInv
<1> USE <1>t DEF setVars, objVars
<1>e. "client" \in Ends /\ "exit" \in Ends /\ ClientCfx \in Objs /\ ClientCfx # NoObj
      /\ NoObj \notin Objs /\ ClientCfx \notin Circs /\ Circs \subseteq Objs
      /\ \A e \in Ends : e # "client" => e = "exit"
    BY ObjsAssumption DEF Ends, Objs
\* A circuit with a conflux_t is open or marked.
<1>o. ASSUME NEW e \in Ends, NEW c \in Circs, conflux[e][c] # NoObj
      PROVE  state[e][c] \in {"open", "marked"}
    BY <1>o DEF ObjInv, TypeOK
\* A circuit closes.
<1>x. ASSUME NEW e \in Ends, NEW c \in Circs, Up(e, c), conflux_circuit_has_closed(e, c)
      PROVE  SetInv'
  <2>0. state[e][c] \in {"building", "open"} /\ e \notin stopping
      BY <1>x DEF Up
  <2>1. CASE e = "client" /\ unlinked_circuit_closed(c)
    <3>1. /\ c \in legs /\ unlinked = ClientCfx /\ linked' = linked \ {c}
          /\ UNCHANGED <<conflux, pool, sent, stopping>>
          /\ status["client"][ClientCfx] = "live"
      <4>1. c \in legs /\ unlinked = ClientCfx
          BY <2>1 DEF unlinked_circuit_closed, SetInv
      <4>2. Referenced("client", ClientCfx)
          BY <4>1 DEF Referenced
      <4>3. status["client"][ClientCfx] = "live"
          BY <4>2, <1>e DEF ObjInv
      <4> QED
          BY <4>1, <4>3, <2>1 DEF unlinked_circuit_closed
    <3>2. CASE legs = {c}
      <4>1. /\ \A d \in Circs : state'["client"][d] =
                  IF d = c THEN "marked" ELSE state["client"][d]
            /\ legs' = {} /\ unlinked' = NoObj
          BY <2>1, <3>2, <1>e DEF unlinked_circuit_closed, TypeOK
      <4>2. \A o \in Objs : status'["client"][o] =
               IF o = ClientCfx THEN "freed" ELSE status["client"][o]
          BY <2>1, <3>1, <3>2, <1>e DEF unlinked_circuit_closed, TypeOK
      <4>3. linked' = {}
          BY <3>1, <3>2 DEF TypeOK
      <4>4. \A d \in Circs : state'["client"][d] \notin {"building", "open"}
          BY <4>1, <3>1, <3>2, <2>0, <2>1 DEF SetInv
      <4> QED
          BY <4>1, <4>2, <4>3, <4>4, <1>e DEF SetInv
    <3>3. CASE legs # {c}
      <4>1. UNCHANGED <<unlinked, status>>
          BY <2>1, <3>3 DEF unlinked_circuit_closed
      <4>2. ASSUME NEW d \in Unused,
                   state' = [state EXCEPT !["client"][c] = "marked",
                                          !["client"][d] = "building"],
                   legs' = (legs \ {c}) \cup {d}
            PROVE  SetInv'
        <5>1. d \in Circs /\ state["client"][d] = "none" /\ d # c /\ d \notin linked
            BY <2>0, <2>1, <4>2 DEF Unused, SetInv
        <5>2. \A y \in Circs : state'["client"][y] =
                 IF y = c THEN "marked" ELSE
                 IF y = d THEN "building" ELSE state["client"][y]
            BY <4>2, <5>1, <1>e DEF TypeOK
        <5>3. linked \subseteq Circs /\ legs \subseteq Circs
            BY DEF TypeOK
        <5>4. \A y \in legs' : state'["client"][y] \in {"building", "open"}
            BY <5>1, <5>2, <5>3, <4>2, <2>0, <2>1 DEF SetInv
        <5>5. \A y \in Circs : state'["client"][y] \in {"building", "open"} =>
                 y \in legs' \/ conflux'["client"][y] # NoObj
            BY <5>1, <5>2, <4>2, <3>1, <2>0, <2>1 DEF SetInv
        <5>6. \A y \in linked' : state'["client"][y] \notin {"none", "building"}
            BY <5>1, <5>2, <5>3, <3>1 DEF SetInv
        <5> QED
            BY <5>4, <5>5, <5>6, <4>1, <4>2, <3>1, <1>e DEF SetInv
      <4>3. ASSUME state' = [state EXCEPT !["client"][c] = "marked"],
                   legs' = legs \ {c}
            PROVE  SetInv'
        <5>2. \A y \in Circs : state'["client"][y] =
                 IF y = c THEN "marked" ELSE state["client"][y]
            BY <4>3, <1>e DEF TypeOK
        <5>3. linked \subseteq Circs /\ legs \subseteq Circs /\ legs' # {}
            BY <4>3, <3>1, <3>3 DEF TypeOK
        <5>4. \A y \in legs' : state'["client"][y] \in {"building", "open"}
            BY <5>2, <5>3, <4>3, <2>0, <2>1 DEF SetInv
        <5>5. \A y \in Circs : state'["client"][y] \in {"building", "open"} =>
                 y \in legs' \/ conflux'["client"][y] # NoObj
            BY <5>2, <4>3, <3>1, <2>0, <2>1 DEF SetInv
        <5>6. \A y \in linked' : state'["client"][y] \notin {"none", "building"}
            BY <5>2, <5>3, <3>1 DEF SetInv
        <5> QED
            BY <5>3, <5>4, <5>5, <5>6, <4>1, <3>1, <1>e DEF SetInv
      <4> QED
          BY <4>2, <4>3, <2>1, <3>3 DEF unlinked_circuit_closed
    <3> QED
        BY <3>2, <3>3
  <2>2. CASE e = "exit"
    <3>1. linked_circuit_closed(e, c) \/ PlainClose(e, c)
        BY <2>2, <1>x DEF conflux_circuit_has_closed
    <3>2. /\ state'["client"] = state["client"] /\ conflux'["client"] = conflux["client"]
          /\ pool'["client"] = pool["client"]
          /\ UNCHANGED <<sent, status, unlinked, legs, linked, stopping>>
      <4>1. CASE linked_circuit_closed(e, c)
          BY <4>1, <2>2, <1>e DEF linked_circuit_closed, TypeOK
      <4>2. CASE PlainClose(e, c)
          BY <4>2, <2>2, <1>e DEF PlainClose, TypeOK
      <4> QED
          BY <3>1, <4>1, <4>2
    <3> QED
        BY <3>2, SetFrame
  <2>3. CASE e = "client" /\ linked_circuit_closed(e, c)
    <3>1. PICK D \in SUBSET Circs, last \in Circs, q \in Objs : Closes(e, c, D, last, q)
        BY <2>3, <1>x, CloseEffect
    <3>2. conflux["client"][c] # NoObj /\ unlinked = NoObj /\ legs = {} /\ linked = {}
        BY <2>3 DEF linked_circuit_closed, SetInv, TypeOK
    <3>3. UNCHANGED <<status, sent, unlinked, legs, linked, stopping>>
        BY <2>3 DEF linked_circuit_closed
    <3>4. \A d \in Circs : /\ state'["client"][d] \in {"building", "open"} => d \notin D
                           /\ d \notin D => /\ state'["client"][d] = state["client"][d]
                                            /\ conflux'["client"][d] = conflux["client"][d]
        BY <3>1, <2>3, <1>e DEF Closes
    <3>5. status["client"][ClientCfx] # "new"
        BY <2>0, <2>3 DEF SetInv
    <3> QED
        BY <3>2, <3>3, <3>4, <3>5, <2>0, <2>3 DEF SetInv
  <2>4. ~(e = "client" /\ PlainClose(e, c))
      BY <2>0 DEF PlainClose, SetInv
  <2> QED
      BY <1>x, <2>1, <2>2, <2>3, <2>4, <1>e DEF conflux_circuit_has_closed
\* Circuits are freed.
<1>g. ASSUME NEW e \in Ends, NEW C \in SUBSET Circs, FreeCircs(e, C),
             UNCHANGED stopping,
             \A d \in C : /\ state[e][d] # "none"
                          /\ e \in stopping \/ state[e][d] = "marked",
             C # {}
      PROVE  SetInv'
  <2>1. CASE e = "exit"
    <3>1. /\ state'["client"] = state["client"] /\ conflux'["client"] = conflux["client"]
          /\ pool'["client"] = pool["client"] /\ status'["client"] = status["client"]
          /\ UNCHANGED <<sent, unlinked, legs, linked>>
        BY <2>1, <1>g, <1>e DEF FreeCircs, TypeOK
    <3> QED
        BY <3>1, <1>g, SetFrame
  <2>2. CASE e = "client"
    <3>1. /\ \A d \in Circs : state'["client"][d] =
                IF d \in C THEN "freed" ELSE state["client"][d]
          /\ \A d \in Circs : conflux'["client"][d] =
                IF d \in C THEN NoObj ELSE conflux["client"][d]
          /\ pool["client"] = NoObj => pool'["client"] = NoObj
          /\ UNCHANGED <<sent, unlinked, legs, linked, stopping>>
        BY <2>2, <1>g, <1>e DEF FreeCircs, TypeOK
    <3>2. \A o \in Objs : status'["client"][o] =
             IF o \in Frees("client", C) THEN "freed" ELSE status["client"][o]
        BY <2>2, <1>g, <1>e DEF FreeCircs, TypeOK
    <3>3. \A o \in Frees("client", C) : status["client"][o] = "live"
      <4>1. \A o \in Frees("client", C) : o \in Objs /\ \E d \in C : conflux["client"][d] = o
          BY DEF Frees, LastHeldBy
      <4> QED
          BY <4>1, <1>e DEF ObjInv, Referenced
    <3>4. status["client"][ClientCfx] # "new"
        BY <2>2, <1>g DEF SetInv
    <3>5. /\ \A d \in Circs : status'["client"][d] = "new"
          /\ status'["client"][ClientCfx] # "new"
        BY <3>2, <3>3, <3>4, <1>e DEF SetInv
    <3>6. linked \subseteq Circs /\ legs \subseteq Circs
        BY DEF TypeOK
    <3>7. \A d \in linked' : state'["client"][d] \notin {"none", "building"}
        BY <3>1, <3>6 DEF SetInv
    <3>8. "client" \notin stopping =>
             /\ \A d \in legs : state'["client"][d] \in {"building", "open"}
             /\ \A d \in Circs : state'["client"][d] \in {"building", "open"} =>
                   d \in legs \/ conflux'["client"][d] # NoObj
        BY <3>1, <3>6, <2>2, <1>g DEF SetInv
    <3> QED
        BY <3>1, <3>5, <3>7, <3>8, <1>e DEF SetInv
  <2> QED
      BY <2>1, <2>2, <1>e
<1>1. CASE launch_new_set
  <2>1. PICK C \in SUBSET Circs :
           /\ C # {}
           /\ state' = [state EXCEPT !["client"] =
                          [c \in Circs |-> IF c \in C THEN "building" ELSE @[c]]]
           /\ legs' = C
      BY <1>1 DEF launch_new_set
  <2>2. /\ unlinked' = ClientCfx /\ unlinked = NoObj /\ linked = {}
        /\ status' = [status EXCEPT !["client"][ClientCfx] = "live"]
        /\ UNCHANGED <<conflux, pool, sent, linked, stopping>>
        /\ \A c \in Circs : state["client"][c] = "none"
        /\ sent["client"][ClientCfx] = 0
        /\ ~Referenced("client", ClientCfx)
      BY <1>1, Fresh DEF launch_new_set, SetInv
  <2>3. \A c \in Circs : state'["client"][c] = IF c \in C THEN "building" ELSE "none"
      BY <2>1, <2>2, <1>e DEF TypeOK
  <2>4. \A o \in Objs : status'["client"][o] =
           IF o = ClientCfx THEN "live" ELSE status["client"][o]
      BY <2>2, <1>e DEF TypeOK
  <2>5. \A c \in Circs : conflux["client"][c] = NoObj
      BY <2>2, <1>o, <1>e
  <2>6. pool["client"] = NoObj
    <3>1. \A o \in Objs : cfx_legs["client"][o] = {}
        BY <2>5, <1>e DEF ObjInv, TypeOK
    <3> QED
        BY <3>1, <1>e DEF ObjInv, TypeOK
  <2> QED
      BY <2>1, <2>2, <2>3, <2>4, <2>5, <2>6, <1>e DEF SetInv
<1>2. ASSUME NEW c \in Circs, conflux_circuit_has_opened(c) PROVE SetInv'
  <2>1. /\ state["client"][c] = "building"
        /\ \A d \in Circs : state'["client"][d] =
              IF d = c THEN "open" ELSE state["client"][d]
        /\ UNCHANGED <<conflux, pool, sent, status, unlinked, legs, linked, stopping>>
      BY <1>2, <1>e DEF conflux_circuit_has_opened, TypeOK
  <2>2. linked \subseteq Circs /\ legs \subseteq Circs
      BY DEF TypeOK
  <2> QED
      BY <2>1, <2>2 DEF SetInv
<1>3. ASSUME NEW c \in Circs, conflux_process_link(c) PROVE SetInv'
  <2>1. UNCHANGED <<sent, unlinked, legs, linked, stopping>>
      BY <1>3 DEF conflux_process_link
  <2>2. ASSUME NEW o,
               conflux' = [conflux EXCEPT !["exit"][c] = o],
               pool' = [pool EXCEPT !["exit"] = o],
               status' = [status EXCEPT !["exit"][o] = "live"]
        PROVE  /\ conflux'["client"] = conflux["client"] /\ pool'["client"] = pool["client"]
               /\ status'["client"] = status["client"]
      BY <2>2, <1>e DEF TypeOK
  <2>3. ASSUME state' = [state EXCEPT !["exit"][c] = "marked"]
        PROVE  state'["client"] = state["client"]
      BY <2>3, <1>e DEF TypeOK
  <2>4. /\ state'["client"] = state["client"] /\ conflux'["client"] = conflux["client"]
        /\ pool'["client"] = pool["client"] /\ status'["client"] = status["client"]
      BY <1>3, <2>2, <2>3 DEF conflux_process_link
  <2> QED
      BY <2>1, <2>4, SetFrame
<1>4. ASSUME NEW c \in Circs, conflux_process_linked(c) PROVE SetInv'
  <2>1. CASE conflux_circuit_has_closed("client", c)
      BY <1>4, <2>1, <1>x, <1>e DEF conflux_process_linked
  <2>2. CASE ~conflux_circuit_has_closed("client", c)
    <3>1. /\ c \in legs /\ Up("client", c)
          /\ \E m \in wire : m.circ = c
          /\ \/ FinalizeSet
             \/ /\ UNCHANGED <<conflux, pool, legs, unlinked>>
                /\ linked' = linked \cup {c}
          /\ UNCHANGED <<state, status, sent, stopping>>
        BY <1>4, <2>2 DEF conflux_process_linked
    <3>2. state["client"][c] \notin {"none", "building"}
        BY <3>1 DEF WireInv
    <3>3. unlinked = ClientCfx /\ \A d \in Circs : conflux["client"][d] = NoObj
        BY <3>1 DEF SetInv
    <3>4. CASE FinalizeSet
      <4>1. /\ \A d \in Circs : conflux'["client"][d] =
                  IF d \in legs THEN ClientCfx ELSE NoObj
            /\ unlinked' = NoObj /\ legs' = {} /\ linked' = {}
          BY <3>3, <3>4, <1>e DEF FinalizeSet, TypeOK
      <4> QED
          BY <4>1, <3>1, <3>3, <1>e DEF SetInv
    <3>5. CASE /\ UNCHANGED <<conflux, pool, legs, unlinked>>
               /\ linked' = linked \cup {c}
        BY <3>1, <3>2, <3>5 DEF SetInv
    <3> QED
        BY <3>1, <3>4, <3>5
  <2> QED
      BY <2>1, <2>2
<1>5. ASSUME NEW c \in Circs, conflux_process_linked_ack(c) PROVE SetInv'
    BY <1>5, SetFrame DEF conflux_process_linked_ack
<1>6. ASSUME NEW e \in Ends, NEW c \in Circs, circuit_mark_for_close(e, c) PROVE SetInv'
    BY <1>6, <1>x DEF circuit_mark_for_close
<1>7. ASSUME NEW e \in Ends, NEW c \in Circs, SendData(e, c) PROVE SetInv'
  <2>1. UNCHANGED <<state, conflux, pool, status, unlinked, legs, linked, stopping>>
      BY <1>7 DEF SendData
  <2>2. CASE e = "client"
    <3>1. unlinked = NoObj
        BY <1>7, <2>2 DEF SendData, SetInv
    <3>2. status["client"][ClientCfx] # "new"
        BY <1>7, <2>2 DEF SendData, SetInv, Up
    <3> QED
        BY <2>1, <3>1, <3>2 DEF SetInv
  <2>3. CASE e = "exit"
    <3>1. sent'["client"] = sent["client"]
        BY <1>7, <2>3, <1>e DEF SendData, TypeOK
    <3> QED
        BY <2>1, <3>1, SetFrame
  <2> QED
      BY <2>2, <2>3, <1>e
<1>8. ASSUME NEW e \in Ends, NEW c \in Circs, DataArrives(e, c) PROVE SetInv'
    BY <1>8, SetFrame DEF DataArrives
<1>9. ASSUME NEW e \in Ends, circuit_close_all_marked(e) PROVE SetInv'
    BY <1>9, <1>g DEF circuit_close_all_marked
<1>10. ASSUME NEW e \in Ends, NEW c \in Circs, FreeAtExit(e, c) PROVE SetInv'
  <2>1. /\ FreeCircs(e, {c}) /\ UNCHANGED stopping /\ {c} \in SUBSET Circs /\ {c} # {}
        /\ \A d \in {c} : /\ state[e][d] # "none"
                          /\ e \in stopping \/ state[e][d] = "marked"
      BY <1>10 DEF FreeAtExit
  <2> QED
      BY <2>1, <1>g
<1>11. ASSUME NEW e \in Ends, Shutdown(e) PROVE SetInv'
    BY <1>11, SetFrame DEF Shutdown
<1>12. ASSUME NEW e \in Ends, conflux_pool_free_all(e) PROVE SetInv'
  <2>1. CASE e = "exit"
    <3>1. /\ pool'["client"] = pool["client"] /\ status'["client"] = status["client"]
          /\ UNCHANGED <<state, conflux, sent, unlinked, legs, linked, stopping>>
        BY <1>12, <2>1, <1>e DEF conflux_pool_free_all, TypeOK
    <3> QED
        BY <3>1, SetFrame
  <2>2. CASE e = "client"
    <3>1. /\ \A c \in Circs : conflux["client"][c] = NoObj
          /\ unlinked' = NoObj /\ legs' = {} /\ linked' = {}
          /\ UNCHANGED <<state, conflux, sent, stopping>>
      <4>1. \A c \in Circs : conflux["client"][c] = NoObj
          BY <1>12, <2>2, <1>o, <1>e DEF conflux_pool_free_all
      <4> QED
          BY <1>12, <2>2, <4>1 DEF conflux_pool_free_all
    <3>2. pool["client"] = NoObj
      <4>1. \A o \in Objs : cfx_legs["client"][o] = {}
          BY <3>1, <1>e DEF ObjInv, TypeOK
      <4> QED
          BY <4>1, <1>e DEF ObjInv, TypeOK
    <3>3. \A o \in Objs : status'["client"][o] =
             IF o = unlinked THEN "freed" ELSE status["client"][o]
        BY <1>12, <2>2, <3>2, <1>e DEF conflux_pool_free_all, TypeOK
    <3> QED
        BY <1>12, <2>2, <3>1, <3>3, <1>e DEF SetInv, conflux_pool_free_all
  <2> QED
      BY <2>1, <2>2, <1>e
<1>13. CASE UNCHANGED vars
    BY <1>13, SetFrame DEF vars
<1> QED
    BY <1>1, <1>2, <1>3, <1>4, <1>5, <1>6, <1>7, <1>8, <1>9, <1>10, <1>11,
       <1>12, <1>13 DEF Next

-----------------------------------------------------------------------------
(* Cells under way. *)

\* The parts of WireInv: about one circuit, about one cell, about two cells,
\* about one conflux_t.
CircOK(c) ==
    /\ state["client"][c] \in {"none", "building"} =>
         state["exit"][c] = "none" /\ \A m \in wire : m.circ # c
    /\ state["exit"][c] # "building"
    /\ state["exit"][c] = "none" => status["exit"][c] = "new"
    /\ c \in linked \/ conflux["client"][c] # NoObj => Answered(c)

CellOK(m) ==
    /\ m.kind = "LINK" =>
         /\ m.to = "exit" /\ m.seq = 0
         /\ conflux["exit"][m.circ] = NoObj /\ status["exit"][m.circ] = "new"
         /\ Up("client", m.circ) => m.circ \in legs \ linked
    /\ m.kind = "LINKED" =>
         /\ m.to = "client" /\ Answered(m.circ)
         /\ Up("client", m.circ) => m.circ \in legs \ linked
         /\ m.seq = 1 => sent["client"][ClientCfx] = 1
    /\ m.kind = "LINKED_ACK" => m.to = "exit" /\ Answered(m.circ)
    /\ m.kind = "DATA" =>
         /\ sent["client"][ClientCfx] = 1
         /\ m.to = "exit" => Answered(m.circ)

PairOK(m, n) ==
    m.circ = n.circ => /\ m.kind = "LINK" => n = m
                       /\ m.kind = "LINKED" /\ n.kind = "LINKED" => n = m

SeqOK(o) ==
    /\ delivered["exit"][o] = 1 => sent["client"][ClientCfx] = 1
    /\ sent["exit"][o] = 1 => delivered["exit"][o] = 1

\* WireInv, taken apart.
LEMMA WireParts ==
    WireInv <=> /\ \A c \in Circs : CircOK(c)
                /\ \A m \in wire : CellOK(m)
                /\ \A m, n \in wire : PairOK(m, n)
                /\ \A o \in Objs : SeqOK(o)
<1>1. ASSUME WireInv PROVE /\ \A c \in Circs : CircOK(c)
                           /\ \A m \in wire : CellOK(m)
                           /\ \A m, n \in wire : PairOK(m, n)
                           /\ \A o \in Objs : SeqOK(o)
    BY <1>1 DEF WireInv, CircOK, CellOK, PairOK, SeqOK
<1>2. ASSUME \A c \in Circs : CircOK(c), \A m \in wire : CellOK(m),
             \A m, n \in wire : PairOK(m, n), \A o \in Objs : SeqOK(o)
      PROVE  WireInv
    BY <1>2 DEF WireInv, CircOK, CellOK, PairOK, SeqOK
<1> QED
    BY <1>1, <1>2

\* And put together after a step.
LEMMA WirePartsPrime ==
    ASSUME \A c \in Circs : CircOK(c)', \A m \in wire' : CellOK(m)',
           \A m, n \in wire' : PairOK(m, n), \A o \in Objs : SeqOK(o)'
    PROVE  WireInv'
BY DEF WireInv, CircOK, CellOK, PairOK, SeqOK

\* What a step does for a circuit whose linking it does not advance.
StaysPut(c) ==
    /\ state'["client"][c] \in {"none", "building"} =>
         state["client"][c] \in {"none", "building"}
    /\ state'["exit"][c] = "none" <=> state["exit"][c] = "none"
    /\ state'["exit"][c] # "building"
    /\ status["exit"][c] = "new" => status'["exit"][c] = "new"
    /\ conflux["exit"][c] = NoObj => conflux'["exit"][c] = NoObj
    /\ Answered(c) => Answered(c)'
    /\ c \in linked' \/ conflux'["client"][c] # NoObj => Answered(c)
    /\ \A m \in wire : m.circ = c /\ m.kind \in {"LINK", "LINKED"} =>
         (Up("client", c)' => Up("client", c) /\ c \in legs' \ linked')

\* A step that sends nothing, and advances no circuit, keeps WireInv.
LEMMA WireFrame ==
    ASSUME TypeOK, WireInv, wire' \subseteq wire,
           sent["client"][ClientCfx] = 1 => sent'["client"][ClientCfx] = 1,
           \A c \in Circs : StaysPut(c),
           \A o \in Objs : SeqOK(o)'
    PROVE  WireInv'
<1>1. /\ \A c \in Circs : CircOK(c)
      /\ \A m \in wire : CellOK(m) /\ m.circ \in Circs
      /\ \A m, n \in wire : PairOK(m, n)
    BY WireParts DEF TypeOK, Cells
<1>2. ASSUME NEW c \in Circs PROVE CircOK(c)'
    BY <1>1 DEF CircOK, StaysPut
<1>3. ASSUME NEW m \in wire' PROVE CellOK(m)'
  <2>1. m \in wire /\ m.circ \in Circs /\ CellOK(m) /\ StaysPut(m.circ)
      BY <1>1
  <2> QED
      BY <2>1 DEF CellOK, StaysPut
<1> QED
    BY <1>1, <1>2, <1>3, WirePartsPrime

\* A step that sends cell k on circuit c, and advances no other circuit.
LEMMA WireSend ==
    ASSUME TypeOK, WireInv, NEW c \in Circs, NEW k, k.circ = c,
           wire' \subseteq wire \cup {k},
           sent["client"][ClientCfx] = 1 => sent'["client"][ClientCfx] = 1,
           \A d \in Circs \ {c} : StaysPut(d),
           CircOK(c)',
           \A m \in wire' : m.circ = c => CellOK(m)' /\ PairOK(m, k) /\ PairOK(k, m),
           \A o \in Objs : SeqOK(o)'
    PROVE  WireInv'
<1>1. /\ \A d \in Circs : CircOK(d)
      /\ \A m \in wire : CellOK(m) /\ m.circ \in Circs
      /\ \A m, n \in wire : PairOK(m, n)
    BY WireParts DEF TypeOK, Cells
<1>2. ASSUME NEW d \in Circs PROVE CircOK(d)'
  <2>1. CASE d = c
      BY <2>1
  <2>2. CASE d # c
    <3>1. \A m \in wire' : m.circ = d => m \in wire
        BY <2>2
    <3> QED
        BY <3>1, <2>2, <1>1 DEF CircOK, StaysPut
  <2> QED
      BY <2>1, <2>2
<1>3. ASSUME NEW m \in wire' PROVE CellOK(m)'
  <2>1. CASE m.circ = c
      BY <2>1
  <2>2. CASE m.circ # c
    <3>1. m \in wire /\ m.circ \in Circs /\ CellOK(m) /\ StaysPut(m.circ)
        BY <1>1, <2>2
    <3> QED
        BY <3>1 DEF CellOK, StaysPut
  <2> QED
      BY <2>1, <2>2
<1>4. ASSUME NEW m \in wire', NEW n \in wire' PROVE PairOK(m, n)
  <2>1. CASE m \in wire /\ n \in wire
      BY <2>1, <1>1
  <2>2. CASE m = k \/ n = k
      BY <2>2 DEF PairOK
  <2> QED
      BY <2>1, <2>2
<1> QED
    BY <1>2, <1>3, <1>4, WirePartsPrime

\* A circuit close keeps the order of the linking cells.
LEMMA WireClose ==
    ASSUME IndInv, NEW e \in Ends, NEW c \in Circs, Up(e, c),
           conflux_circuit_has_closed(e, c)
    PROVE  WireInv'
<1>t. TypeOK /\ SetInv /\ WireInv /\ \A x \in Ends : ObjInv(x)
    BY ByEnd DEF IndInv
<1> USE <1>t DEF setVars, objVars
<1>e. "client" \in Ends /\ "exit" \in Ends /\ \A x \in Ends : x # "client" => x = "exit"
    BY DEF Ends
<1>p. /\ \A d \in Circs : CircOK(d)
      /\ \A m \in wire : CellOK(m) /\ m.circ \in Circs
      /\ \A o \in Objs : SeqOK(o)
    BY WireParts DEF TypeOK, Cells
<1>c. state[e][c] \in {"building", "open"} /\ e \notin stopping
    BY DEF Up
<1>q. /\ UNCHANGED <<sent, delivered, stopping>> /\ wire' \subseteq wire
    BY DEF conflux_circuit_has_closed, unlinked_circuit_closed,
           linked_circuit_closed, PlainClose, Without
<1>r. \A o \in Objs : SeqOK(o)'
    BY <1>p, <1>q DEF SeqOK
<1>1. CASE e = "client" /\ unlinked_circuit_closed(c)
  <2>1. /\ c \in legs /\ linked' = linked \ {c} /\ UNCHANGED <<conflux, pool, cfx_legs>>
      BY <1>1 DEF unlinked_circuit_closed
  <2> DEFINE Replaced(N) ==
           /\ c \notin N /\ legs' = (legs \ {c}) \cup N
           /\ state'["exit"] = state["exit"] /\ status'["exit"] = status["exit"]
           /\ \A d \in Circs : state'["client"][d] =
                 IF d = c THEN "marked" ELSE
                 IF d \in N THEN "building" ELSE state["client"][d]
  <2>2. PICK N \in SUBSET Unused : Replaced(N)
    <3>0. c \notin Unused
        BY <1>1, <1>c DEF Unused
    <3>1. ASSUME NEW d \in Unused,
                 state' = [state EXCEPT !["client"][c] = "marked",
                                        !["client"][d] = "building"],
                 legs' = (legs \ {c}) \cup {d}, UNCHANGED status
          PROVE  \E N \in SUBSET Unused : Replaced(N)
      <4>1. d \in Circs /\ d # c
          BY <3>0 DEF Unused
      <4>2. \A y \in Circs : state'["client"][y] =
               IF y = c THEN "marked" ELSE
               IF y \in {d} THEN "building" ELSE state["client"][y]
          BY <3>1, <4>1, <1>e DEF TypeOK
      <4>3. state'["exit"] = state["exit"]
          BY <3>1, <1>e DEF TypeOK
      <4>4. {d} \in SUBSET Unused /\ c \notin {d}
          BY <4>1
      <4>5. Replaced({d})
          BY <3>1, <4>2, <4>3, <4>4
      <4> HIDE DEF Replaced
      <4> QED
          BY <4>4, <4>5
    <3>2. ASSUME state' = [state EXCEPT !["client"][c] = "marked"],
                 legs' = legs \ {c}, status'["exit"] = status["exit"]
          PROVE  \E N \in SUBSET Unused : Replaced(N)
      <4>1. \A y \in Circs : state'["client"][y] =
               IF y = c THEN "marked" ELSE
               IF y \in {} THEN "building" ELSE state["client"][y]
          BY <3>2, <1>e DEF TypeOK
      <4>2. state'["exit"] = state["exit"]
          BY <3>2, <1>e DEF TypeOK
      <4>3. {} \in SUBSET Unused /\ c \notin {} /\ legs' = (legs \ {c}) \cup {}
          BY <3>2
      <4>4. Replaced({})
          BY <3>2, <4>1, <4>2, <4>3
      <4> HIDE DEF Replaced
      <4> QED
          BY <4>3, <4>4
    <3>3. ASSUME status' = [status EXCEPT !["client"][unlinked] = "freed"]
          PROVE  status'["exit"] = status["exit"]
        BY <3>3, <1>e DEF TypeOK
    <3>4. CASE legs = {c}
      <4>1. /\ state' = [state EXCEPT !["client"][c] = "marked"]
            /\ legs' = legs \ {c}
            /\ status' = [status EXCEPT !["client"][unlinked] = "freed"]
          BY <1>1, <3>4 DEF unlinked_circuit_closed
      <4> HIDE DEF Replaced
      <4> QED
          BY <4>1, <3>2, <3>3
    <3>5. CASE legs # {c}
      <4> HIDE DEF Replaced
      <4> QED
          BY <1>1, <3>1, <3>2, <3>5 DEF unlinked_circuit_closed
    <3> QED
        BY <3>4, <3>5
  <2>3. ASSUME NEW d \in Circs PROVE StaysPut(d)
    <3>1. d \in N => /\ state["client"][d] = "none" /\ d \notin linked
                     /\ \A m \in wire : m.circ # d
        BY <2>2, <1>p DEF Unused, CircOK, SetInv
    <3>2. \A m \in wire : m.circ = d /\ m.kind \in {"LINK", "LINKED"} =>
             (Up("client", d)' => Up("client", d) /\ d \in legs' \ linked')
      <4>1. SUFFICES ASSUME NEW m \in wire, m.circ = d, m.kind \in {"LINK", "LINKED"},
                            Up("client", d)'
                     PROVE  Up("client", d) /\ d \in legs' \ linked'
          OBVIOUS
      <4>2. d # c /\ d \notin N /\ Up("client", d)
          BY <4>1, <3>1, <2>2, <1>q DEF Up
      <4> QED
          BY <4>1, <4>2, <2>1, <2>2, <1>p DEF CellOK
    <3>3. Answered(d) => Answered(d)'
        BY <2>1, <2>2 DEF Answered
    <3>4. state'["client"][d] \in {"none", "building"} =>
             state["client"][d] \in {"none", "building"}
        BY <2>2, <3>1
    <3> QED
        BY <3>2, <3>3, <3>4, <2>1, <2>2, <1>p DEF StaysPut, CircOK
  <2> QED
      BY <2>3, <1>q, <1>r, WireFrame
<1>2. CASE linked_circuit_closed(e, c)
  <2>1. PICK D \in SUBSET Circs, last \in Circs, q \in Objs : Closes(e, c, D, last, q)
      BY <1>2, CloseEffect
  <2>2. UNCHANGED <<status, unlinked, legs, linked>>
      BY <1>2 DEF linked_circuit_closed
  <2>3. \A x \in Ends, d \in Circs :
           /\ state'[x][d] = IF x = e /\ d \in D THEN "marked" ELSE state[x][d]
           /\ conflux'[x][d] = conflux[x][d] \/ (d \in D /\ conflux'[x][d] = NoObj)
           /\ x # e => conflux'[x][d] = conflux[x][d]
           /\ d \notin D => conflux'[x][d] = conflux[x][d]
    <3>1. \A x \in Ends, d \in Circs :
             state'[x][d] = IF x = e /\ d \in D THEN "marked" ELSE state[x][d]
        BY <2>1 DEF Closes
    <3>2. \A x \in Ends, d \in Circs :
           /\ conflux'[x][d] = conflux[x][d] \/ (d \in D /\ conflux'[x][d] = NoObj)
           /\ x # e => conflux'[x][d] = conflux[x][d]
           /\ d \notin D => conflux'[x][d] = conflux[x][d]
        BY <2>1 DEF Closes
    <3> QED
        BY <3>1, <3>2
  <2>4. D \subseteq {d \in Circs : state[e][d] = "open"}
    <3>1. \A d \in D : conflux[e][d] # NoObj /\ d \in cfx_legs[e][conflux[e][d]]
        BY <2>1 DEF Closes
    <3>2. \A d \in Circs : conflux[e][d] \in Objs \cup {NoObj}
        BY DEF TypeOK
    <3>3. \A o \in Objs : \A d \in cfx_legs[e][o] : state[e][d] = "open"
        BY DEF ObjInv
    <3> QED
        BY <3>1, <3>2, <3>3
  <2>5. ASSUME NEW d \in Circs PROVE StaysPut(d)
    <3>1. \A m \in wire : m.circ = d /\ m.kind \in {"LINK", "LINKED"} =>
             (Up("client", d)' => Up("client", d) /\ d \in legs' \ linked')
      <4>1. SUFFICES ASSUME NEW m \in wire, m.circ = d, m.kind \in {"LINK", "LINKED"},
                            Up("client", d)'
                     PROVE  Up("client", d) /\ d \in legs' \ linked'
          OBVIOUS
      <4>2. Up("client", d)
          BY <4>1, <2>3, <1>q, <1>e DEF Up
      <4> QED
          BY <4>1, <4>2, <2>2, <1>p DEF CellOK
    <3>2. Answered(d) => Answered(d)'
        BY <2>3, <2>4, <1>e DEF Answered
    <3>3. /\ state'["client"][d] \in {"none", "building"} =>
               state["client"][d] \in {"none", "building"}
          /\ state'["exit"][d] = "none" <=> state["exit"][d] = "none"
          /\ state'["exit"][d] # "building"
        BY <2>3, <2>4, <1>e, <1>p DEF CircOK
    <3>4. conflux["exit"][d] = NoObj => conflux'["exit"][d] = NoObj
        BY <2>3, <1>e
    <3>5. d \in linked' \/ conflux'["client"][d] # NoObj => Answered(d)
        BY <2>2, <2>3, <1>e, <1>p DEF CircOK
    <3> QED
        BY <3>1, <3>2, <3>3, <3>4, <3>5, <2>2 DEF StaysPut
  <2> QED
      BY <2>5, <1>q, <1>r, WireFrame
<1>3. CASE PlainClose(e, c)
  <2>1. /\ \A x \in Ends, d \in Circs :
              state'[x][d] = IF x = e /\ d = c THEN "marked" ELSE state[x][d]
        /\ UNCHANGED <<conflux, status, legs, linked>>
      BY <1>3 DEF PlainClose, TypeOK
  <2>2. ASSUME NEW d \in Circs PROVE StaysPut(d)
    <3>1. \A m \in wire : m.circ = d /\ m.kind \in {"LINK", "LINKED"} =>
             (Up("client", d)' => Up("client", d) /\ d \in legs' \ linked')
      <4>1. SUFFICES ASSUME NEW m \in wire, m.circ = d, m.kind \in {"LINK", "LINKED"},
                            Up("client", d)'
                     PROVE  Up("client", d) /\ d \in legs' \ linked'
          OBVIOUS
      <4>2. Up("client", d)
          BY <4>1, <2>1, <1>q, <1>e DEF Up
      <4> QED
          BY <4>1, <4>2, <2>1, <1>p DEF CellOK
    <3>2. Answered(d) => Answered(d)'
        BY <2>1, <1>e DEF Answered
    <3> QED
        BY <3>1, <3>2, <2>1, <1>c, <1>e, <1>p DEF StaysPut, CircOK
  <2> QED
      BY <2>2, <1>q, <1>r, WireFrame
<1> QED
    BY <1>1, <1>2, <1>3 DEF conflux_circuit_has_closed

\* Every step keeps the order of the linking cells on every circuit.
LEMMA WireStep == IndInv /\ [Next]_vars => WireInv'
<1> SUFFICES ASSUME IndInv, [Next]_vars PROVE WireInv'
    OBVIOUS
<1>t. TypeOK /\ SetInv /\ WireInv /\ \A e \in Ends : ObjInv(e)
    BY ByEnd DEF IndInv
<1> USE <1>t DEF setVars, objVars
<1>e. "client" \in Ends /\ "exit" \in Ends /\ ClientCfx \in Objs /\ ClientCfx # NoObj
      /\ NoObj \notin Objs /\ ClientCfx \notin Circs /\ Circs \subseteq Objs
      /\ \A e \in Ends : e # "client" => e = "exit"
    BY ObjsAssumption DEF Ends, Objs
<1>p. /\ \A d \in Circs : CircOK(d)
      /\ \A m \in wire : CellOK(m) /\ m.circ \in Circs
      /\ \A m, n \in wire : PairOK(m, n)
      /\ \A o \in Objs : SeqOK(o)
    BY WireParts DEF TypeOK, Cells
\* Nothing changes but cells and sequence numbers.
<1>f. ASSUME UNCHANGED <<state, conflux, status, legs, linked>>, stopping \subseteq stopping'
      PROVE  \A c \in Circs : StaysPut(c)
    BY <1>f, <1>p DEF StaysPut, Answered, Up, CircOK, CellOK
\* Circuits are freed.
<1>g. ASSUME NEW e \in Ends, NEW C \in SUBSET Circs, FreeCircs(e, C),
             UNCHANGED <<stopping, wire>>,
             \A d \in C : state[e][d] # "none"
      PROVE  WireInv'
  <2>1. /\ \A x \in Ends, d \in Circs :
              /\ state'[x][d] = IF x = e /\ d \in C THEN "freed" ELSE state[x][d]
              /\ conflux'[x][d] = IF x = e /\ d \in C THEN NoObj ELSE conflux[x][d]
        /\ UNCHANGED <<sent, delivered, legs, linked>>
      BY <1>g DEF FreeCircs, TypeOK
  <2>2. \A d \in Circs : status["exit"][d] = "new" => status'["exit"][d] = "new"
    <3>1. \A x \in Ends, o \in Objs : status'[x][o] =
             IF x = e /\ o \in Frees(e, C) THEN "freed" ELSE status[x][o]
        BY <1>g DEF FreeCircs, TypeOK
    <3>2. \A o \in Frees(e, C) : status[e][o] = "live"
      <4>1. \A o \in Frees(e, C) : o \in Objs /\ \E d \in C : conflux[e][d] = o
          BY DEF Frees, LastHeldBy
      <4> QED
          BY <4>1, <1>e DEF ObjInv, Referenced
    <3> QED
        BY <3>1, <3>2, <1>e
  <2>3. ASSUME NEW d \in Circs PROVE StaysPut(d)
    <3>1. \A m \in wire : m.circ = d /\ m.kind \in {"LINK", "LINKED"} =>
             (Up("client", d)' => Up("client", d) /\ d \in legs' \ linked')
      <4>1. Up("client", d)' => Up("client", d)
          BY <2>1, <1>g, <1>e DEF Up
      <4> QED
          BY <4>1, <2>1, <1>p DEF CellOK
    <3>2. Answered(d) => Answered(d)'
        BY <2>1, <1>e DEF Answered
    <3>3. /\ state'["client"][d] \in {"none", "building"} =>
               state["client"][d] \in {"none", "building"}
          /\ state'["exit"][d] = "none" <=> state["exit"][d] = "none"
          /\ state'["exit"][d] # "building"
        BY <2>1, <1>g, <1>e, <1>p DEF CircOK
    <3> QED
        BY <3>1, <3>2, <3>3, <2>1, <2>2, <1>e, <1>p DEF StaysPut, CircOK
  <2>4. \A o \in Objs : SeqOK(o)'
      BY <2>1, <1>p DEF SeqOK
  <2> QED
      BY <2>1, <2>3, <2>4, <1>g, WireFrame
<1>1. CASE launch_new_set
  <2>1. PICK C \in SUBSET Circs :
           state' = [state EXCEPT !["client"] =
                       [c \in Circs |-> IF c \in C THEN "building" ELSE @[c]]]
      BY <1>1 DEF launch_new_set
  <2>2. /\ \A c \in Circs : state["client"][c] = "none"
        /\ status' = [status EXCEPT !["client"][ClientCfx] = "live"]
        /\ UNCHANGED <<conflux, sent, delivered, linked, stopping, wire>>
      BY <1>1 DEF launch_new_set, SetInv
  <2>3. wire = {}
      BY <2>2, <1>p DEF CircOK
  <2>4. state'["exit"] = state["exit"] /\ status'["exit"] = status["exit"]
      BY <2>1, <2>2, <1>e DEF TypeOK
  <2>5. ASSUME NEW d \in Circs PROVE StaysPut(d)
      BY <2>2, <2>3, <2>4, <1>p DEF StaysPut, CircOK, Answered
  <2>6. \A o \in Objs : SeqOK(o)'
      BY <2>2, <1>p DEF SeqOK
  <2> QED
      BY <2>2, <2>5, <2>6, WireFrame
<1>2. ASSUME NEW c \in Circs, conflux_circuit_has_opened(c) PROVE WireInv'
  <2>k. PICK k : k = Cell("exit", c, "LINK", sent["client"][unlinked])
      OBVIOUS
  <2>1. /\ state["client"][c] = "building" /\ c \in legs /\ wire' = wire \cup {k}
        /\ UNCHANGED <<conflux, status, sent, delivered, legs, linked, stopping>>
      BY <1>2, <2>k DEF conflux_circuit_has_opened
  <2>2. \A x \in Ends, d \in Circs : state'[x][d] = IF d = c THEN "open" ELSE state[x][d]
      BY <1>2, <1>e DEF conflux_circuit_has_opened, TypeOK
  <2>3. /\ state["exit"][c] = "none" /\ status["exit"][c] = "new"
        /\ \A m \in wire : m.circ # c
      BY <2>1, <1>p DEF CircOK
  <2>4. conflux["client"][c] = NoObj /\ conflux["exit"][c] = NoObj /\ c \notin linked
    <3>1. \A x \in Ends : conflux[x][c] # NoObj => state[x][c] \in {"open", "marked"}
        BY DEF ObjInv, TypeOK
    <3> QED
        BY <3>1, <2>1, <2>3, <1>e DEF SetInv
  <2>5. k.circ = c /\ k.to = "exit" /\ k.kind = "LINK" /\ k.seq = 0
    <3>1. sent["client"][unlinked] = 0
        BY <2>1 DEF SetInv
    <3> QED
        BY <3>1, <2>k DEF Cell
  <2>6. CellOK(k)'
      BY <2>1, <2>3, <2>4, <2>5 DEF CellOK
  <2>7. \A m \in wire' : m.circ = c => m = k
      BY <2>1, <2>3
  <2>8. CircOK(c)'
      BY <2>1, <2>2, <2>4, <1>e DEF CircOK
  <2>9. ASSUME NEW d \in Circs \ {c} PROVE StaysPut(d)
    <3>1. state'["client"][d] = state["client"][d] /\ state'["exit"][d] = state["exit"][d]
        BY <2>2, <1>e
    <3> QED
        BY <3>1, <2>1, <1>p DEF StaysPut, CircOK, CellOK, Answered, Up
  <2>10. \A o \in Objs : SeqOK(o)'
      BY <2>1, <1>p DEF SeqOK
  <2>11. PairOK(k, k)
      BY DEF PairOK
  <2>12. \A m \in wire' : m.circ = c => CellOK(m)' /\ PairOK(m, k) /\ PairOK(k, m)
      BY <2>6, <2>7, <2>11
  <2>13. wire' \subseteq wire \cup {k} /\ UNCHANGED sent
      BY <2>1
  <2> QED
      BY <2>5, <2>8, <2>9, <2>10, <2>12, <2>13, WireSend
<1>3. ASSUME NEW c \in Circs, conflux_process_link(c) PROVE WireInv'
  <2>1. PICK m \in wire :
           /\ m.to = "exit" /\ m.circ = c /\ m.kind = "LINK"
           /\ Up("exit", c) /\ conflux["exit"][c] = NoObj
           /\ \/ /\ conflux' = [conflux EXCEPT !["exit"][c] = ExitObj(c)]
                 /\ status' = [status EXCEPT !["exit"][ExitObj(c)] = "live"]
                 /\ wire' = (wire \ {m}) \cup
                              {Cell("client", c, "LINKED", sent["exit"][ExitObj(c)])}
                 /\ UNCHANGED state
              \/ /\ state' = [state EXCEPT !["exit"][c] = "marked"]
                 /\ wire' = Without("exit", {c})
                 /\ UNCHANGED <<conflux, status>>
           /\ UNCHANGED <<sent, delivered, legs, linked, stopping>>
      BY <1>3 DEF conflux_process_link
  <2>s. \A o \in Objs : SeqOK(o)'
      BY <2>1, <1>p DEF SeqOK
  <2>2. CASE /\ state' = [state EXCEPT !["exit"][c] = "marked"]
             /\ wire' = Without("exit", {c})
             /\ UNCHANGED <<conflux, status>>
    <3>1. /\ wire' \subseteq wire
          /\ \A d \in Circs : /\ state'["client"][d] = state["client"][d]
                              /\ state'["exit"][d] =
                                   IF d = c THEN "marked" ELSE state["exit"][d]
        BY <2>2, <1>e DEF Without, TypeOK
    <3>2. state["exit"][c] # "none"
        BY <2>1 DEF Up
    <3>3. ASSUME NEW d \in Circs PROVE StaysPut(d)
      <4>1. Answered(d) => Answered(d)'
          BY <2>2, <3>1 DEF Answered
      <4> QED
          BY <4>1, <3>1, <3>2, <2>1, <2>2, <1>p DEF StaysPut, CircOK, CellOK, Up
    <3> QED
        BY <3>1, <3>3, <2>1, <2>s, WireFrame
  <2>3. ASSUME NEW o \in Objs, o = ExitObj(c),
               conflux' = [conflux EXCEPT !["exit"][c] = o],
               status' = [status EXCEPT !["exit"][o] = "live"],
               wire' = (wire \ {m}) \cup {Cell("client", c, "LINKED", sent["exit"][o])},
               UNCHANGED state
        PROVE  WireInv'
    <3>k. PICK k : k = Cell("client", c, "LINKED", sent["exit"][o])
        OBVIOUS
    <3>1. /\ k.circ = c /\ k.to = "client" /\ k.kind = "LINKED"
          /\ k.seq = sent["exit"][o] /\ wire' = (wire \ {m}) \cup {k}
        BY <2>3, <3>k DEF Cell
    <3>2. /\ \A d \in Circs : conflux'["exit"][d] =
                IF d = c THEN o ELSE conflux["exit"][d]
          /\ conflux'["client"] = conflux["client"]
          /\ \A q \in Objs : status'["exit"][q] =
                IF q = o THEN "live" ELSE status["exit"][q]
        BY <2>3, <1>e DEF TypeOK
    <3>3. \A n \in wire' : n.circ = c => n = k
        BY <3>1, <2>1, <1>p DEF PairOK
    <3>4. Up("client", c) => c \in legs \ linked
        BY <2>1, <1>p DEF CellOK
    <3>5. Answered(c)'
        BY <3>2, <1>e DEF Answered
    <3>6. CellOK(k)'
      <4>1. sent["exit"][o] = 1 => sent["client"][ClientCfx] = 1
          BY <1>p DEF SeqOK
      <4>2. Up("client", c)' => c \in (legs \ linked)'
          BY <3>4, <2>1, <2>3 DEF Up
      <4> QED
          BY <4>1, <4>2, <3>1, <3>5, <2>1 DEF CellOK
    <3>7. CircOK(c)'
      <4>1. state["client"][c] \notin {"none", "building"}
          BY <2>1, <1>p DEF CircOK
      <4>2. state["exit"][c] \notin {"none", "building"}
          BY <2>1, <1>p DEF CircOK, Up
      <4> QED
          BY <4>1, <4>2, <3>5, <2>3 DEF CircOK
    <3>8. ASSUME NEW d \in Circs \ {c} PROVE StaysPut(d)
      <4>1. status["exit"][d] = "new" => status'["exit"][d] = "new"
        <5>1. d = o => status["exit"][d] = "live"
          <6>1. d = o => pool["exit"] = o
              BY <2>3 DEF ExitObj
          <6> QED
              BY <6>1, <1>e DEF ObjInv, Referenced
        <5> QED
            BY <5>1, <3>2, <1>e
      <4>2. Answered(d) => Answered(d)'
          BY <3>2, <2>3 DEF Answered
      <4> QED
          BY <4>1, <4>2, <3>2, <2>1, <2>3, <1>p DEF StaysPut, CircOK, CellOK, Up
    <3>9. PairOK(k, k)
        BY DEF PairOK
    <3>10. \A n \in wire' : n.circ = c => CellOK(n)' /\ PairOK(n, k) /\ PairOK(k, n)
        BY <3>3, <3>6, <3>9
    <3>11. wire' \subseteq wire \cup {k} /\ UNCHANGED sent
        BY <3>1, <2>1
    <3> QED
        BY <3>1, <3>7, <3>8, <3>10, <3>11, <2>s, WireSend
  <2>4. ExitObj(c) \in Objs
      BY <1>e DEF ExitObj, TypeOK
  <2> QED
      BY <2>1, <2>2, <2>3, <2>4
<1>4. ASSUME NEW c \in Circs, conflux_process_linked(c) PROVE WireInv'
  <2>1. CASE conflux_circuit_has_closed("client", c)
      BY <1>4, <2>1, <1>e, WireClose DEF conflux_process_linked
  <2>2. CASE ~conflux_circuit_has_closed("client", c)
    <3>k. PICK k : k = Cell("exit", c, "LINKED_ACK", 0)
        OBVIOUS
    <3>1. PICK m \in wire :
             /\ m.to = "client" /\ m.circ = c /\ m.kind = "LINKED"
             /\ c \in legs
             /\ \/ StillWaiting(c) = {} /\ FinalizeSet
                \/ /\ linked' = linked \cup {c}
                   /\ UNCHANGED <<conflux, legs>>
             /\ wire' = (wire \ {m}) \cup {k}
             /\ UNCHANGED <<state, status, sent, delivered, stopping>>
        BY <1>4, <2>2, <3>k DEF conflux_process_linked
    <3>2. k.circ = c /\ k.to = "exit" /\ k.kind = "LINKED_ACK"
        BY <3>k DEF Cell
    <3>3. Answered(c) /\ state["client"][c] \notin {"none", "building"}
        BY <3>1, <1>p DEF CellOK, CircOK
    <3>4. /\ \A d \in Circs : conflux'["exit"][d] = conflux["exit"][d]
          /\ \A d \in Circs : d \in linked' \/ conflux'["client"][d] # NoObj => Answered(d)
          /\ \A d \in legs \ {c} : d \in linked \/ d \in legs' \ linked'
      <4>1. CASE StillWaiting(c) = {} /\ FinalizeSet
        <5>1. \A d \in legs : d = c \/ d \in linked
            BY <4>1 DEF StillWaiting
        <5>2. /\ \A d \in Circs : conflux'["client"][d] # NoObj =>
                    d \in legs \/ conflux["client"][d] # NoObj
              /\ conflux'["exit"] = conflux["exit"] /\ linked' = {}
            BY <4>1, <1>e DEF FinalizeSet, TypeOK
        <5> QED
            BY <5>1, <5>2, <3>3, <1>p DEF CircOK
      <4>2. CASE /\ linked' = linked \cup {c}
                 /\ UNCHANGED <<conflux, legs>>
          BY <4>2, <3>3, <1>p DEF CircOK
      <4> QED
          BY <3>1, <4>1, <4>2
    <3>5. \A d \in Circs : Answered(d) <=> Answered(d)'
        BY <3>1, <3>4 DEF Answered
    <3>6. \A n \in wire' : n.circ = c => n.kind \notin {"LINK", "LINKED"}
      <4>1. SUFFICES ASSUME NEW n \in wire', n.circ = c PROVE n.kind \notin {"LINK", "LINKED"}
          OBVIOUS
      <4>2. CASE n = k
          BY <4>2, <3>2
      <4>3. CASE n \in wire /\ n # m
          BY <4>1, <4>3, <3>1, <1>p DEF PairOK
      <4> QED
          BY <4>1, <4>2, <4>3, <3>1
    <3>7. \A n \in wire' : n.circ = c => CellOK(n)' /\ PairOK(n, k) /\ PairOK(k, n)
      <4>1. SUFFICES ASSUME NEW n \in wire', n.circ = c
                     PROVE  CellOK(n)' /\ PairOK(n, k) /\ PairOK(k, n)
          OBVIOUS
      <4>2. n.kind \notin {"LINK", "LINKED"}
          BY <4>1, <3>6
      <4>3. PairOK(n, k) /\ PairOK(k, n)
          BY <4>2, <3>2 DEF PairOK
      <4>4. CASE n = k
          BY <4>3, <4>4, <3>2, <3>3, <3>5 DEF CellOK
      <4>5. CASE n \in wire
          BY <4>1, <4>2, <4>3, <4>5, <3>1, <3>3, <3>5, <1>p DEF CellOK
      <4> QED
          BY <4>1, <4>3, <4>4, <4>5, <3>1
    <3>8. CircOK(c)'
        BY <3>1, <3>3, <3>5, <1>p DEF CircOK
    <3>9. ASSUME NEW d \in Circs \ {c} PROVE StaysPut(d)
      <4>1. \A n \in wire : n.circ = d /\ n.kind \in {"LINK", "LINKED"} =>
               (Up("client", d)' => Up("client", d) /\ d \in legs' \ linked')
        <5>1. Up("client", d)' <=> Up("client", d)
            BY <3>1 DEF Up
        <5> QED
            BY <5>1, <3>4, <1>p DEF CellOK
      <4> QED
          BY <4>1, <3>1, <3>4, <3>5, <1>p DEF StaysPut, CircOK
    <3>10. \A o \in Objs : SeqOK(o)'
        BY <3>1, <1>p DEF SeqOK
    <3>11. wire' \subseteq wire \cup {k} /\ UNCHANGED sent
        BY <3>1
    <3> QED
        BY <3>2, <3>7, <3>8, <3>9, <3>10, <3>11, WireSend
  <2> QED
      BY <2>1, <2>2
<1>5. ASSUME NEW c \in Circs, conflux_process_linked_ack(c) PROVE WireInv'
  <2>1. /\ wire' \subseteq wire
        /\ UNCHANGED <<state, conflux, status, legs, linked, sent, delivered, stopping>>
      BY <1>5 DEF conflux_process_linked_ack
  <2>2. \A o \in Objs : SeqOK(o)'
      BY <2>1, <1>p DEF SeqOK
  <2> QED
      BY <2>1, <2>2, <1>f, WireFrame
<1>6. ASSUME NEW e \in Ends, NEW c \in Circs, circuit_mark_for_close(e, c) PROVE WireInv'
    BY <1>6, WireClose DEF circuit_mark_for_close
<1>7. ASSUME NEW e \in Ends, NEW c \in Circs, SendData(e, c) PROVE WireInv'
  <2>k. PICK k : k = Cell(Peer(e), c, "DATA", 1)
      OBVIOUS
  <2>o. PICK o : o = conflux[e][c]
      OBVIOUS
  <2>1. /\ UNCHANGED <<state, conflux, status, delivered, legs, linked, stopping>>
        /\ sent' = [sent EXCEPT ![e][o] = 1] /\ wire' = wire \cup {k}
        /\ Up(e, c) /\ o # NoObj /\ o \in Objs
        /\ e = "exit" => delivered[e][o] > 0
      BY <1>7, <2>k, <2>o DEF SendData, TypeOK
  <2>2. k.circ = c /\ k.to = Peer(e) /\ k.kind = "DATA"
      BY <2>k DEF Cell
  <2>3. /\ sent["client"][ClientCfx] = 1 => sent'["client"][ClientCfx] = 1
        /\ \A q \in Objs : sent'["exit"][q] = 1 => sent["exit"][q] = 1 \/ (e = "exit" /\ q = o)
    <3>1. \A x \in Ends, q \in Objs :
             sent'[x][q] = IF x = e /\ q = o THEN 1 ELSE sent[x][q]
        BY <2>1, <1>e DEF TypeOK
    <3> QED
        BY <3>1, <1>e
  <2>4. sent'["client"][ClientCfx] = 1
    <3>1. CASE e = "client"
      <4>1. status["client"][o] = "live"
          BY <3>1, <2>o, <2>1, <1>e DEF ObjInv, Referenced
      <4>2. o = ClientCfx
          BY <4>1, <2>1, <1>e DEF SetInv, Objs
      <4> QED
          BY <3>1, <4>2, <2>1, <1>e DEF TypeOK
    <3>2. CASE e = "exit"
      <4>1. delivered["exit"][o] = 1
          BY <3>2, <2>1, <1>e DEF TypeOK
      <4> QED
          BY <4>1, <2>1, <2>3, <1>p DEF SeqOK
    <3> QED
        BY <3>1, <3>2, <1>e
  <2>5. \A q \in Objs : SeqOK(q)'
    <3>1. e = "exit" => delivered["exit"][o] = 1
        BY <2>1, <1>e DEF TypeOK
    <3> QED
        BY <3>1, <2>1, <2>3, <2>4, <1>p DEF SeqOK
  <2>6. \A d \in Circs : StaysPut(d)
      BY <2>1, <1>f
  <2>7. \A n \in wire : n.circ = c => n.kind # "LINK"
    <3>1. SUFFICES ASSUME NEW n \in wire, n.circ = c, n.kind = "LINK" PROVE FALSE
        OBVIOUS
    <3>2. CASE e = "exit"
        BY <3>1, <3>2, <2>o, <2>1, <1>p DEF CellOK
    <3>3. CASE e = "client"
        BY <3>1, <3>3, <2>o, <2>1, <1>p DEF CellOK, SetInv
    <3> QED
        BY <3>2, <3>3, <1>e
  <2>8. CellOK(k)'
    <3>1. k.to = "exit" => Answered(c)
        BY <2>o, <2>1, <2>2, <1>e, <1>p DEF Peer, CircOK
    <3> QED
        BY <3>1, <2>1, <2>2, <2>4, <2>6 DEF CellOK, StaysPut
  <2>9. \A n \in wire' : n.circ = c => CellOK(n)' /\ PairOK(n, k) /\ PairOK(k, n)
    <3>1. SUFFICES ASSUME NEW n \in wire', n.circ = c
                   PROVE  CellOK(n)' /\ PairOK(n, k) /\ PairOK(k, n)
        OBVIOUS
    <3>2. CASE n = k
        BY <3>2, <2>8 DEF PairOK
    <3>3. CASE n \in wire
      <4>1. PairOK(n, k) /\ PairOK(k, n)
          BY <3>1, <3>3, <2>2, <2>7 DEF PairOK
      <4>2. CellOK(n)'
          BY <3>1, <3>3, <2>1, <2>4, <1>p DEF CellOK, Answered, Up
      <4> QED
          BY <4>1, <4>2
    <3> QED
        BY <3>1, <3>2, <3>3, <2>1
  <2>10. CircOK(c)'
    <3>1. state["client"][c] \notin {"none", "building"}
      <4>1. CASE e = "client"
        <5>1. ObjInv("client") /\ conflux["client"][c] # NoObj /\ conflux["client"][c] \in Objs
            BY <4>1, <2>o, <2>1, <1>e
        <5>2. CASE c \in cfx_legs["client"][conflux["client"][c]]
            BY <5>1, <5>2 DEF ObjInv
        <5>3. CASE c \notin cfx_legs["client"][conflux["client"][c]]
            BY <5>1, <5>3 DEF ObjInv
        <5> QED
            BY <5>2, <5>3
      <4>2. CASE e = "exit"
          BY <4>2, <2>1, <1>p DEF CircOK, Up
      <4> QED
          BY <4>1, <4>2, <1>e
    <3> QED
        BY <3>1, <2>1, <1>p DEF CircOK, Answered
  <2>11. wire' \subseteq wire \cup {k}
      BY <2>1
  <2> QED
      BY <2>2, <2>3, <2>5, <2>6, <2>9, <2>10, <2>11, WireSend
<1>8. ASSUME NEW e \in Ends, NEW c \in Circs, DataArrives(e, c) PROVE WireInv'
  <2>1. /\ wire' \subseteq wire
        /\ delivered' = [delivered EXCEPT ![e][conflux[e][c]] = 1]
        /\ \E m \in wire : m.kind = "DATA"
        /\ UNCHANGED <<state, conflux, status, legs, linked, sent, stopping>>
      BY <1>8 DEF DataArrives
  <2>2. sent["client"][ClientCfx] = 1
      BY <2>1, <1>p DEF CellOK
  <2>3. \A o \in Objs : delivered["exit"][o] = 1 => delivered'["exit"][o] = 1
      BY <2>1, <1>e DEF TypeOK
  <2>4. \A o \in Objs : SeqOK(o)'
      BY <2>1, <2>2, <2>3, <1>p DEF SeqOK
  <2> QED
      BY <2>1, <2>4, <1>f, WireFrame
<1>9. ASSUME NEW e \in Ends, circuit_close_all_marked(e) PROVE WireInv'
    BY <1>9, <1>g DEF circuit_close_all_marked
<1>10. ASSUME NEW e \in Ends, NEW c \in Circs, FreeAtExit(e, c) PROVE WireInv'
  <2>1. /\ FreeCircs(e, {c}) /\ UNCHANGED <<stopping, wire>> /\ {c} \in SUBSET Circs
        /\ \A d \in {c} : state[e][d] # "none"
      BY <1>10 DEF FreeAtExit
  <2> QED
      BY <2>1, <1>g
<1>11. ASSUME NEW e \in Ends, Shutdown(e) PROVE WireInv'
  <2>1. /\ wire' \subseteq wire /\ stopping \subseteq stopping'
        /\ UNCHANGED <<state, conflux, status, legs, linked, sent, delivered>>
      BY <1>11 DEF Shutdown, Without
  <2>2. \A o \in Objs : SeqOK(o)'
      BY <2>1, <1>p DEF SeqOK
  <2> QED
      BY <2>1, <2>2, <1>f, WireFrame
<1>12. ASSUME NEW e \in Ends, conflux_pool_free_all(e) PROVE WireInv'
  <2>1. /\ UNCHANGED <<state, conflux, sent, delivered, stopping, wire>>
        /\ e = "client" => "client" \in stopping /\ linked' = {}
        /\ e = "exit" => UNCHANGED <<legs, linked>>
      BY <1>12 DEF conflux_pool_free_all
  <2>2. \A d \in Circs : status["exit"][d] = "new" => status'["exit"][d] = "new"
    <3>1. CASE e = "client"
        BY <1>12, <3>1, <1>e DEF conflux_pool_free_all, TypeOK
    <3>2. CASE e = "exit"
      <4>1. \A d \in Circs : status'["exit"][d] =
               IF d = pool["exit"] THEN "freed" ELSE status["exit"][d]
          BY <1>12, <3>2, <1>e DEF conflux_pool_free_all, TypeOK
      <4>2. \A d \in Circs : d = pool["exit"] => status["exit"][d] = "live"
          BY <1>e DEF ObjInv, Referenced
      <4> QED
          BY <4>1, <4>2
    <3> QED
        BY <3>1, <3>2, <1>e
  <2>3. ASSUME NEW d \in Circs PROVE StaysPut(d)
    <3>1. Answered(d) <=> Answered(d)'
        BY <2>1 DEF Answered
    <3>2. e = "client" => ~Up("client", d)'
        BY <2>1 DEF Up
    <3>3. Up("client", d)' <=> Up("client", d)
        BY <2>1 DEF Up
    <3>4. d \in linked' \/ conflux'["client"][d] # NoObj => Answered(d)
        BY <2>1, <1>e, <1>p DEF CircOK
    <3>5. state'["exit"][d] # "building"
        BY <2>1, <1>p DEF CircOK
    <3>6. ASSUME NEW m \in wire, m.circ = d, m.kind \in {"LINK", "LINKED"}, Up("client", d)'
          PROVE  Up("client", d) /\ d \in legs' \ linked'
      <4>1. e = "exit" /\ UNCHANGED <<legs, linked>>
          BY <3>6, <3>2, <2>1, <1>e
      <4>2. CellOK(m)
          BY <1>p
      <4> QED
          BY <4>1, <4>2, <3>3, <3>6 DEF CellOK
    <3> QED
        BY <3>1, <3>4, <3>5, <3>6, <2>1, <2>2 DEF StaysPut
  <2>4. \A o \in Objs : SeqOK(o)'
      BY <2>1, <1>p DEF SeqOK
  <2> QED
      BY <2>1, <2>3, <2>4, WireFrame
<1>13. CASE UNCHANGED vars
  <2>1. UNCHANGED <<state, conflux, status, legs, linked, sent, delivered, stopping, wire>>
      BY <1>13 DEF vars
  <2>2. \A o \in Objs : SeqOK(o)'
      BY <2>1, <1>p DEF SeqOK
  <2> QED
      BY <2>1, <2>2, <1>f, WireFrame
<1> QED
    BY <1>1, <1>2, <1>3, <1>4, <1>5, <1>6, <1>7, <1>8, <1>9, <1>10, <1>11,
       <1>12, <1>13 DEF Next

-----------------------------------------------------------------------------
(* The theorems. *)

\* The invariant holds at first, before any set is launched.
LEMMA InitInv == Init => IndInv
<1> SUFFICES ASSUME Init PROVE IndInv
    OBVIOUS
<1> USE DEF Init
<1>e. "client" \in Ends /\ "exit" \in Ends /\ ClientCfx \in Objs /\ NoObj \notin Objs
      /\ Circs \subseteq Objs /\ ClientCfx # NoObj
    BY ObjsAssumption DEF Ends, Objs
<1>1. TypeOK
  <2>1. MaxLaunch \in Nat
      BY LegsAssumption DEF MaxLaunch
  <2> QED
      BY <2>1 DEF TypeOK
<1>2. LegsInv /\ FreedByOne
    BY <1>e DEF LegsInv, FreedByOne
<1>3. LivesWhileReferenced
    BY <1>e DEF LivesWhileReferenced, Referenced
<1>4. SetInv
    BY <1>e DEF SetInv
<1>5. WireInv
    BY <1>e DEF WireInv, Answered
<1> QED
    BY <1>1, <1>2, <1>3, <1>4, <1>5 DEF IndInv

\* The invariant holds for every number of circuits, legs and retries.
THEOREM Invariance == Spec => []IndInv
<1>1. IndInv /\ [Next]_vars => IndInv'
    BY TypeStep, ObjStep, SetStep, WireStep DEF IndInv
<1> QED
    BY <1>1, InitInv, PTL DEF Spec

\* A conflux_t lives exactly as long as a circuit, the linked pool or the
\* unlinked set points to it, at either end, whatever closes when and whoever
\* shuts down.
THEOREM LivesWhileReferencedAlways == Spec => []LivesWhileReferenced
<1>1. IndInv => LivesWhileReferenced
    BY DEF IndInv
<1> QED
    BY <1>1, Invariance, PTL

\* Of the circuits of a set that has lost its legs, one only still points to
\* it, and frees it.
THEOREM FreedByOneAlways == Spec => []FreedByOne
<1>1. IndInv => FreedByOne
    BY DEF IndInv
<1> QED
    BY <1>1, Invariance, PTL

\* A set in the linked pool has legs, and their circuits are up.
THEOREM PooledSetsUsableAlways == Spec => []PooledSetsUsable
<1>1. IndInv => PooledSetsUsable
    BY DEF IndInv, TypeOK, LegsInv, PooledSetsUsable
<1> QED
    BY <1>1, Invariance, PTL

\* A leg is in one place, and a nonce in one of the client's pools.
THEOREM OnePlaceAlways == Spec => []OnePlace
<1>1. IndInv => OnePlace
    BY DEF IndInv, SetInv, OnePlace, TypeOK
<1> QED
    BY <1>1, Invariance, PTL

\* Every linking cell, and every data cell, finds its circuit in the state
\* that its handler wants.
THEOREM CellsExpectedAlways == Spec => []CellsExpected
<1>1. IndInv => CellsExpected
  <2> SUFFICES ASSUME IndInv, NEW m \in wire, Up(m.to, m.circ)
               PROVE  /\ m.kind = "LINK" => conflux["exit"][m.circ] = NoObj /\ m.seq = 0
                      /\ m.kind = "LINKED" => /\ m.circ \in legs \ linked
                                              /\ m.seq <= delivered["client"][unlinked]
                      /\ m.kind = "LINKED_ACK" => conflux["exit"][m.circ] # NoObj
                      /\ m.kind = "DATA" => conflux[m.to][m.circ] # NoObj
      BY DEF CellsExpected
  <2>1. TypeOK /\ SetInv /\ WireInv /\ m.circ \in Circs /\ m.seq \in {0, 1}
      BY DEF IndInv, TypeOK, Cells
  <2>2. CASE m.kind = "LINK"
      BY <2>1, <2>2 DEF WireInv
  <2>3. CASE m.kind = "LINKED"
    <3>1. m.to = "client" /\ m.circ \in legs \ linked
        BY <2>1, <2>3 DEF WireInv
    <3>2. unlinked = ClientCfx /\ sent["client"][ClientCfx] = 0
        BY <2>1, <3>1 DEF SetInv
    <3>3. m.seq = 0
        BY <2>1, <2>3, <3>2 DEF WireInv
    <3>4. delivered["client"][unlinked] \in {0, 1}
        BY <2>1, <3>2 DEF TypeOK, Ends, Objs
    <3> QED
        BY <2>3, <3>1, <3>3, <3>4
  <2>4. CASE m.kind = "LINKED_ACK"
    <3>1. state["exit"][m.circ] = "open"
        BY <2>1, <2>4 DEF WireInv, Up
    <3> QED
        BY <2>1, <2>4, <3>1 DEF WireInv, Answered
  <2>5. CASE m.kind = "DATA"
    <3>1. CASE m.to = "exit"
      <4>1. state["exit"][m.circ] = "open" /\ Answered(m.circ)
          BY <2>1, <2>5, <3>1 DEF WireInv, Up
      <4> QED
          BY <2>5, <3>1, <4>1 DEF Answered
    <3>2. CASE m.to = "client"
      <4>1. sent["client"][ClientCfx] = 1
          BY <2>1, <2>5 DEF WireInv
      <4>2. legs = {}
          BY <2>1, <4>1 DEF SetInv
      <4> QED
          BY <2>1, <2>5, <3>2, <4>2 DEF SetInv, Up
    <3>3. m.to \in Ends
        BY <2>1 DEF TypeOK, Cells
    <3> QED
        BY <3>1, <3>2, <3>3 DEF Ends
  <2>6. CASE m.kind \notin {"LINK", "LINKED", "LINKED_ACK", "DATA"}
      BY <2>6
  <2> QED
      BY <2>2, <2>3, <2>4, <2>5, <2>6
<1> QED
    BY <1>1, Invariance, PTL

=============================================================================
