----------------------------- MODULE ConfluxPool -----------------------------
(***************************************************************************)
(* The conflux pools (core/or/conflux_pool.c): how the circuits of one     *)
(* conflux set, with one nonce, are launched, linked, replaced, closed and *)
(* freed at the client and at the exit.                                    *)
(*                                                                         *)
(* A conflux_t is shared by pointer: by the circuits that are its legs,    *)
(* by the linked pool and by the unlinked set.  A circuit is marked for    *)
(* close in one event and freed in a later one; in between it may still    *)
(* hold the last pointer.  The client relaunches legs that close before    *)
(* the set is linked, at most MaxRetry times.  The exit has no unlinked    *)
(* set between two events: conflux_process_link makes one, links its only  *)
(* leg, and moves it to the linked pool or deletes it before it returns.   *)
(*                                                                         *)
(* A step is one event of one end's main loop.  Both ends keep to the      *)
(* protocol.  Sequence numbers are cut down to "none yet" (0) and "some"   *)
(* (1); module ConfluxSet has the rest.  Nothing holds back a close        *)
(* (circuit padding and path-bias probes may, for a while).                *)
(*                                                                         *)
(* Next to some definitions stands a slightly wrong form of them, the way  *)
(* a slip in the code would make it.  Nothing uses these but mutation      *)
(* tests: each of them must break a property.                              *)
(***************************************************************************)
EXTENDS Integers, FiniteSets

CONSTANTS
    Circs,      \* circuits the client may build for the set
    NumLegs,    \* conflux_params_get_num_legs_set()
    MaxRetry,   \* conflux_params_get_max_unlinked_leg_retry()
    MaxLegs,    \* conflux_params_get_max_legs_set()
    Stops,      \* the ends that may shut down
    ClientCfx,  \* the client's conflux_t for the nonce
    NoObj       \* no conflux_t

\* The client never runs out of circuits before it runs out of launches.
ASSUME CircsAssumption ==
    IsFiniteSet(Circs) /\ Cardinality(Circs) = NumLegs + MaxRetry
ASSUME LegsAssumption ==
    NumLegs \in Nat \ {0} /\ MaxRetry \in Nat /\ MaxLegs \in Nat /\ NumLegs <= MaxLegs

Ends == {"client", "exit"}
Peer(e) == IF e = "client" THEN "exit" ELSE "client"
ASSUME StopsAssumption == Stops \subseteq Ends

\* conflux_t objects.  At the exit each is named after the circuit whose
\* LINK made it.
Objs == Circs \cup {ClientCfx}
ASSUME ObjsAssumption == ClientCfx \notin Circs /\ NoObj \notin Objs

MaxLaunch == NumLegs + MaxRetry

VARIABLES
    state,            \* of each end's half of each circuit
    conflux,          \* circ->conflux
    pool,             \* the linked pool's entry for the nonce
    status,           \* of each conflux_t: "new", "live" or "freed"
    cfx_legs,         \* cfx->legs
    sent,             \* conflux_get_max_seq_sent(cfx), 0 or 1
    delivered,        \* cfx->last_seq_delivered, 0 or 1
    unlinked,         \* the conflux_t of the client's unlinked set
    legs,             \* unlinked->legs: the client circuits with a pending nonce
    linked,           \* those with leg->linked set
    num_leg_launch,   \* of the client's conflux_t
    stopping,         \* the ends in tor_free_all
    wire              \* cells under way

setVars == <<unlinked, legs, linked, num_leg_launch>>
objVars == <<status, cfx_legs, sent, delivered>>
vars == <<state, conflux, pool, objVars, setVars, stopping, wire>>

Kinds == {"LINK", "LINKED", "LINKED_ACK", "DATA"}
Cell(to, c, kind, seq) == [to |-> to, circ |-> c, kind |-> kind, seq |-> seq]
Cells == [to : Ends, circ : Circs, kind : Kinds, seq : {0, 1}]

Init ==
    /\ state = [e \in Ends |-> [c \in Circs |-> "none"]]
    /\ conflux = [e \in Ends |-> [c \in Circs |-> NoObj]]
    /\ pool = [e \in Ends |-> NoObj]
    /\ status = [e \in Ends |-> [o \in Objs |-> "new"]]
    /\ cfx_legs = [e \in Ends |-> [o \in Objs |-> {}]]
    /\ sent = [e \in Ends |-> [o \in Objs |-> 0]]
    /\ delivered = [e \in Ends |-> [o \in Objs |-> 0]]
    /\ unlinked = NoObj /\ legs = {} /\ linked = {}
    /\ num_leg_launch = 0
    /\ stopping = {} /\ wire = {}

Up(e, c) == state[e][c] \in {"building", "open"} /\ e \notin stopping

\* circuit_get_by_circid_channel finds no marked circuit: cells for the
\* circuits C of e are dropped.
Without(e, C) == {m \in wire : m.to # e \/ m.circ \notin C}

-----------------------------------------------------------------------------
(* Launching legs. *)

Unused == {c \in Circs : state["client"][c] = "none"}

\* What conflux_launch_leg may do for a set that has other legs, after n
\* launches.  A launch that fails closes its circuit, which comes right back
\* to conflux_launch_leg, until one launch succeeds or none is allowed.
Launches(n) ==
    [leg : {TRUE}, launches : (n + 1)..MaxLaunch] \cup
    [leg : {FALSE}, launches : {MaxLaunch}]

\* A fresh nonce and NumLegs legs.  The first failure ends the loop, after
\* the relaunch it caused; if it is the first leg's, nothing is left.
launch_new_set ==
    /\ status["client"][ClientCfx] = "new" /\ "client" \notin stopping
    /\ \E C \in SUBSET Circs, n \in 1..MaxLaunch :
          /\ C # {} /\ Cardinality(C) <= NumLegs
          /\ \/ Cardinality(C) = NumLegs /\ n = NumLegs
             \/ Cardinality(C) > 1 /\ n > Cardinality(C)
             \/ Cardinality(C) < NumLegs /\ n = MaxLaunch
          /\ state' = [state EXCEPT !["client"] =
                         [c \in Circs |-> IF c \in C THEN "building" ELSE @[c]]]
          /\ legs' = C
          /\ num_leg_launch' = n
    /\ unlinked' = ClientCfx
    /\ status' = [status EXCEPT !["client"][ClientCfx] = "live"]
    /\ UNCHANGED <<conflux, pool, cfx_legs, sent, delivered, linked, stopping,
                   wire>>

\* The circuit has opened: send LINK.
HasOpenedSilently(c) ==
    /\ state["client"][c] = "building" /\ "client" \notin stopping
    /\ c \in legs
    /\ state' = [state EXCEPT !["client"][c] = "open", !["exit"][c] = "open"]
    /\ UNCHANGED <<conflux, pool, objVars, setVars, stopping, wire>>
conflux_circuit_has_opened(c) ==
    /\ state["client"][c] = "building" /\ "client" \notin stopping
    /\ c \in legs
    /\ state' = [state EXCEPT !["client"][c] = "open", !["exit"][c] = "open"]
    /\ wire' = wire \cup {Cell("exit", c, "LINK", sent["client"][unlinked])}
    /\ UNCHANGED <<conflux, pool, objVars, setVars, stopping>>

-----------------------------------------------------------------------------
(* Closing a circuit: conflux_circuit_has_closed, called when it is marked. *)

\* The circuit of an unlinked leg.  The last one takes the set with it; for
\* any other, another leg is launched.
unlinked_circuit_closed(c) ==
    /\ c \in legs
    /\ wire' = Without("client", {c})
    /\ linked' = linked \ {c}
    /\ \/ /\ legs = {c}
          /\ state' = [state EXCEPT !["client"][c] = "marked"]
          /\ legs' = {} /\ unlinked' = NoObj
          /\ status' = [status EXCEPT !["client"][unlinked] = "freed"]
          /\ UNCHANGED num_leg_launch
       \/ /\ legs # {c}
          /\ \E r \in Launches(num_leg_launch) :
                /\ num_leg_launch' = r.launches
                /\ \/ /\ r.leg
                      /\ \E d \in Unused :
                            /\ state' = [state EXCEPT !["client"][c] = "marked",
                                                      !["client"][d] = "building"]
                            /\ legs' = (legs \ {c}) \cup {d}
                   \/ /\ ~r.leg
                      /\ state' = [state EXCEPT !["client"][c] = "marked"]
                      /\ legs' = legs \ {c}
          /\ UNCHANGED <<unlinked, status>>
    /\ UNCHANGED <<conflux, pool, cfx_legs, sent, delivered, stopping>>

\* Closing a leg takes down the set if it had data in flight or was in use.
\* Which of the legs of a set that has carried data are, is left open here.
MayTeardown(e, o) == sent[e][o] + delivered[e][o] > 0

\* The circuits that close with leg c of o.  A full teardown
\* (conflux_mark_all_for_close) closes the legs of the conflux_t that the
\* pool then has for the nonce, which is o unless the pool has lost it.
ClosesWith(e, o, c, teardown) ==
    IF teardown /\ pool[e] # NoObj /\ (pool[e] = o \/ cfx_legs[e][o] # {c})
    THEN {c} \cup cfx_legs[e][pool[e]] ELSE {c}

\* The conflux_t that lose their last leg when the circuits D close.
Emptied(e, D) == {o \in Objs : cfx_legs[e][o] # {} /\ cfx_legs[e][o] \subseteq D}

\* linked_pool_del by nonce, when the last leg has gone.
PoolKept(e, D) == pool[e]
PoolAfter(e, D) == IF Emptied(e, D) # {} THEN NoObj ELSE pool[e]

\* The last leg to go keeps its pointer, for its circuit's free to use.
ConfluxKept(e, D, last) == conflux[e]
ConfluxCleared(e, D, last) ==
    [c \in Circs |-> IF c \in D THEN NoObj ELSE conflux[e][c]]
ConfluxAfter(e, D, last) ==
    [c \in Circs |-> IF c \in D /\ ~(c = last /\ Emptied(e, D) # {})
                     THEN NoObj ELSE conflux[e][c]]

linked_circuit_closed(e, c) ==
    LET o == conflux[e][c] IN
    /\ o # NoObj
    /\ \E teardown \in BOOLEAN :
          /\ teardown => MayTeardown(e, o)
          /\ LET D == ClosesWith(e, o, c, teardown) IN
             /\ \E last \in IF D = {c} THEN D ELSE D \ {c} :
                   conflux' = [conflux EXCEPT ![e] = ConfluxAfter(e, D, last)]
             /\ pool' = [pool EXCEPT ![e] = PoolAfter(e, D)]
             /\ cfx_legs' = [cfx_legs EXCEPT ![e] =
                               [q \in Objs |-> @[q] \ D]]
             /\ state' = [state EXCEPT ![e] =
                            [d \in Circs |-> IF d \in D THEN "marked" ELSE @[d]]]
             /\ wire' = Without(e, D)
    /\ UNCHANGED <<status, sent, delivered, setVars, stopping>>

\* A circuit that is in no set.
PlainClose(e, c) ==
    /\ conflux[e][c] = NoObj /\ (e = "client" => c \notin legs)
    /\ state' = [state EXCEPT ![e][c] = "marked"]
    /\ wire' = Without(e, {c})
    /\ UNCHANGED <<conflux, pool, objVars, setVars, stopping>>

conflux_circuit_has_closed(e, c) ==
    \/ e = "client" /\ unlinked_circuit_closed(c)
    \/ linked_circuit_closed(e, c)
    \/ PlainClose(e, c)

\* For any reason of its own, or because a DESTROY came, a circuit closes.
circuit_mark_for_close(e, c) ==
    Up(e, c) /\ conflux_circuit_has_closed(e, c)

-----------------------------------------------------------------------------
(* The three cells that link a leg. *)

\* unlinked_get_or_create at the exit: the linked set's conflux_t, else one
\* of its own.
ExitObj(c) == IF pool["exit"] # NoObj THEN pool["exit"] ELSE c

\* try_finalize_set refuses a set that would have more legs than this.
TooMany(n) == n > MaxLegs

\* LINK at the exit: link the circuit at once, then answer LINKED.
conflux_process_link(c) ==
    \E m \in wire :
    /\ m.to = "exit" /\ m.circ = c /\ m.kind = "LINK"
    /\ Up("exit", c) /\ conflux["exit"][c] = NoObj
    /\ LET o == ExitObj(c) IN
       \/ /\ ~TooMany(1 + Cardinality(cfx_legs["exit"][o]))
          /\ m.seq <= delivered["exit"][o]
          /\ conflux' = [conflux EXCEPT !["exit"][c] = o]
          /\ cfx_legs' = [cfx_legs EXCEPT !["exit"][o] = @ \cup {c}]
          /\ pool' = [pool EXCEPT !["exit"] = o]
          /\ status' = [status EXCEPT !["exit"][o] = "live"]
          /\ wire' = (wire \ {m}) \cup
                       {Cell("client", c, "LINKED", sent["exit"][o])}
          /\ UNCHANGED state
       \/ /\ TooMany(1 + Cardinality(cfx_legs["exit"][o]))
          /\ state' = [state EXCEPT !["exit"][c] = "marked"]
          /\ wire' = Without("exit", {c})
          /\ UNCHANGED <<conflux, cfx_legs, pool, status>>
    /\ UNCHANGED <<sent, delivered, setVars, stopping>>

\* The legs the client waits for, once c has linked.
WaitsForNone(c) == {}
StillWaiting(c) == legs \ (linked \cup {c})

\* try_finalize_set: all legs move to the linked set.
FinalizeLeavesSet ==
    /\ conflux' = [conflux EXCEPT !["client"] =
                     [c \in Circs |-> IF c \in legs THEN unlinked ELSE @[c]]]
    /\ cfx_legs' = [cfx_legs EXCEPT !["client"][unlinked] = @ \cup legs]
    /\ pool' = [pool EXCEPT !["client"] = unlinked]
    /\ legs' = {} /\ linked' = {} /\ UNCHANGED <<unlinked, num_leg_launch>>
FinalizeSet ==
    /\ conflux' = [conflux EXCEPT !["client"] =
                     [c \in Circs |-> IF c \in legs THEN unlinked ELSE @[c]]]
    /\ cfx_legs' = [cfx_legs EXCEPT !["client"][unlinked] = @ \cup legs]
    /\ pool' = [pool EXCEPT !["client"] = unlinked]
    /\ legs' = {} /\ linked' = {} /\ unlinked' = NoObj /\ num_leg_launch' = 0

\* LINKED at the client.  The round trip may have been too long; else the
\* leg is linked and LINKED_ACK sent, whether or not the set is complete.
conflux_process_linked(c) ==
    \E m \in wire :
    /\ m.to = "client" /\ m.circ = c /\ m.kind = "LINKED"
    /\ Up("client", c)
    /\ \/ conflux_circuit_has_closed("client", c)
       \/ /\ c \in legs /\ conflux["client"][c] = NoObj
          /\ m.seq <= delivered["client"][unlinked]
          /\ \/ StillWaiting(c) = {} /\ FinalizeSet
             \/ /\ StillWaiting(c) # {}
                /\ linked' = linked \cup {c}
                /\ UNCHANGED <<conflux, cfx_legs, pool, legs, unlinked,
                               num_leg_launch>>
          /\ wire' = (wire \ {m}) \cup {Cell("exit", c, "LINKED_ACK", 0)}
          /\ UNCHANGED <<state, status, sent, delivered, stopping>>

\* LINKED_ACK at the exit: only the round trip time is noted.
conflux_process_linked_ack(c) ==
    \E m \in wire :
    /\ m.to = "exit" /\ m.circ = c /\ m.kind = "LINKED_ACK"
    /\ Up("exit", c)
    /\ conflux["exit"][c] # NoObj
    /\ wire' = wire \ {m}
    /\ UNCHANGED <<state, conflux, pool, objVars, setVars, stopping>>

-----------------------------------------------------------------------------
(* Data on the linked set.  The exit answers, it does not begin. *)

SendData(e, c) ==
    LET o == conflux[e][c] IN
    /\ Up(e, c) /\ o # NoObj
    /\ e = "exit" => delivered[e][o] > 0
    /\ sent[e][o] = 0
    /\ sent' = [sent EXCEPT ![e][o] = 1]
    /\ wire' = wire \cup {Cell(Peer(e), c, "DATA", 1)}
    /\ UNCHANGED <<state, conflux, pool, status, cfx_legs, delivered, setVars,
                   stopping>>

DataArrives(e, c) ==
    \E m \in wire :
    /\ m.to = e /\ m.circ = c /\ m.kind = "DATA"
    /\ Up(e, c)
    /\ conflux[e][c] # NoObj
    /\ \A n \in wire : n.to = e /\ n.circ = c => n.kind = "DATA"
    /\ delivered' = [delivered EXCEPT ![e][conflux[e][c]] = 1]
    /\ wire' = wire \ {m}
    /\ UNCHANGED <<state, conflux, pool, status, cfx_legs, sent, setVars, stopping>>

-----------------------------------------------------------------------------
(* Freeing circuits: conflux_circuit_about_to_free. *)

\* The conflux_t whose last pointer is held by one of the circuits C that
\* are being freed: linked_circuit_free frees them, unless an unlinked set
\* has the same nonce, and takes the nonce out of the pool, whatever the
\* pool has for it.
LastHeldBy(e, C) ==
    {o \in Objs : cfx_legs[e][o] \subseteq C /\ \E c \in C : conflux[e][c] = o}
FreesNone(e, C) == {}
Frees(e, C) == IF e = "client" /\ unlinked # NoObj THEN {} ELSE LastHeldBy(e, C)

FreeCircs(e, C) ==
    /\ pool' = [pool EXCEPT ![e] = IF LastHeldBy(e, C) # {} THEN NoObj ELSE @]
    /\ status' = [status EXCEPT ![e] =
                    [o \in Objs |-> IF o \in Frees(e, C) THEN "freed" ELSE @[o]]]
    /\ conflux' = [conflux EXCEPT ![e] =
                     [c \in Circs |-> IF c \in C THEN NoObj ELSE @[c]]]
    /\ cfx_legs' = [cfx_legs EXCEPT ![e] = [o \in Objs |-> @[o] \ C]]
    /\ state' = [state EXCEPT ![e] =
                   [c \in Circs |-> IF c \in C THEN "freed" ELSE @[c]]]
    /\ UNCHANGED <<sent, delivered, unlinked, legs, linked, num_leg_launch>>

\* The postloop event frees every circuit that is marked.
circuit_close_all_marked(e) ==
    LET C == {c \in Circs : state[e][c] = "marked"} IN
    /\ C # {} /\ e \notin stopping
    /\ FreeCircs(e, C)
    /\ UNCHANGED <<stopping, wire>>

\* tor_free_all: nothing else happens at this end any more.
Shutdown(e) ==
    /\ e \in Stops \ stopping
    /\ stopping' = stopping \cup {e}
    /\ wire' = Without(e, Circs)
    /\ UNCHANGED <<state, conflux, pool, objVars, setVars>>

\* circuit_free_all: circuits are freed one by one, marked or not.
FreeAtExit(e, c) ==
    /\ e \in stopping /\ state[e][c] \in {"building", "open", "marked"}
    /\ FreeCircs(e, {c})
    /\ UNCHANGED <<stopping, wire>>

\* What the pools still have is freed with them.
conflux_pool_free_all(e) ==
    /\ e \in stopping
    /\ \A c \in Circs : state[e][c] \in {"none", "freed"}
    /\ status' = [status EXCEPT ![e] =
                    [o \in Objs |->
                       IF o = pool[e] \/ (e = "client" /\ o = unlinked)
                       THEN "freed" ELSE @[o]]]
    /\ pool' = [pool EXCEPT ![e] = NoObj]
    /\ IF e = "client" THEN unlinked' = NoObj /\ legs' = {} /\ linked' = {}
       ELSE UNCHANGED <<unlinked, legs, linked>>
    /\ UNCHANGED <<state, conflux, cfx_legs, sent, delivered, num_leg_launch,
                   stopping, wire>>

-----------------------------------------------------------------------------
Next ==
    \/ launch_new_set
    \/ \E c \in Circs : \/ conflux_circuit_has_opened(c)
                        \/ conflux_process_link(c)
                        \/ conflux_process_linked(c)
                        \/ conflux_process_linked_ack(c)
    \/ \E e \in Ends : \/ circuit_close_all_marked(e)
                       \/ Shutdown(e)
                       \/ conflux_pool_free_all(e)
    \/ \E e \in Ends, c \in Circs : \/ circuit_mark_for_close(e, c)
                                    \/ SendData(e, c)
                                    \/ DataArrives(e, c)
                                    \/ FreeAtExit(e, c)

Spec == Init /\ [][Next]_vars

\* Circuits open or time out, cells on circuits that are up arrive, a DESTROY
\* follows the last free, and the postloop event runs: as long as one of
\* these is due, one of them happens.
PeerGone(e, c) == state[Peer(e)][c] = "freed"
Destroyed(e, c) == PeerGone(e, c) /\ circuit_mark_for_close(e, c)
Progress ==
    \/ \E c \in Circs : \/ conflux_circuit_has_opened(c)
                        \/ conflux_process_link(c)
                        \/ conflux_process_linked(c)
    \/ \E e \in Ends : \/ circuit_close_all_marked(e)
                       \/ conflux_pool_free_all(e)
                       \/ \E c \in Circs : Destroyed(e, c) \/ FreeAtExit(e, c)
Fairness == WF_vars(Progress)
FairSpec == Spec /\ Fairness

-----------------------------------------------------------------------------
(* What must hold. *)

\* Every variable has the type of the field it stands for.
TypeOK ==
    /\ state \in [Ends -> [Circs -> {"none", "building", "open", "marked", "freed"}]]
    /\ conflux \in [Ends -> [Circs -> Objs \cup {NoObj}]]
    /\ pool \in [Ends -> Objs \cup {NoObj}]
    /\ status \in [Ends -> [Objs -> {"new", "live", "freed"}]]
    /\ cfx_legs \in [Ends -> [Objs -> SUBSET Circs]]
    /\ sent \in [Ends -> [Objs -> {0, 1}]]
    /\ delivered \in [Ends -> [Objs -> {0, 1}]]
    /\ legs \subseteq Circs /\ linked \subseteq legs
    /\ unlinked \in Objs \cup {NoObj}
    /\ num_leg_launch \in 0..MaxLaunch
    /\ stopping \subseteq Ends
    /\ wire \subseteq Cells

\* Who points to conflux_t o at end e.
Referenced(e, o) ==
    \/ pool[e] = o
    \/ e = "client" /\ unlinked = o
    \/ \E c \in Circs : conflux[e][c] = o

\* A conflux_t lives exactly as long as a circuit, the pool or the unlinked
\* set points to it: no pointer is left to a freed one, and none is leaked.
LivesWhileReferenced ==
    \A e \in Ends, o \in Objs : status[e][o] = "live" <=> Referenced(e, o)

\* A conflux_t with no legs left is freed by one circuit only.
FreedByOne ==
    \A e \in Ends, c, d \in Circs :
       /\ conflux[e][c] # NoObj /\ conflux[e][c] = conflux[e][d] /\ c # d
       => {c, d} \subseteq cfx_legs[e][conflux[e][c]]

\* What conflux_get_circ_for_conn and count_client_usable_sets take for
\* granted: a set in the linked pool has a first leg, whose circuit is up.
PooledSetsUsable ==
    \A e \in Ends \ stopping : pool[e] # NoObj =>
       LET L == cfx_legs[e][pool[e]] IN
       L # {} /\ \A c \in L : state[e][c] = "open" /\ conflux[e][c] = pool[e]

\* A leg is in one place: waiting in an unlinked set that has it, or in the
\* linked set; the client's nonce is never in both pools, which
\* linked_circuit_free asserts.
OnePlace ==
    /\ unlinked # NoObj => pool["client"] = NoObj
    /\ \A c \in legs : conflux["client"][c] = NoObj
    /\ "client" \notin stopping =>
         /\ unlinked # NoObj <=> legs # {}
         /\ \A c \in legs : state["client"][c] \in {"building", "open"}

\* Every cell finds the circuit in the state its handler wants, so no BUG()
\* or refusal in the handlers is reached; data only reaches legs that are
\* linked, also when it comes in before the LINKED_ACK.
CellsExpected ==
    \A m \in wire : Up(m.to, m.circ) =>
       /\ m.kind = "LINK" => conflux["exit"][m.circ] = NoObj /\ m.seq = 0
       /\ m.kind = "LINKED" => /\ m.circ \in legs \ linked
                               /\ m.seq <= delivered["client"][unlinked]
       /\ m.kind = "LINKED_ACK" => conflux["exit"][m.circ] # NoObj
       /\ m.kind = "DATA" => conflux[m.to][m.circ] # NoObj

-----------------------------------------------------------------------------
(* An inductive invariant. *)

\* A circuit's pointer and its conflux_t's list of legs agree while it is up.
\* Of the circuits that are marked only the last of a set keeps its pointer,
\* and the pool has forgotten that set.
LegsInv ==
    /\ \A e \in Ends, o \in Objs : \A c \in cfx_legs[e][o] :
          conflux[e][c] = o /\ state[e][c] = "open"
    /\ \A e \in Ends, c \in Circs :
          conflux[e][c] # NoObj /\ c \notin cfx_legs[e][conflux[e][c]] =>
             /\ state[e][c] = "marked"
             /\ cfx_legs[e][conflux[e][c]] = {}
             /\ pool[e] # conflux[e][c]
    /\ \A e \in Ends : pool[e] # NoObj => cfx_legs[e][pool[e]] # {}

\* The client's one conflux_t is new, then in the unlinked set, then linked.
SetInv ==
    /\ unlinked \in {NoObj, ClientCfx}
    /\ legs # {} => unlinked # NoObj
    /\ unlinked # NoObj =>
         /\ pool["client"] = NoObj /\ \A c \in Circs : conflux["client"][c] = NoObj
         /\ sent["client"][ClientCfx] = 0
         /\ "client" \notin stopping => legs # {}
    /\ "client" \notin stopping =>
         /\ \A c \in legs : state["client"][c] \in {"building", "open"}
         /\ \A c \in Circs : state["client"][c] \in {"building", "open"} =>
               c \in legs \/ conflux["client"][c] # NoObj
    /\ \A c \in linked : state["client"][c] \notin {"none", "building"}
    /\ \A c \in Circs : status["client"][c] = "new"
    /\ status["client"][ClientCfx] = "new" =>
         /\ \A c \in Circs : state["client"][c] = "none"
         /\ sent["client"][ClientCfx] = 0

\* The exit has linked its half of circuit c, if that is still up.
Answered(c) == state["exit"][c] = "open" => conflux["exit"][c] # NoObj

\* How far the linking of each circuit has come, by the cells under way.
WireInv ==
    /\ \A c \in Circs : state["client"][c] \in {"none", "building"} =>
          state["exit"][c] = "none" /\ \A m \in wire : m.circ # c
    /\ \A c \in Circs : state["exit"][c] # "building"
    /\ \A c \in Circs : state["exit"][c] = "none" => status["exit"][c] = "new"
    /\ \A c \in Circs :
          c \in linked \/ conflux["client"][c] # NoObj => Answered(c)
    /\ \A m \in wire : m.kind = "LINK" =>
          /\ m.to = "exit" /\ m.seq = 0
          /\ conflux["exit"][m.circ] = NoObj /\ status["exit"][m.circ] = "new"
          /\ Up("client", m.circ) => m.circ \in legs \ linked
          /\ \A n \in wire : n.circ = m.circ => n = m
    /\ \A m \in wire : m.kind = "LINKED" =>
          /\ m.to = "client" /\ Answered(m.circ)
          /\ Up("client", m.circ) => m.circ \in legs \ linked
          /\ m.seq = 1 => sent["client"][ClientCfx] = 1
          /\ \A n \in wire : n.circ = m.circ /\ n.kind = "LINKED" => n = m
    /\ \A m \in wire : m.kind = "LINKED_ACK" => m.to = "exit" /\ Answered(m.circ)
    /\ \A m \in wire : m.kind = "DATA" =>
          /\ sent["client"][ClientCfx] = 1
          /\ m.to = "exit" => Answered(m.circ)
    /\ \A o \in Objs :
          /\ delivered["exit"][o] = 1 => sent["client"][ClientCfx] = 1
          /\ sent["exit"][o] = 1 => delivered["exit"][o] = 1

\* Circuits, pools and conflux_t objects agree at each end (LegsInv and the two
\* lifetime properties), so do the client's unlinked set and its circuits
\* (SetInv), and the two ends about every circuit (WireInv).
IndInv ==
    /\ TypeOK /\ LegsInv /\ FreedByOne /\ LivesWhileReferenced
    /\ SetInv /\ WireInv

-----------------------------------------------------------------------------
(* Liveness. *)

\* Every leg the client waits for links or closes in the end.
EveryLegSettles ==
    \A c \in Circs : []<>(c \notin legs \ linked)

\* No conflux_t stays without legs: but for the client's unlinked set, one
\* that has lost its legs is freed in the end.
EveryEmptySetFreed ==
    \A e \in Ends, o \in Objs :
       []<>(\/ status[e][o] # "live" \/ cfx_legs[e][o] # {}
            \/ e = "client" /\ unlinked = o)

=============================================================================
