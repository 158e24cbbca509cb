---------------------------- MODULE MCConfluxSet ----------------------------
(* Small instances of ConfluxSet for TLC. *)
EXTENDS ConfluxSet

CONSTANTS l1, l2

LowRttAlg == [e \in Ends |-> "lowrtt"]

\* Legs that tie are taken in either order.
AnyOrder == [e \in Ends |-> [l \in Legs |-> 0]]

\* The first leg of the one that sends may block.
SenderBlocks == {<<"client", l1>>}

OneWay == [e \in Ends |-> IF e = "client" THEN 4 ELSE 0]

=============================================================================
