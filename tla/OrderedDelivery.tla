--------------------------- MODULE OrderedDelivery ---------------------------
(***************************************************************************)
(* What a conflux set promises its streams, whatever the number of legs:   *)
(* each flow is one FIFO.  Messages are known by their rank in the flow;   *)
(* what has been received is always an initial part of what was submitted. *)
(***************************************************************************)
EXTENDS Integers, Sequences

CONSTANTS Flows,   \* the directions of the set
          Kinds    \* the kinds of messages

VARIABLES sent,    \* the messages submitted to each flow
          got      \* the messages received from it

Init == /\ sent = [f \in Flows |-> <<>>]
        /\ got = [f \in Flows |-> <<>>]

Submit(f) == /\ \E k \in Kinds : sent' = [sent EXCEPT ![f] = Append(@, k)]
             /\ UNCHANGED got

\* One cell may release several messages.
Deliver(f) == /\ \E n \in (Len(got[f]) + 1)..Len(sent[f]) :
                   got' = [got EXCEPT ![f] = [i \in 1..n |-> i]]
              /\ UNCHANGED sent

Next == \E f \in Flows : Submit(f) \/ Deliver(f)

Spec == Init /\ [][Next]_<<sent, got>>

=============================================================================
