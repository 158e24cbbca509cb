----------------------------- MODULE FetchService -----------------------------
(***************************************************************************)
(* What dynhost_client promises an application: every fetch it accepts is  *)
(* answered, once, and the answer is a status.                             *)
(***************************************************************************)
CONSTANTS Requests,   \* the fetches an application makes
          Statuses    \* what a callback may be given

VARIABLES accepted,   \* fetches that were accepted
          answer      \* what the callback of each was given, if it was called

Init == accepted = {} /\ answer = [r \in Requests |-> <<>>]

Accept(r) == /\ r \notin accepted
             /\ accepted' = accepted \cup {r}
             /\ UNCHANGED answer

Answer(r) == /\ r \in accepted /\ answer[r] = <<>>
             /\ \E s \in Statuses : answer' = [answer EXCEPT ![r] = <<s>>]
             /\ UNCHANGED accepted

Next == \E r \in Requests : Accept(r) \/ Answer(r)

Spec == Init /\ [][Next]_<<accepted, answer>>

=============================================================================
