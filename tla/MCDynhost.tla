------------------------------ MODULE MCDynhost ------------------------------
(***************************************************************************)
(* The two halves of dynhost's client side in one run: DynhostStream, and  *)
(* DynhostClient over variables of its own.  They share a main thread but  *)
(* no state, so a behaviour is of one of them; `focus' says of which.      *)
(***************************************************************************)
EXTENDS DynhostStream

CONSTANT Requests

VARIABLES
    c_queued, c_pending, c_active, c_expired, c_conn, c_reading, c_inbuf,
    c_whole, c_pc, c_todo, c_due, c_calls, c_served,
    focus

Client == INSTANCE DynhostClient WITH
    queued <- c_queued, pending <- c_pending, active <- c_active,
    expired <- c_expired, conn <- c_conn, reading <- c_reading,
    inbuf <- c_inbuf, whole <- c_whole, pc <- c_pc, todo <- c_todo, due <- c_due,
    calls <- c_calls, served <- c_served

clientVars == <<c_queued, c_pending, c_active, c_expired, c_conn, c_reading,
                c_inbuf, c_whole, c_pc, c_todo, c_due, c_calls, c_served>>
mcVars == <<vars, clientVars, focus>>

OfStream(A) == focus = "stream" /\ A /\ UNCHANGED <<clientVars, focus>>
OfClient(A) == focus = "client" /\ A /\ UNCHANGED <<vars, focus>>

MCInit == Init /\ Client!Init /\ focus \in {"stream", "client"}

MCNext == OfStream(Next) \/ OfClient(Client!Next)

\* The fairness of the two specifications.
MCFairness ==
    /\ WF_mcVars(OfStream(Terminating)) /\ WF_mcVars(OfStream(Ticking))
    /\ WF_mcVars(OfStream(Cleaning))
    /\ \A s \in Streams : /\ WF_mcVars(OfStream(ReleaseHandle(s)))
                          /\ WF_mcVars(OfStream(Expire(s)))
    /\ WF_mcVars(OfClient(Client!Ticking)) /\ WF_mcVars(OfClient(Client!Cleaning))
    /\ \A r \in Requests : WF_mcVars(OfClient(Client!Expire(r)))

MCSpec == MCInit /\ [][MCNext]_mcVars /\ MCFairness

\* DynhostClient!ImplementsService; it holds of a behaviour of the streams,
\* in which no fetch is made.
ImplementsService == Client!ImplementsService

\* DynhostClient!EveryFetchAnswered.
EveryFetchAnswered == Client!EveryFetchAnswered

\* What the headers say of a shutdown, "Close all streams, fire CLOSED for
\* each" and "Clean up all pending and active fetches": no stream and no fetch
\* is left without its callback.
SettledAtShutdown == EndsAtShutdown /\ Client!AnsweredAtShutdown
=============================================================================
