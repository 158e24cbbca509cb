----------------------------- MODULE DynhostClient -----------------------------
(***************************************************************************)
(* One-shot HTTP fetches through Tor (feature/dynhost/dynhost_client.c).   *)
(* An application thread queues a fetch; Tor's main thread starts it at    *)
(* its next tick and then waits for whichever comes first: the response at *)
(* the connection's EOF, the deadline, or the end of the connection.  Each *)
(* of the three reports to the same callback.                              *)
(*                                                                         *)
(* The order of the lists is left open.  Callbacks queue new fetches at    *)
(* most, which the application's threads do anyway.  The operators beside  *)
(* some definitions are slips of the code for mutation tests.              *)
(***************************************************************************)
EXTENDS Integers, Sequences

CONSTANTS
    Requests,    \* fetches the application makes
    CallsCleanup \* whether the application calls dynhost_client_cleanup

VARIABLES
    queued,      \* fetches dynhost_client_fetch_ex has accepted
    pending,     \* g_pending_head
    active,      \* g_active_head
    expired,     \* time(NULL) >= deadline
    conn,        \* our side of the linked pair, by conn_gid
    reading,     \* conn->state = DIR_CONN_STATE_CLIENT_READING
    inbuf,       \* the status on the connection's inbuf, once its headers are in
    whole,       \* fetches whose response is all there
    pc,          \* where Tor's main thread is
    todo,        \* what its current loop has yet to visit
    due,         \* fetches expired when the tick read the time
    calls,       \* history: the statuses each callback was given
    served       \* history: fetches whose 200 was read and decompressed in time

connVars == <<expired, conn, reading, inbuf, whole>>
vars == <<queued, pending, active, expired, conn, reading, inbuf, whole, pc,
          todo, due, calls, served>>

Statuses == {"200", "503", "-1"}
Responses == {"200", "503"}

Init ==
    /\ queued = {} /\ pending = {} /\ active = {} /\ expired = {}
    /\ conn = [r \in Requests |-> "none"]
    /\ reading = {}
    /\ inbuf = [r \in Requests |-> "empty"] /\ whole = {}
    /\ pc = "loop" /\ todo = {} /\ due = {}
    /\ calls = [r \in Requests |-> <<>>]
    /\ served = {}

-----------------------------------------------------------------------------
(* Any thread. *)

dynhost_client_fetch_ex(r) ==
    /\ r \notin queued
    /\ queued' = queued \cup {r}
    /\ pending' = pending \cup {r}
    /\ UNCHANGED <<active, pc, todo, due, calls, served, connVars>>

-----------------------------------------------------------------------------
(* Tor's main thread: dynhost_client_process_pending. *)

callback(r, status) == calls' = [calls EXCEPT ![r] = Append(@, status)]

Tick ==
    /\ pc = "loop"
    /\ pc' = "open" /\ todo' = pending /\ pending' = {} /\ due' = expired
    /\ UNCHANGED <<queued, active, calls, served, connVars>>

initiate_fetch(r) ==
    /\ pc = "open" /\ r \in todo
    /\ todo' = todo \ {r}
    /\ conn' = [conn EXCEPT ![r] = "open"]
    /\ active' = active \cup {r}
    /\ UNCHANGED <<queued, pending, expired, reading, inbuf, whole, pc, due,
                   calls, served>>

InitiateFailsSilently(r) ==
    /\ pc = "open" /\ r \in todo
    /\ todo' = todo \ {r}
    /\ UNCHANGED <<queued, pending, active, pc, due, calls, served, connVars>>

InitiateFails(r) ==
    /\ pc = "open" /\ r \in todo
    /\ todo' = todo \ {r}
    /\ callback(r, "-1")
    /\ UNCHANGED <<queued, pending, active, pc, due, served, connVars>>

StartCheck ==
    /\ pc = "open" /\ todo = {}
    /\ pc' = "check" /\ todo' = active
    /\ UNCHANGED <<queued, pending, active, due, calls, served, connVars>>

\* connection_mark_for_close; a second call is a BUG() that changes nothing.
Mark(c) == IF c = "open" THEN "marked" ELSE c

\* check_active_fetches drops r after its callback; a slip forgets to.
KeepFetch(r) == active' = active
DropFetch(r) == active' = active \ {r}

\* The status in what is left on the inbuf, if its headers are complete.
Leftover(r) == IF inbuf[r] \in Responses THEN inbuf[r] ELSE "-1"

ConnGone(r) ==
    /\ conn[r] = "gone"
    /\ callback(r, "-1") /\ DropFetch(r)
    /\ UNCHANGED <<conn, inbuf>>

TimedOut(r) ==
    /\ conn[r] # "gone" /\ r \in due
    /\ callback(r, "-1") /\ DropFetch(r)
    /\ conn' = [conn EXCEPT ![r] = Mark(@)]
    /\ UNCHANGED inbuf

ConnMarked(r) ==
    /\ conn[r] = "marked" /\ r \notin due
    /\ callback(r, Leftover(r)) /\ DropFetch(r)
    /\ inbuf' = [inbuf EXCEPT ![r] = "empty"]
    /\ UNCHANGED conn

\* Only response_started changes, which nothing reads.
StillWaiting(r) ==
    /\ conn[r] = "open" /\ r \notin due
    /\ UNCHANGED <<active, calls, conn, inbuf>>

CheckOne(r) ==
    /\ pc = "check" /\ r \in todo
    /\ todo' = todo \ {r}
    /\ ConnGone(r) \/ TimedOut(r) \/ ConnMarked(r) \/ StillWaiting(r)
    /\ UNCHANGED <<queued, pending, expired, reading, whole, pc, due, served>>

EndTick ==
    /\ pc = "check" /\ todo = {}
    /\ pc' = "loop" /\ due' = {}
    /\ UNCHANGED <<queued, pending, active, todo, calls, served, connVars>>

-----------------------------------------------------------------------------
(* The event loop between ticks. *)

\* connection_dir_finished_flushing: the request has left.
connection_dir_finished_flushing(r) ==
    /\ pc = "loop" /\ conn[r] = "open" /\ r \notin reading
    /\ reading' = reading \cup {r}
    /\ UNCHANGED <<queued, pending, active, expired, conn, inbuf, whole, pc,
                   todo, due, calls, served>>

\* Bytes arrive and stay on the inbuf until EOF: part of the headers, all of
\* them, all of the response.
Arrive(r) ==
    /\ pc = "loop" /\ conn[r] = "open"
    /\ \/ /\ inbuf[r] = "empty"
          /\ inbuf' = [inbuf EXCEPT ![r] = "partial"] /\ UNCHANGED whole
       \/ /\ inbuf[r] = "partial"
          /\ \E x \in Responses : inbuf' = [inbuf EXCEPT ![r] = x]
          /\ UNCHANGED whole
       \/ /\ inbuf[r] \in Responses /\ r \notin whole
          /\ whole' = whole \cup {r} /\ UNCHANGED inbuf
    /\ UNCHANGED <<queued, pending, active, expired, conn, reading, pc, todo,
                   due, calls, served>>

dynhost_client_handle_response(r) ==
    IF r \in active
    THEN callback(r, inbuf[r]) /\ DropFetch(r)
    ELSE UNCHANGED <<calls, active>>

\* connection_dir_reached_eof, and connection_dir_client_reached_eof when the
\* request has left.  What is not all there stays on the inbuf.  A response
\* that is leaves it, and is dropped if it is a 503 or does not decompress.
\* The connection is marked in every case.
connection_dir_reached_eof(r) ==
    /\ pc = "loop" /\ conn[r] = "open"
    /\ conn' = [conn EXCEPT ![r] = "marked"]
    /\ \/ /\ r \in reading \cap whole /\ inbuf[r] = "200"
          /\ dynhost_client_handle_response(r)
          /\ inbuf' = [inbuf EXCEPT ![r] = "empty"]
          /\ served' = served \cup (active \cap {r})
       \/ /\ r \in reading \cap whole
          /\ inbuf' = [inbuf EXCEPT ![r] = "empty"]
          /\ UNCHANGED <<calls, active, served>>
       \/ /\ r \notin reading \cap whole
          /\ UNCHANGED <<calls, active, inbuf, served>>
    /\ UNCHANGED <<queued, pending, expired, reading, whole, pc, todo, due>>

\* Tor marks the connection for a reason of its own.
ConnFails(r) ==
    /\ pc = "loop" /\ conn[r] = "open"
    /\ conn' = [conn EXCEPT ![r] = "marked"]
    /\ UNCHANGED <<queued, pending, active, expired, reading, inbuf, whole, pc,
                   todo, due, calls, served>>

ConnFreed(r) ==
    /\ pc = "loop" /\ conn[r] = "marked"
    /\ conn' = [conn EXCEPT ![r] = "gone"]
    /\ UNCHANGED <<queued, pending, active, expired, reading, inbuf, whole, pc,
                   todo, due, calls, served>>

Expire(r) ==
    /\ r \in queued \ expired
    /\ expired' = expired \cup {r}
    /\ UNCHANGED <<queued, pending, active, conn, reading, inbuf, whole, pc,
                   todo, due, calls, served>>

-----------------------------------------------------------------------------
(* dynhost_client_cleanup.  The header says it is "Called during shutdown",*)
(* but nothing in the tree calls it: an application that embeds Tor may,   *)
(* from a callback on Tor's main thread.                                   *)

dynhost_client_cleanup ==
    /\ CallsCleanup /\ pc = "loop"
    /\ pc' = "cleanup" /\ todo' = pending /\ pending' = {}
    /\ UNCHANGED <<queued, active, due, calls, served, connVars>>

CleanupPending(r) ==
    /\ pc = "cleanup" /\ r \in todo
    /\ todo' = todo \ {r}
    /\ callback(r, "-1")
    /\ UNCHANGED <<queued, pending, active, pc, due, served, connVars>>

CleanupActive(r) ==
    /\ pc = "cleanup" /\ todo = {} /\ r \in active
    /\ active' = active \ {r}
    /\ callback(r, "-1")
    /\ conn' = [conn EXCEPT ![r] = Mark(@)]
    /\ UNCHANGED <<queued, pending, expired, reading, inbuf, whole, pc, todo,
                   due, served>>

CleanupDone ==
    /\ pc = "cleanup" /\ todo = {} /\ active = {}
    /\ pc' = "loop"
    /\ UNCHANGED <<queued, pending, active, todo, due, calls, served, connVars>>

\* subsys_dynhost_shutdown: Tor's event loop has ended.  It does not know of
\* fetches.
Shutdown ==
    /\ pc = "loop"
    /\ pc' = "stopped"
    /\ UNCHANGED <<queued, pending, active, todo, due, calls, served, connVars>>

-----------------------------------------------------------------------------
Ticking ==
    \/ Tick \/ StartCheck \/ EndTick
    \/ \E r \in Requests : initiate_fetch(r) \/ InitiateFails(r) \/ CheckOne(r)

Cleaning ==
    \/ CleanupDone
    \/ \E r \in Requests : CleanupPending(r) \/ CleanupActive(r)

Next ==
    \/ Ticking \/ dynhost_client_cleanup \/ Cleaning \/ Shutdown
    \/ \E r \in Requests :
         \/ dynhost_client_fetch_ex(r) \/ connection_dir_finished_flushing(r)
         \/ Arrive(r) \/ connection_dir_reached_eof(r)
         \/ ConnFails(r) \/ ConnFreed(r) \/ Expire(r)

Spec == Init /\ [][Next]_vars

\* The tick is a periodic event of a loop that finishes each callback, and
\* deadlines pass.  Nothing is assumed of the network.
FairSpec ==
    /\ Spec /\ WF_vars(Ticking) /\ WF_vars(Cleaning)
    /\ \A r \in Requests : WF_vars(Expire(r))

-----------------------------------------------------------------------------
(* Safety. *)

\* Every variable has the type of the field it stands for.
TypeOK ==
    /\ queued \subseteq Requests /\ pending \subseteq Requests
    /\ active \subseteq Requests /\ expired \subseteq Requests
    /\ conn \in [Requests -> {"none", "open", "marked", "gone"}]
    /\ reading \subseteq Requests
    /\ inbuf \in [Requests -> {"empty", "partial"} \cup Responses]
    /\ whole \subseteq Requests
    /\ pc \in {"loop", "open", "check", "cleanup", "stopped"}
    /\ todo \subseteq Requests /\ due \subseteq Requests
    /\ calls \in [Requests -> Seq(Statuses)]
    /\ served \subseteq Requests

\* "fire the fetch's callback exactly once": a fetch the module still holds
\* has not been called back, and one it has let go of has been, once.
CalledOnce ==
    \A r \in Requests :
       calls[r] # <<>> => Len(calls[r]) = 1 /\ r \notin pending \cup active \cup todo

\* Where a fetch is; with CalledOnce, an inductive invariant.
FetchInv ==
    /\ pending \cup active \cup todo \subseteq queued
    /\ pending \cap (active \cup todo) = {}
    /\ pc \in {"open", "cleanup"} => todo \cap active = {}
    /\ pc = "check" => todo \subseteq active
    /\ pc \in {"loop", "stopped"} => todo = {}
    /\ \A r \in Requests : calls[r] # <<>> => r \in queued

\* No accepted fetch is lost: it is on a list or it has been called back.
NothingLost ==
    \A r \in queued : r \in pending \cup active \cup todo \/ calls[r] # <<>>

\* A fetch is on one list, or in the loop that is visiting it, until it is
\* called back, and on none afterwards.
IndInv == TypeOK /\ FetchInv /\ CalledOnce /\ NothingLost

\* A complete 200 response that was decoded while the fetch was active is what
\* the application was told, whatever the deadline and the connection did
\* afterwards.
SuccessReported ==
    \A r \in served : calls[r] = <<"200">>

Service == INSTANCE FetchService
             WITH accepted <- queued, answer <- calls

\* dynhost_client answers every accepted fetch at most once.
ImplementsService == Service!Spec

-----------------------------------------------------------------------------
(* Liveness. *)

\* "Called when response arrives or timeout": every accepted fetch is
\* answered, unless Tor shuts down before that.
EveryFetchAnswered ==
    \A r \in Requests : r \in queued ~> calls[r] # <<>> \/ pc = "stopped"

\* "Clean up all pending and active fetches.  Called during shutdown": a fetch
\* accepted while Tor runs is answered even so.
AnsweredAtShutdown ==
    \A r \in Requests : r \in queued /\ pc # "stopped" ~> calls[r] # <<>>

=============================================================================
