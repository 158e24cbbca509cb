----------------------------- MODULE DynhostStream -----------------------------
(***************************************************************************)
(* The lifetime of dynhost_stream handles (feature/dynhost/                *)
(* dynhost_stream.c).  Application threads open, write to and close        *)
(* streams; they and Tor's main thread share the handles under             *)
(* g_queue_mutex.  Tor's main thread opens the connections and looks at    *)
(* every stream once a second (dynhost_stream_process_pending), hears of   *)
(* data and EOF from its event loop, and makes every callback.             *)
(*                                                                         *)
(* A step is what happens between two releases of the mutex.  The handle   *)
(* is shared by exactly two parties, the module and the application, and   *)
(* is freed by whichever lets go last.  The application keeps the header's *)
(* contract: it closes a stream at most once and does not use the handle   *)
(* after that.  Callbacks may close the stream they are about.             *)
(*                                                                         *)
(* The order of the two lists is left open: no stream depends on another.  *)
(*                                                                         *)
(* Next to some definitions stands a slightly wrong form of them, the way  *)
(* a slip in the code would make it.  Nothing uses these but mutation      *)
(* tests: each of them must break a property.                              *)
(***************************************************************************)
EXTENDS Integers, Sequences, FiniteSets

CONSTANTS
    Streams,     \* handles dynhost_stream_open may return
    NoStream,    \* no handle
    MaxQueue,    \* DYNHOST_STREAM_MAX_QUEUE_BYTES, in chunks
    MaxWrites,   \* bound: chunks the application writes to a stream
    MaxReads,    \* bound: reads delivered on a stream
    CallsCleanup \* whether the application calls dynhost_stream_cleanup

ASSUME StreamsAssumption == NoStream \notin Streams
ASSUME QueueAssumption == MaxQueue \in Nat /\ MaxWrites \in Nat /\ MaxReads \in Nat
ASSUME CleanupAssumption == CallsCleanup \in BOOLEAN

VARIABLES
    opened,              \* dynhost_stream_open has returned the handle
    pending,             \* g_pending_head
    active,              \* g_active_head
    close_called,        \* s->close_called
    terminal_fired,      \* s->terminal_fired
    connected_fired,     \* s->connected_fired
    releasing,           \* dynhost_stream_close is about to free the handle
    freed,               \* the handle has been freed
    accepted,            \* history: chunks dynhost_stream_write has taken
    queued,              \* chunks in the list s->write_head
    flushed,             \* history: chunks moved to the connection
    expired,             \* time(NULL) >= s->deadline
    conn,                \* our side of the linked pair, by s->conn_gid
    ap,                  \* the linked AP connection: its CONNECTED cell came
    pc,                  \* where Tor's main thread is
    todo,                \* streams its current loop has yet to visit
    due,                 \* streams expired when the tick read the time
    stage,               \* where it is in stream_terminal_detached
    victim,              \* the stream that call is for
    event,               \* the event it reports
    free_now,            \* its local variable
    cbs                  \* history: callbacks made for each stream, in order

handleVars == <<opened, close_called, releasing, freed>>
queueVars == <<accepted, queued, flushed>>
connVars == <<conn, ap, expired>>
termVars == <<stage, victim, event, free_now>>
vars == <<opened, pending, active, close_called, terminal_fired,
          connected_fired, releasing, freed, accepted, queued, flushed,
          expired, conn, ap, pc, todo, due, stage, victim, event,
          free_now, cbs>>

Terminal == {"closed", "timeout"}
Events == Terminal \cup {"open", "connected", "read"}

Init ==
    /\ opened = {} /\ pending = {} /\ active = {}
    /\ close_called = {} /\ terminal_fired = {} /\ connected_fired = {}
    /\ releasing = {} /\ freed = {}
    /\ accepted = [s \in Streams |-> 0]
    /\ queued = [s \in Streams |-> 0]
    /\ flushed = [s \in Streams |-> 0]
    /\ expired = {}
    /\ conn = [s \in Streams |-> "none"]
    /\ ap = [s \in Streams |-> "wait"]
    /\ pc = "loop" /\ todo = {} /\ due = {}
    /\ stage = "none" /\ victim = NoStream /\ event = "closed"
    /\ free_now = FALSE
    /\ cbs = [s \in Streams |-> <<>>]

-----------------------------------------------------------------------------
(* The application's threads. *)

dynhost_stream_open(s) ==
    /\ s \notin opened
    /\ opened' = opened \cup {s}
    /\ pending' = pending \cup {s}
    /\ UNCHANGED <<active, close_called, terminal_fired, connected_fired,
                   releasing, freed, pc, todo, due, cbs, queueVars, connVars,
                   termVars>>

\* A write that is refused (-1) changes nothing.
RoomToWrite(s) == queued[s] + 1 <= MaxQueue
dynhost_stream_write(s) ==
    /\ s \in opened \ close_called
    /\ accepted[s] < MaxWrites
    /\ s \notin terminal_fired /\ RoomToWrite(s)
    /\ accepted' = [accepted EXCEPT ![s] = @ + 1]
    /\ queued' = [queued EXCEPT ![s] = @ + 1]
    /\ UNCHANGED <<opened, pending, active, close_called, terminal_fired,
                   connected_fired, releasing, freed, flushed, pc, todo, due,
                   cbs, connVars, termVars>>

\* The part of dynhost_stream_close under the mutex, from another thread.
dynhost_stream_close(s) ==
    /\ s \in opened \ close_called
    /\ close_called' = close_called \cup {s}
    /\ releasing' = IF s \in terminal_fired THEN releasing \cup {s} ELSE releasing
    /\ UNCHANGED <<opened, pending, active, terminal_fired, connected_fired,
                   freed, pc, todo, due, cbs, queueVars, connVars, termVars>>

\* The rest of it.
ReleaseHandle(s) ==
    /\ s \in releasing
    /\ freed' = freed \cup {s}
    /\ releasing' = releasing \ {s}
    /\ UNCHANGED <<opened, pending, active, close_called, terminal_fired,
                   connected_fired, pc, todo, due, cbs, queueVars, connVars,
                   termVars>>

-----------------------------------------------------------------------------
(* Callbacks, made by Tor's main thread. *)

\* The callback for s gets the event e; it closes the stream if c.
Callback(s, e, c) ==
    /\ c => s \in opened \ close_called
    /\ cbs' = [cbs EXCEPT ![s] = Append(@, e)]
    /\ close_called' = IF c THEN close_called \cup {s} ELSE close_called

\* stream_terminal_detached starts on s.
StartTerminal(s, e) ==
    /\ stage' = "lock" /\ victim' = s /\ event' = e /\ free_now' = FALSE

\* Its part under the mutex, which learns whether the handle was closed.
NeverClosed == FALSE
ClosedBefore == victim \in close_called
TerminalUnderLock ==
    /\ stage = "lock"
    /\ terminal_fired' = terminal_fired \cup {victim}
    /\ free_now' = ClosedBefore
    /\ queued' = [queued EXCEPT ![victim] = 0]
    /\ stage' = "call"
    /\ UNCHANGED <<opened, pending, active, close_called, connected_fired,
                   releasing, freed, accepted, flushed, pc, todo, due, victim,
                   event, cbs, connVars>>

\* The callback, outside the mutex.  If it closes the stream, that frees the
\* handle at once: terminal_fired is set.
TerminalCallback ==
    /\ stage = "call"
    /\ \E c \in BOOLEAN :
         /\ Callback(victim, event, c)
         /\ freed' = IF c THEN freed \cup {victim} ELSE freed
    /\ stage' = "free"
    /\ UNCHANGED <<opened, pending, active, terminal_fired, connected_fired,
                   releasing, pc, todo, due, victim, event, free_now,
                   queueVars, connVars>>

\* The decision was made under the mutex; asking again would be too late.
FreesHandleLate == victim \in close_called
FreesHandle == free_now
TerminalFree ==
    /\ stage = "free"
    /\ freed' = IF FreesHandle THEN freed \cup {victim} ELSE freed
    /\ stage' = "none" /\ victim' = NoStream /\ free_now' = FALSE
    /\ UNCHANGED <<opened, pending, active, close_called, terminal_fired,
                   connected_fired, releasing, pc, todo, due, event, cbs,
                   queueVars, connVars>>

-----------------------------------------------------------------------------
(* The tick: dynhost_stream_process_pending. *)

Tick ==
    /\ pc = "loop" /\ stage = "none"
    /\ pc' = "open" /\ todo' = pending /\ pending' = {} /\ due' = expired
    /\ UNCHANGED <<active, terminal_fired, connected_fired, cbs, handleVars,
                   queueVars, connVars, termVars>>

\* A stream closed before its turn, or whose connection cannot be made.
OpenFailsSilently(s) ==
    /\ pc = "open" /\ stage = "none" /\ s \in todo
    /\ todo' = todo \ {s}
    /\ UNCHANGED <<pending, active, terminal_fired, connected_fired, pc, due,
                   cbs, handleVars, queueVars, connVars, termVars>>
OpenFails(s) ==
    /\ pc = "open" /\ stage = "none" /\ s \in todo
    /\ todo' = todo \ {s}
    /\ StartTerminal(s, "closed")
    /\ UNCHANGED <<pending, active, terminal_fired, connected_fired, pc, due,
                   cbs, handleVars, queueVars, connVars>>

initiate_stream(s) ==
    /\ pc = "open" /\ stage = "none" /\ s \in todo \ close_called
    /\ todo' = todo \ {s}
    /\ conn' = [conn EXCEPT ![s] = "open"]
    /\ active' = active \cup {s}
    /\ \E c \in BOOLEAN : Callback(s, "open", c)
    /\ UNCHANGED <<opened, pending, terminal_fired, connected_fired, releasing,
                   freed, expired, ap, pc, due, queueVars, termVars>>

StartCheck ==
    /\ pc = "open" /\ stage = "none" /\ todo = {}
    /\ pc' = "check" /\ todo' = active
    /\ UNCHANGED <<pending, active, terminal_fired, connected_fired, due, cbs,
                   handleVars, queueVars, connVars, termVars>>

\* connection_mark_for_close; a second call is a BUG() that changes nothing.
Mark(c) == IF c = "open" THEN "marked" ELSE c

\* check_active_streams ends s with the event e.
CheckEnds(s, e) ==
    /\ active' = active \ {s}
    /\ StartTerminal(s, e)
    /\ UNCHANGED <<pending, terminal_fired, connected_fired, pc, due, cbs,
                   ap, expired, handleVars, queueVars>>

\* What check_active_streams does with one stream.
ConnGone(s) ==
    /\ conn[s] = "gone"
    /\ CheckEnds(s, "closed") /\ UNCHANGED conn

CloseRequested(s) ==
    /\ conn[s] # "gone" /\ s \in close_called
    /\ conn' = [conn EXCEPT ![s] = Mark(@)]
    /\ CheckEnds(s, "closed")

TimedOut(s) ==
    /\ conn[s] # "gone" /\ s \notin close_called /\ s \in due
    /\ conn' = [conn EXCEPT ![s] = Mark(@)]
    /\ CheckEnds(s, "timeout")

\* The inbuf holds nothing more: connection_dir_process_inbuf drained it after
\* the last read, and a marked connection is not read.
ConnMarked(s) ==
    /\ conn[s] = "marked" /\ s \notin close_called \cup due
    /\ CheckEnds(s, "closed") /\ UNCHANGED conn

\* flush_pending_writes; the part under the mutex empties the list.
FlushKeepsQueue(s) ==
    /\ flushed' = [flushed EXCEPT ![s] = @ + queued[s]]
    /\ UNCHANGED <<accepted, queued>>
flush_pending_writes(s) ==
    /\ flushed' = [flushed EXCEPT ![s] = @ + queued[s]]
    /\ queued' = [queued EXCEPT ![s] = 0]
    /\ UNCHANGED accepted

Live(s) ==
    /\ conn[s] = "open" /\ s \notin close_called \cup due
    /\ IF ap[s] = "open" /\ s \notin connected_fired
       THEN /\ connected_fired' = connected_fired \cup {s}
            /\ \E c \in BOOLEAN : Callback(s, "connected", c)
       ELSE UNCHANGED <<connected_fired, cbs, close_called>>
    /\ flush_pending_writes(s)
    /\ UNCHANGED <<opened, pending, active, terminal_fired, releasing, freed,
                   pc, due, connVars, termVars>>

CheckOne(s) ==
    /\ pc = "check" /\ stage = "none" /\ s \in todo
    /\ todo' = todo \ {s}
    /\ \/ ConnGone(s) \/ CloseRequested(s) \/ TimedOut(s) \/ ConnMarked(s)
       \/ Live(s)

EndTick ==
    /\ pc = "check" /\ stage = "none" /\ todo = {}
    /\ pc' = "loop" /\ due' = {}
    /\ UNCHANGED <<pending, active, terminal_fired, connected_fired, todo, cbs,
                   handleVars, queueVars, connVars, termVars>>

-----------------------------------------------------------------------------
(* What else the event loop does between ticks. *)

InLoop == pc = "loop" /\ stage = "none"

\* The relay CONNECTED cell arrives.
ApOpens(s) ==
    /\ InLoop /\ conn[s] = "open" /\ ap[s] = "wait"
    /\ ap' = [ap EXCEPT ![s] = "open"]
    /\ UNCHANGED <<pending, active, terminal_fired, connected_fired, pc, todo,
                   due, cbs, conn, expired, handleVars, queueVars, termVars>>

\* The AP connection is marked; what it had received is still delivered.
ApCloses(s) ==
    /\ InLoop /\ conn[s] = "open" /\ ap[s] = "open"
    /\ ap' = [ap EXCEPT ![s] = "marked"]
    /\ UNCHANGED <<pending, active, terminal_fired, connected_fired, pc, todo,
                   due, cbs, conn, expired, handleVars, queueVars, termVars>>

\* connection_dir_process_inbuf.  It drains the inbuf of every read, so the
\* later calls of dynhost_stream_deliver_inbuf find nothing.
dynhost_stream_deliver_inbuf(s) ==
    /\ InLoop /\ conn[s] = "open" /\ ap[s] # "wait" /\ s \in active
    /\ Len(SelectSeq(cbs[s], LAMBDA e : e = "read")) < MaxReads
    /\ \E c \in BOOLEAN : Callback(s, "read", c)
    /\ UNCHANGED <<opened, pending, active, terminal_fired, connected_fired,
                   releasing, freed, pc, todo, due, queueVars, connVars,
                   termVars>>

\* connection_dir_reached_eof: the stream ends, then the connection is marked.
UnlinksNothing(s) == active
Unlinks(s) == active \ {s}
dynhost_stream_handle_eof(s) ==
    /\ InLoop /\ conn[s] = "open"
    /\ conn' = [conn EXCEPT ![s] = "marked"]
    /\ IF s \in active
       THEN active' = Unlinks(s) /\ StartTerminal(s, "closed")
       ELSE UNCHANGED <<active, termVars>>
    /\ UNCHANGED <<pending, terminal_fired, connected_fired, pc, todo, due, cbs,
                   ap, expired, handleVars, queueVars>>

\* Tor marks the connection for a reason of its own: it stalled, or OOM.
ConnFails(s) ==
    /\ InLoop /\ conn[s] = "open"
    /\ conn' = [conn EXCEPT ![s] = "marked"]
    /\ UNCHANGED <<pending, active, terminal_fired, connected_fired, pc, todo,
                   due, cbs, ap, expired, handleVars, queueVars, termVars>>

\* conn_close_if_marked: the connection is freed.
ConnFreed(s) ==
    /\ InLoop /\ conn[s] = "marked"
    /\ conn' = [conn EXCEPT ![s] = "gone"]
    /\ UNCHANGED <<pending, active, terminal_fired, connected_fired, pc, todo,
                   due, cbs, ap, expired, handleVars, queueVars, termVars>>

\* The deadline passes.
Expire(s) ==
    /\ s \in opened \ expired
    /\ expired' = expired \cup {s}
    /\ UNCHANGED <<pending, active, terminal_fired, connected_fired, pc, todo,
                   due, cbs, conn, ap, handleVars, queueVars, termVars>>

-----------------------------------------------------------------------------
(* dynhost_stream_cleanup.  The header says it is "Called during shutdown",*)
(* but nothing in the tree calls it: an application that embeds Tor may,   *)
(* from a callback on Tor's main thread.                                   *)

dynhost_stream_cleanup ==
    /\ CallsCleanup /\ InLoop
    /\ pc' = "cleanup" /\ todo' = pending /\ pending' = {}
    /\ UNCHANGED <<active, terminal_fired, connected_fired, due, cbs,
                   handleVars, queueVars, connVars, termVars>>

CleanupPending(s) ==
    /\ pc = "cleanup" /\ stage = "none" /\ s \in todo
    /\ todo' = todo \ {s}
    /\ StartTerminal(s, "closed")
    /\ UNCHANGED <<pending, active, terminal_fired, connected_fired, pc, due,
                   cbs, handleVars, queueVars, connVars>>

CleanupActive(s) ==
    /\ pc = "cleanup" /\ stage = "none" /\ todo = {} /\ s \in active
    /\ active' = active \ {s}
    /\ conn' = [conn EXCEPT ![s] = Mark(@)]
    /\ StartTerminal(s, "closed")
    /\ UNCHANGED <<pending, terminal_fired, connected_fired, pc, todo, due, cbs,
                   ap, expired, handleVars, queueVars>>

CleanupDone ==
    /\ pc = "cleanup" /\ stage = "none" /\ todo = {} /\ active = {}
    /\ pc' = "loop"
    /\ UNCHANGED <<pending, active, terminal_fired, connected_fired, todo, due,
                   cbs, handleVars, queueVars, connVars, termVars>>

\* subsys_dynhost_shutdown: Tor's event loop has ended.  The handlers it
\* cleans up are those of the hidden service; it does not know of streams.
Shutdown ==
    /\ InLoop
    /\ pc' = "stopped"
    /\ UNCHANGED <<pending, active, terminal_fired, connected_fired, todo, due,
                   cbs, handleVars, queueVars, connVars, termVars>>

-----------------------------------------------------------------------------
Terminating == TerminalUnderLock \/ TerminalCallback \/ TerminalFree

Ticking ==
    \/ Tick \/ StartCheck \/ EndTick
    \/ \E s \in Streams : OpenFails(s) \/ initiate_stream(s) \/ CheckOne(s)

Cleaning ==
    \/ CleanupDone
    \/ \E s \in Streams : CleanupPending(s) \/ CleanupActive(s)

Next ==
    \/ Terminating \/ Ticking \/ dynhost_stream_cleanup \/ Cleaning \/ Shutdown
    \/ \E s \in Streams :
         \/ dynhost_stream_open(s) \/ dynhost_stream_write(s)
         \/ dynhost_stream_close(s) \/ ReleaseHandle(s)
         \/ ApOpens(s) \/ ApCloses(s) \/ dynhost_stream_deliver_inbuf(s)
         \/ dynhost_stream_handle_eof(s)
         \/ ConnFails(s) \/ ConnFreed(s) \/ Expire(s)

Spec == Init /\ [][Next]_vars

\* Tor's main thread keeps running (the tick is a periodic event of a loop
\* that finishes each callback), deadlines pass, and a call of
\* dynhost_stream_close returns.  Nothing is assumed of the network or of
\* what the application chooses to do.
Fairness ==
    /\ WF_vars(Terminating) /\ WF_vars(Ticking) /\ WF_vars(Cleaning)
    /\ \A s \in Streams : WF_vars(ReleaseHandle(s)) /\ WF_vars(Expire(s))

FairSpec == Spec /\ Fairness

-----------------------------------------------------------------------------
(* Safety. *)

\* Every variable has the type of the field it stands for.
TypeOK ==
    /\ opened \subseteq Streams /\ pending \subseteq Streams
    /\ active \subseteq Streams /\ close_called \subseteq Streams
    /\ terminal_fired \subseteq Streams /\ connected_fired \subseteq Streams
    /\ releasing \subseteq Streams /\ freed \subseteq Streams
    /\ accepted \in [Streams -> Nat] /\ queued \in [Streams -> Nat]
    /\ flushed \in [Streams -> Nat]
    /\ expired \subseteq Streams /\ ap \in [Streams -> {"wait", "open", "marked"}]
    /\ conn \in [Streams -> {"none", "open", "marked", "gone"}]
    /\ pc \in {"loop", "open", "check", "cleanup", "stopped"}
    /\ todo \subseteq Streams /\ due \subseteq Streams
    /\ stage \in {"none", "lock", "call", "free"}
    /\ victim \in (IF stage = "none" THEN {NoStream} ELSE Streams)
    /\ event \in Terminal
    /\ free_now \in BOOLEAN
    /\ cbs \in [Streams -> Seq(Events)]

\* "The handle is ... released ONLY by dynhost_stream_close()": no handle on
\* a list of the module is freed, nor the handle stream_terminal_detached is
\* about to lock, and a freed handle was closed and had ended.
ListedHandlesLive ==
    /\ (pending \cup active \cup todo) \cap freed = {}
    /\ stage = "lock" => victim \notin freed
    /\ freed \subseteq close_called \cap terminal_fired

\* Of the two parties that may free a handle only one does, and once: neither
\* finds it freed by the other.
FreedOnce ==
    /\ releasing \cap freed = {}
    /\ stage = "free" /\ FreesHandle => victim \notin freed \cup releasing

\* "Exactly one terminal event fires per stream.  After it fires, no further
\* callbacks occur", and OPEN is the first callback that is not terminal.
CallbackOrder ==
    \A s \in Streams : \A i \in 1..Len(cbs[s]) :
       /\ cbs[s][i] \in Terminal => i = Len(cbs[s])
       /\ cbs[s][i] = "open" => i = 1
       /\ cbs[s][i] \in {"connected", "read"} => i > 1 /\ cbs[s][1] = "open"

\* No accepted chunk is lost or sent twice while the stream lives, and the
\* queue never holds more than its cap.
WritesKept ==
    \A s \in Streams :
       /\ queued[s] <= MaxQueue
       /\ s \notin terminal_fired => accepted[s] = flushed[s] + queued[s]
       /\ s \in terminal_fired => flushed[s] <= accepted[s] /\ queued[s] = 0

\* A handle that is closed and has ended, and is not being freed, is freed:
\* nobody forgets it.
NoLeak ==
    \A s \in (close_called \cap terminal_fired) \ freed :
       s \in releasing \/ (stage \in {"call", "free"} /\ victim = s)

\* Tor's main thread never reads a freed handle: stream_terminal_detached
\* "may legally" be raced by a close, "so afterwards we must consult only the
\* local free_now, never the handle" - also when it reads s->event_cb.
NoUseAfterFree ==
    /\ ListedHandlesLive
    /\ stage = "call" => victim \notin freed

-----------------------------------------------------------------------------
(* The inductive invariant. *)

\* Where the module may still hold s.
Held(s) == s \in pending \cup active \cup todo \/ (stage = "lock" /\ victim = s)

\* A terminal callback has been made for s.
Ended(s) == \E i \in 1..Len(cbs[s]) : cbs[s][i] \in Terminal

HandleInv ==
    /\ pending \cup active \cup todo \subseteq opened
    /\ pending \cap active = {} /\ pending \cap todo = {}
    /\ pc \in {"open", "cleanup"} => todo \cap active = {}
    /\ pc = "check" => todo \subseteq active
    /\ pc \in {"loop", "stopped"} => todo = {}
    /\ close_called \subseteq opened /\ terminal_fired \subseteq opened
    /\ \A s \in Streams : Held(s) => s \notin terminal_fired
    /\ stage # "none" => victim \in opened
    /\ stage = "lock" => victim \notin pending \cup active \cup todo
    /\ stage \in {"call", "free"} => victim \in terminal_fired
    /\ releasing \cup freed \subseteq close_called \cap terminal_fired
    /\ releasing \cap freed = {}
    /\ stage \in {"call", "free"} =>
         (free_now <=> victim \in close_called \ (freed \cup releasing))
    /\ stage \in {"none", "lock"} => ~free_now

CallbackInv ==
    /\ \A s \in Streams : Ended(s) => s \in terminal_fired
    /\ stage = "call" => ~Ended(victim)
    /\ \A s \in Streams \ opened : cbs[s] = <<>>
    /\ \A s \in pending : cbs[s] = <<>>
    /\ pc \in {"open", "cleanup"} => \A s \in todo : cbs[s] = <<>>
    /\ \A s \in active : cbs[s] # <<>> /\ cbs[s][1] = "open"

\* Who holds each handle, what its callbacks were so far and where its chunks
\* are agree with where the main thread is in its loops.
IndInv ==
    TypeOK /\ HandleInv /\ NoLeak /\ CallbackInv /\ CallbackOrder /\ WritesKept

-----------------------------------------------------------------------------
(* Liveness. *)

\* "Exactly one terminal event ... fires per stream": every stream that is
\* opened gets its terminal event, unless Tor shuts down before that.
EveryStreamEnds ==
    \A s \in Streams : s \in opened ~> Ended(s) \/ pc = "stopped"

\* "Close all streams, fire CLOSED for each ... Called during shutdown": a
\* stream opened while Tor runs gets its terminal event even so.
EndsAtShutdown ==
    \A s \in Streams : s \in opened /\ pc # "stopped" ~> Ended(s)

=============================================================================
