-------------------------- MODULE DynhostStream_proofs --------------------------
(***************************************************************************)
(* The lifetime of dynhost_stream handles, for any set of streams: the     *)
(* invariant says where the module may still hold a handle, that it has    *)
(* then not ended, and which of the two owners of a handle that is closed  *)
(* and has ended frees it.                                                 *)
(***************************************************************************)
EXTENDS DynhostStream, SequenceTheorems, TLAPS

USE StreamsAssumption, ZenonT(2), SMT, SMTT(30), Zenon

\* Every step keeps the types.
LEMMA TypeStep == TypeOK /\ [Next]_vars => TypeOK'
<1> SUFFICES ASSUME TypeOK, [Next]_vars PROVE TypeOK'
    OBVIOUS
<1> USE DEF TypeOK, handleVars, queueVars, connVars, termVars
<1>c. ASSUME NEW s \in Streams, NEW e \in Events, NEW c \in BOOLEAN,
             Callback(s, e, c)
      PROVE  cbs' \in [Streams -> Seq(Events)] /\ close_called' \subseteq Streams
    BY <1>c DEF Callback
<1>e. /\ Terminal \subseteq Events /\ "closed" \in Terminal /\ "timeout" \in Terminal
      /\ "open" \in Events /\ "connected" \in Events /\ "read" \in Events
    BY DEF Terminal, Events
<1>1. CASE Terminating
  <2>1. CASE TerminalUnderLock
      BY <2>1 DEF TerminalUnderLock, ClosedBefore
  <2>2. CASE TerminalCallback
      BY <2>2, <1>c, <1>e DEF TerminalCallback
  <2>3. CASE TerminalFree
      BY <2>3 DEF TerminalFree, FreesHandle
  <2> QED
      BY <1>1, <2>1, <2>2, <2>3 DEF Terminating
<1>2. CASE Ticking
  <2>1. CASE Tick \/ StartCheck \/ EndTick
      BY <2>1 DEF Tick, StartCheck, EndTick
  <2>2. ASSUME NEW s \in Streams, OpenFails(s) PROVE TypeOK'
      BY <2>2, <1>e DEF OpenFails, StartTerminal
  <2>3. ASSUME NEW s \in Streams, initiate_stream(s) PROVE TypeOK'
      BY <2>3, <1>c, <1>e DEF initiate_stream
  <2>4. ASSUME NEW s \in Streams, CheckOne(s) PROVE TypeOK'
    <3> USE DEF CheckOne, CheckEnds, StartTerminal
    <3>1. CASE ConnGone(s) \/ ConnMarked(s)
        BY <2>4, <3>1, <1>e DEF ConnGone, ConnMarked
    <3>2. CASE CloseRequested(s)
        BY <2>4, <3>2, <1>e DEF CloseRequested, Mark
    <3>3. CASE TimedOut(s)
        BY <2>4, <3>3, <1>e DEF TimedOut, Mark
    <3>4. CASE Live(s)
      <4>1. cbs' \in [Streams -> Seq(Events)] /\ close_called' \subseteq Streams
            /\ connected_fired' \subseteq Streams
          BY <3>4, <1>c, <1>e DEF Live
      <4>2. flushed' \in [Streams -> Nat] /\ queued' \in [Streams -> Nat]
            /\ accepted' = accepted
          BY <3>4 DEF Live, flush_pending_writes
      <4> QED
          BY <2>4, <3>4, <4>1, <4>2 DEF Live
    <3> QED
        BY <2>4, <3>1, <3>2, <3>3, <3>4
  <2> QED
      BY <1>2, <2>1, <2>2, <2>3, <2>4 DEF Ticking
<1>3. CASE Cleaning
  <2>1. CASE CleanupDone
      BY <2>1 DEF CleanupDone
  <2>2. ASSUME NEW s \in Streams, CleanupPending(s) PROVE TypeOK'
      BY <2>2, <1>e DEF CleanupPending, StartTerminal
  <2>3. ASSUME NEW s \in Streams, CleanupActive(s) PROVE TypeOK'
      BY <2>3, <1>e DEF CleanupActive, StartTerminal, Mark
  <2> QED
      BY <1>3, <2>1, <2>2, <2>3 DEF Cleaning
<1>4. CASE dynhost_stream_cleanup \/ Shutdown
    BY <1>4 DEF dynhost_stream_cleanup, Shutdown
<1>5. ASSUME NEW s \in Streams, dynhost_stream_open(s) PROVE TypeOK'
    BY <1>5 DEF dynhost_stream_open
<1>6. ASSUME NEW s \in Streams, dynhost_stream_write(s) PROVE TypeOK'
    BY <1>6 DEF dynhost_stream_write
<1>7. ASSUME NEW s \in Streams, dynhost_stream_close(s) \/ ReleaseHandle(s)
      PROVE  TypeOK'
    BY <1>7 DEF dynhost_stream_close, ReleaseHandle
<1>8. ASSUME NEW s \in Streams, ApOpens(s) \/ ApCloses(s) \/ ConnFails(s)
                                  \/ ConnFreed(s) \/ Expire(s)
      PROVE  TypeOK'
    BY <1>8 DEF ApOpens, ApCloses, ConnFails, ConnFreed, Expire
<1>9. ASSUME NEW s \in Streams, dynhost_stream_deliver_inbuf(s) PROVE TypeOK'
    BY <1>9, <1>c, <1>e DEF dynhost_stream_deliver_inbuf
<1>10. ASSUME NEW s \in Streams, dynhost_stream_handle_eof(s) PROVE TypeOK'
    BY <1>10, <1>e DEF dynhost_stream_handle_eof, StartTerminal, Unlinks
<1>11. CASE UNCHANGED vars
    BY <1>11 DEF vars
<1> QED
    BY <1>1, <1>2, <1>3, <1>4, <1>5, <1>6, <1>7, <1>8, <1>9, <1>10, <1>11
    DEF Next

-----------------------------------------------------------------------------
(* Handles. *)

Owned == HandleInv /\ NoLeak

\* Every step keeps track of who holds a handle and who will free it.
LEMMA HandleStep == TypeOK /\ Owned /\ [Next]_vars => Owned'
<1> SUFFICES ASSUME TypeOK, Owned, [Next]_vars PROVE Owned'
    OBVIOUS
<1>t. TypeOK'
    BY TypeStep
<1> USE DEF TypeOK, Owned, HandleInv, NoLeak, Held, handleVars, queueVars,
            connVars, termVars
<1>1. CASE Terminating
  <2>1. CASE TerminalUnderLock
      BY <2>1 DEF TerminalUnderLock, ClosedBefore
  <2>2. CASE TerminalCallback
      BY <2>2 DEF TerminalCallback, Callback
  <2>3. CASE TerminalFree
      BY <2>3 DEF TerminalFree, FreesHandle
  <2> QED
      BY <1>1, <2>1, <2>2, <2>3 DEF Terminating
<1>2. CASE Ticking
  <2>1. CASE Tick
      BY <2>1 DEF Tick
  <2>2. CASE StartCheck \/ EndTick
      BY <2>2 DEF StartCheck, EndTick
  <2>3. ASSUME NEW s \in Streams, OpenFails(s) PROVE Owned'
      BY <2>3 DEF OpenFails, StartTerminal
  <2>4. ASSUME NEW s \in Streams, initiate_stream(s) PROVE Owned'
      BY <2>4 DEF initiate_stream, Callback
  <2>5. ASSUME NEW s \in Streams, CheckOne(s) PROVE Owned'
    <3>0. s \in todo /\ pc = "check" /\ stage = "none" /\ todo' = todo \ {s}
        BY <2>5 DEF CheckOne
    <3>1. ASSUME NEW e, CheckEnds(s, e) PROVE Owned'
        BY <3>0, <3>1 DEF CheckEnds, StartTerminal
    <3>2. CASE Live(s)
        BY <3>0, <3>2 DEF Live, Callback
    <3> QED
        BY <2>5, <3>1, <3>2
        DEF CheckOne, ConnGone, CloseRequested, TimedOut, ConnMarked
  <2> QED
      BY <1>2, <2>1, <2>2, <2>3, <2>4, <2>5 DEF Ticking
<1>3. CASE Cleaning
  <2>1. CASE CleanupDone
      BY <2>1 DEF CleanupDone
  <2>2. ASSUME NEW s \in Streams, CleanupPending(s) PROVE Owned'
      BY <2>2 DEF CleanupPending, StartTerminal
  <2>3. ASSUME NEW s \in Streams, CleanupActive(s) PROVE Owned'
      BY <2>3 DEF CleanupActive, StartTerminal
  <2> QED
      BY <1>3, <2>1, <2>2, <2>3 DEF Cleaning
<1>4. CASE dynhost_stream_cleanup \/ Shutdown
    BY <1>4 DEF dynhost_stream_cleanup, Shutdown, InLoop
<1>5. ASSUME NEW s \in Streams, dynhost_stream_open(s) PROVE Owned'
    BY <1>5 DEF dynhost_stream_open
<1>6. ASSUME NEW s \in Streams, dynhost_stream_write(s) PROVE Owned'
    BY <1>6 DEF dynhost_stream_write
<1>7. ASSUME NEW s \in Streams, dynhost_stream_close(s) PROVE Owned'
    BY <1>7 DEF dynhost_stream_close
<1>8. ASSUME NEW s \in Streams, ReleaseHandle(s) PROVE Owned'
    BY <1>8 DEF ReleaseHandle
<1>9. ASSUME NEW s \in Streams, ApOpens(s) \/ ApCloses(s) \/ ConnFails(s)
                                  \/ ConnFreed(s) \/ Expire(s)
      PROVE  Owned'
  <2>1. UNCHANGED <<pending, active, terminal_fired, pc, todo, handleVars,
                    termVars>>
      BY <1>9 DEF ApOpens, ApCloses, ConnFails, ConnFreed, Expire
  <2> QED
      BY <2>1
<1>10. ASSUME NEW s \in Streams, dynhost_stream_deliver_inbuf(s) PROVE Owned'
    BY <1>10 DEF dynhost_stream_deliver_inbuf, Callback, InLoop
<1>11. ASSUME NEW s \in Streams, dynhost_stream_handle_eof(s) PROVE Owned'
    BY <1>11 DEF dynhost_stream_handle_eof, StartTerminal, Unlinks, InLoop
<1>12. CASE UNCHANGED vars
    BY <1>12 DEF vars
<1> QED
    BY <1>1, <1>2, <1>3, <1>4, <1>5, <1>6, <1>7, <1>8, <1>9, <1>10, <1>11,
       <1>12
    DEF Next

-----------------------------------------------------------------------------
(* Callbacks. *)

Told == CallbackInv /\ CallbackOrder

\* A callback in its place keeps the order of callbacks.
LEMMA OneMoreCallback ==
    ASSUME TypeOK, CallbackOrder, NEW s \in Streams, NEW e \in Events,
           ~Ended(s),
           cbs' = [cbs EXCEPT ![s] = Append(@, e)],
           e = "open" => cbs[s] = <<>>,
           e \in {"connected", "read"} => cbs[s] # <<>> /\ cbs[s][1] = "open"
    PROVE  /\ CallbackOrder'
           /\ Ended(s)' <=> e \in Terminal
           /\ \A x \in Streams \ {s} : cbs'[x] = cbs[x] /\ (Ended(x)' <=> Ended(x))
           /\ cbs'[s] # <<>>
           /\ cbs'[s][1] = IF cbs[s] = <<>> THEN e ELSE cbs[s][1]
<1> DEFINE q == cbs[s]
           r == Append(q, e)
<1>1. q \in Seq(Events) /\ Len(q) \in Nat
    BY DEF TypeOK
<1>2. cbs'[s] = r /\ \A x \in Streams \ {s} : cbs'[x] = cbs[x]
    BY DEF TypeOK
<1>3. /\ Len(r) = Len(q) + 1 /\ r[Len(r)] = e
      /\ \A i \in 1..Len(q) : r[i] = q[i]
      /\ r # <<>>
    BY <1>1, AppendProperties
<1>4. \A i \in 1..Len(q) : q[i] \notin Terminal
    BY DEF Ended
<1>5. q = <<>> <=> Len(q) = 0
    BY <1>1, EmptySeq
<1>6. r[1] = IF q = <<>> THEN e ELSE q[1]
    BY <1>1, <1>3, <1>5
<1>7. \A i \in 1..Len(r) : i = Len(r) \/ i \in 1..Len(q)
    BY <1>1, <1>3
<1>8. CallbackOrder'
  <2> SUFFICES ASSUME NEW x \in Streams, NEW i \in 1..Len(cbs'[x])
               PROVE  /\ cbs'[x][i] \in Terminal => i = Len(cbs'[x])
                      /\ cbs'[x][i] = "open" => i = 1
                      /\ cbs'[x][i] \in {"connected", "read"} =>
                           i > 1 /\ cbs'[x][1] = "open"
      BY DEF CallbackOrder
  <2>1. CASE x # s
      BY <2>1, <1>2 DEF CallbackOrder
  <2>2. CASE x = s /\ i = Len(r)
      BY <2>2, <1>1, <1>2, <1>3, <1>5, <1>6
  <2>3. CASE x = s /\ i \in 1..Len(q)
    <3>1. cbs'[x][i] = q[i] /\ q[i] \notin Terminal
        BY <2>3, <1>2, <1>3, <1>4
    <3>2. q # <<>>
        BY <2>3, <1>1, <1>5
    <3>3. /\ q[i] = "open" => i = 1
          /\ q[i] \in {"connected", "read"} => i > 1 /\ q[1] = "open"
        BY <2>3 DEF CallbackOrder
    <3>4. cbs'[x][1] = q[1]
        BY <2>3, <3>2, <1>2, <1>6
    <3> QED
        BY <3>1, <3>3, <3>4
  <2> QED
      BY <2>1, <2>2, <2>3, <1>2, <1>7
<1>9. Ended(s)' <=> e \in Terminal
    BY <1>1, <1>2, <1>3, <1>4, <1>7 DEF Ended
<1>10. \A x \in Streams \ {s} : Ended(x)' <=> Ended(x)
    BY <1>2 DEF Ended
<1> QED
    BY <1>2, <1>3, <1>6, <1>8, <1>9, <1>10

\* A step that makes no callback keeps what holds of the callbacks.
LEMMA NoCallback ==
    ASSUME CallbackOrder, cbs' = cbs
    PROVE  CallbackOrder' /\ \A x \in Streams : Ended(x)' <=> Ended(x)
  BY DEF CallbackOrder, Ended

\* Every step keeps the order of callbacks.
LEMMA CallbackStep ==
    TypeOK /\ Owned /\ Told /\ [Next]_vars => Told'
<1> SUFFICES ASSUME TypeOK, Owned, Told, [Next]_vars PROVE Told'
    OBVIOUS
<1>t. TypeOK' /\ Owned'
    BY TypeStep, HandleStep
<1>e. /\ Terminal \subseteq Events /\ "open" \in Events \ Terminal
      /\ "connected" \in Events \ Terminal /\ "read" \in Events \ Terminal
    BY DEF Terminal, Events
<1>a. ASSUME NEW s \in active PROVE s \in Streams /\ ~Ended(s)
    BY <1>a DEF TypeOK, Owned, HandleInv, Held, Told, CallbackInv
\* A callback that is not terminal, for a stream on the active list.
<1>b. ASSUME NEW s \in active, NEW e \in {"connected", "read"},
             cbs' = [cbs EXCEPT ![s] = Append(@, e)],
             UNCHANGED <<opened, pending, active, terminal_fired, pc, stage,
                         victim>>,
             todo' \subseteq todo, stage = "none"
      PROVE  Told'
  <2>1. s \in Streams /\ ~Ended(s) /\ e \in Events \ Terminal
        /\ cbs[s] # <<>> /\ cbs[s][1] = "open"
      BY <1>a, <1>e DEF Told, CallbackInv
  <2>2. /\ CallbackOrder' /\ ~Ended(s)'
        /\ \A x \in Streams \ {s} : cbs'[x] = cbs[x] /\ (Ended(x)' <=> Ended(x))
        /\ cbs'[s] # <<>> /\ cbs'[s][1] = "open"
      BY <1>b, <2>1, OneMoreCallback DEF Told
  <2>3. s \in opened /\ s \notin pending
        /\ (pc \in {"open", "cleanup"} => s \notin todo)
      BY DEF Owned, HandleInv
  <2> QED
      BY <1>b, <2>1, <2>2, <2>3 DEF Told, CallbackInv, TypeOK
\* A step without a callback.
<1>c. ASSUME cbs' = cbs, terminal_fired' = terminal_fired,
             opened \subseteq opened', active' \subseteq active,
             pending' \subseteq pending, stage' # "call",
             pc' \in {"open", "cleanup"} =>
               todo' \subseteq pending \cup
                            (IF pc \in {"open", "cleanup"} THEN todo ELSE {})
      PROVE  Told'
  <2>1. CallbackOrder' /\ \A x \in Streams : Ended(x)' <=> Ended(x)
      BY <1>c, NoCallback DEF Told
  <2> QED
      BY <1>c, <2>1 DEF Told, CallbackInv
<1> USE DEF handleVars, queueVars, connVars, termVars
<1>1. CASE Terminating
  <2>1. CASE TerminalUnderLock
    <3>1. CallbackOrder' /\ \A x \in Streams : Ended(x)' <=> Ended(x)
        BY <2>1, NoCallback DEF Told, TerminalUnderLock
    <3>2. victim \in Streams /\ ~Ended(victim)
        BY <2>1 DEF TerminalUnderLock, TypeOK, Owned, HandleInv, Held, Told,
                    CallbackInv
    <3> QED
        BY <2>1, <3>1, <3>2 DEF TerminalUnderLock, Told, CallbackInv
  <2>2. CASE TerminalCallback
    <3>1. victim \in Streams /\ ~Ended(victim) /\ event \in Terminal
          /\ event \in Events
        BY <2>2, <1>e DEF TerminalCallback, TypeOK, Told, CallbackInv
    <3>2. cbs' = [cbs EXCEPT ![victim] = Append(@, event)]
        BY <2>2 DEF TerminalCallback, Callback
    <3>3. event # "open" /\ event \notin {"connected", "read"}
        BY <3>1, <1>e
    <3>4. /\ CallbackOrder'
          /\ \A x \in Streams \ {victim} :
               cbs'[x] = cbs[x] /\ (Ended(x)' <=> Ended(x))
        BY <3>1, <3>2, <3>3, OneMoreCallback DEF Told
    <3>5. victim \in terminal_fired /\ victim \in opened
          /\ victim \notin pending \cup active \cup todo
        BY <2>2 DEF TerminalCallback, Owned, HandleInv, Held, TypeOK
    <3>6. UNCHANGED <<opened, pending, active, terminal_fired, pc, todo>>
          /\ stage' = "free"
        BY <2>2 DEF TerminalCallback
    <3> QED
        BY <3>1, <3>4, <3>5, <3>6 DEF Told, CallbackInv, TypeOK
  <2>3. CASE TerminalFree
      BY <2>3, <1>c DEF TerminalFree
  <2> QED
      BY <1>1, <2>1, <2>2, <2>3 DEF Terminating
<1>2. CASE Ticking
  <2>1. CASE Tick
      BY <2>1, <1>c DEF Tick
  <2>2. CASE StartCheck \/ EndTick
      BY <2>2, <1>c DEF StartCheck, EndTick
  <2>3. ASSUME NEW s \in Streams, OpenFails(s) PROVE Told'
      BY <2>3, <1>c DEF OpenFails, StartTerminal
  <2>4. ASSUME NEW s \in Streams, initiate_stream(s) PROVE Told'
    <3>1. s \in todo /\ pc = "open" /\ cbs[s] = <<>> /\ ~Ended(s)
        BY <2>4 DEF initiate_stream, Told, CallbackInv, Ended
    <3>2. cbs' = [cbs EXCEPT ![s] = Append(@, "open")]
        BY <2>4 DEF initiate_stream, Callback
    <3>3. /\ CallbackOrder' /\ ~Ended(s)'
          /\ \A x \in Streams \ {s} : cbs'[x] = cbs[x] /\ (Ended(x)' <=> Ended(x))
          /\ cbs'[s] # <<>> /\ cbs'[s][1] = "open"
        BY <3>1, <3>2, <1>e, OneMoreCallback DEF Told
    <3>4. s \in opened /\ s \notin pending
        BY <3>1 DEF Owned, HandleInv
    <3>5. /\ UNCHANGED <<opened, pending, terminal_fired, pc, stage>>
          /\ todo' = todo \ {s} /\ active' = active \cup {s} /\ stage = "none"
        BY <2>4 DEF initiate_stream
    <3> QED
        BY <3>1, <3>3, <3>4, <3>5 DEF Told, CallbackInv, TypeOK
  <2>5. ASSUME NEW s \in Streams, CheckOne(s) PROVE Told'
    <3>0. s \in todo /\ pc = "check" /\ stage = "none" /\ todo' = todo \ {s}
        BY <2>5 DEF CheckOne
    <3>1. ASSUME NEW e, CheckEnds(s, e) PROVE Told'
        BY <3>0, <3>1, <1>c DEF CheckEnds, StartTerminal
    <3>2. CASE Live(s)
      <4>1. UNCHANGED <<opened, pending, active, terminal_fired, pc, stage, victim>>
          BY <3>2 DEF Live
      <4>2. s \in active
          BY <3>0 DEF Owned, HandleInv
      <4>3. \/ cbs' = cbs
            \/ cbs' = [cbs EXCEPT ![s] = Append(@, "connected")]
          BY <3>2 DEF Live, Callback
      <4> QED
          BY <3>0, <4>1, <4>2, <4>3, <1>b, <1>c
    <3> QED
        BY <2>5, <3>1, <3>2
        DEF CheckOne, ConnGone, CloseRequested, TimedOut, ConnMarked
  <2> QED
      BY <1>2, <2>1, <2>2, <2>3, <2>4, <2>5 DEF Ticking
<1>3. CASE Cleaning
  <2>1. CASE CleanupDone
      BY <2>1, <1>c DEF CleanupDone
  <2>2. ASSUME NEW s \in Streams, CleanupPending(s) PROVE Told'
      BY <2>2, <1>c DEF CleanupPending, StartTerminal
  <2>3. ASSUME NEW s \in Streams, CleanupActive(s) PROVE Told'
      BY <2>3, <1>c DEF CleanupActive, StartTerminal
  <2> QED
      BY <1>3, <2>1, <2>2, <2>3 DEF Cleaning
<1>4. CASE dynhost_stream_cleanup \/ Shutdown
    BY <1>4, <1>c DEF dynhost_stream_cleanup, Shutdown, InLoop
<1>5. ASSUME NEW s \in Streams, dynhost_stream_open(s) PROVE Told'
  <2>1. CallbackOrder' /\ \A x \in Streams : Ended(x)' <=> Ended(x)
      BY <1>5, NoCallback DEF Told, dynhost_stream_open
  <2>2. cbs[s] = <<>>
      BY <1>5 DEF Told, CallbackInv, dynhost_stream_open
  <2>3. /\ opened' = opened \cup {s} /\ pending' = pending \cup {s}
        /\ UNCHANGED <<active, terminal_fired, pc, todo, stage, victim, cbs>>
      BY <1>5 DEF dynhost_stream_open
  <2>4. (stage = "call" => ~Ended(victim))'
      BY <2>1, <2>3 DEF Told, CallbackInv, TypeOK
  <2> QED
      BY <2>1, <2>2, <2>3, <2>4 DEF Told, CallbackInv
<1>6. ASSUME NEW s \in Streams,
             dynhost_stream_write(s) \/ dynhost_stream_close(s)
               \/ ReleaseHandle(s) \/ ApOpens(s) \/ ApCloses(s) \/ ConnFails(s)
               \/ ConnFreed(s) \/ Expire(s)
      PROVE  Told'
  <2>1. UNCHANGED <<opened, pending, active, terminal_fired, pc, todo, stage,
                    victim, cbs>>
      BY <1>6 DEF dynhost_stream_write, dynhost_stream_close, ReleaseHandle,
                  ApOpens, ApCloses, ConnFails, ConnFreed, Expire
  <2>2. CallbackOrder' /\ \A x \in Streams : Ended(x)' <=> Ended(x)
      BY <2>1, NoCallback DEF Told
  <2> QED
      BY <2>1, <2>2 DEF Told, CallbackInv, Ended
<1>7. ASSUME NEW s \in Streams, dynhost_stream_deliver_inbuf(s) PROVE Told'
  <2>1. /\ UNCHANGED <<opened, pending, active, terminal_fired, pc, stage,
                       victim, todo>>
        /\ stage = "none" /\ s \in active
        /\ cbs' = [cbs EXCEPT ![s] = Append(@, "read")]
      BY <1>7 DEF dynhost_stream_deliver_inbuf, Callback, InLoop
  <2> QED
      BY <2>1, <1>b
<1>8. ASSUME NEW s \in Streams, dynhost_stream_handle_eof(s) PROVE Told'
    BY <1>8, <1>c DEF dynhost_stream_handle_eof, StartTerminal, Unlinks, InLoop
<1>9. CASE UNCHANGED vars
  <2>1. UNCHANGED <<opened, pending, active, terminal_fired, pc, todo, stage,
                    victim, cbs>>
      BY <1>9 DEF vars
  <2>2. CallbackOrder' /\ \A x \in Streams : Ended(x)' <=> Ended(x)
      BY <2>1, NoCallback DEF Told
  <2> QED
      BY <2>1, <2>2 DEF Told, CallbackInv, Ended
<1> QED
    BY <1>1, <1>2, <1>3, <1>4, <1>5, <1>6, <1>7, <1>8, <1>9 DEF Next

-----------------------------------------------------------------------------
(* The write queue. *)

Kept(s) ==
    /\ queued[s] <= MaxQueue
    /\ s \notin terminal_fired => accepted[s] = flushed[s] + queued[s]
    /\ s \in terminal_fired => flushed[s] <= accepted[s] /\ queued[s] = 0

\* Every step keeps the account of the chunks the embedder has written.
LEMMA WritesStep == TypeOK /\ Owned /\ WritesKept /\ [Next]_vars => WritesKept'
<1> SUFFICES ASSUME TypeOK, Owned, WritesKept, [Next]_vars PROVE WritesKept'
    OBVIOUS
<1> USE DEF handleVars, queueVars, connVars, termVars
<1>x. /\ \A x \in Streams : Kept(x)
      /\ (\A x \in Streams : Kept(x)') => WritesKept'
    BY DEF WritesKept, Kept
\* A step that leaves the queues and terminal_fired alone.
<1>c. ASSUME UNCHANGED <<accepted, queued, flushed, terminal_fired>>
      PROVE  WritesKept'
    BY <1>c DEF WritesKept
<1>1. CASE Terminating
  <2>1. CASE TerminalUnderLock
    <3>1. /\ victim \in Streams \ terminal_fired
          /\ terminal_fired' = terminal_fired \cup {victim}
          /\ queued' = [queued EXCEPT ![victim] = 0]
          /\ UNCHANGED <<accepted, flushed>>
        BY <2>1 DEF TerminalUnderLock, TypeOK, Owned, HandleInv, Held
    <3> QED
        BY <3>1, <1>x, QueueAssumption DEF Kept, TypeOK
  <2>2. CASE TerminalCallback \/ TerminalFree
      BY <2>2, <1>c DEF TerminalCallback, TerminalFree
  <2> QED
      BY <1>1, <2>1, <2>2 DEF Terminating
<1>2. CASE Ticking
  <2>1. CASE Tick \/ StartCheck \/ EndTick
      BY <2>1, <1>c DEF Tick, StartCheck, EndTick
  <2>2. ASSUME NEW s \in Streams, OpenFails(s) \/ initiate_stream(s)
        PROVE  WritesKept'
      BY <2>2, <1>c DEF OpenFails, initiate_stream
  <2>3. ASSUME NEW s \in Streams, CheckOne(s) PROVE WritesKept'
    <3>1. CASE Live(s)
      <4>1. s \notin terminal_fired
          BY <2>3 DEF CheckOne, Owned, HandleInv, Held
      <4>2. terminal_fired' = terminal_fired
          BY <3>1 DEF Live
      <4>3. \/ UNCHANGED <<accepted, queued, flushed>>
            \/ /\ flushed' = [flushed EXCEPT ![s] = @ + queued[s]]
               /\ queued' = [queued EXCEPT ![s] = 0]
               /\ accepted' = accepted
          BY <3>1 DEF Live, flush_pending_writes
      <4> QED
          BY <4>1, <4>2, <4>3, <1>c, <1>x, QueueAssumption DEF Kept, TypeOK
    <3> QED
        BY <2>3, <3>1, <1>c
        DEF CheckOne, ConnGone, CloseRequested, TimedOut, ConnMarked, CheckEnds
  <2> QED
      BY <1>2, <2>1, <2>2, <2>3 DEF Ticking
<1>3. CASE Cleaning
    BY <1>3, <1>c DEF Cleaning, CleanupDone, CleanupPending, CleanupActive
<1>4. CASE dynhost_stream_cleanup \/ Shutdown
    BY <1>4, <1>c DEF dynhost_stream_cleanup, Shutdown
<1>5. ASSUME NEW s \in Streams, dynhost_stream_write(s) PROVE WritesKept'
  <2>1. /\ queued[s] + 1 <= MaxQueue /\ s \notin terminal_fired
        /\ accepted' = [accepted EXCEPT ![s] = @ + 1]
        /\ queued' = [queued EXCEPT ![s] = @ + 1]
        /\ UNCHANGED <<flushed, terminal_fired>>
      BY <1>5 DEF dynhost_stream_write, RoomToWrite
  <2> QED
      BY <2>1, <1>x, QueueAssumption DEF Kept, TypeOK
<1>6. ASSUME NEW s \in Streams,
             dynhost_stream_open(s) \/ dynhost_stream_close(s)
               \/ ReleaseHandle(s) \/ ApOpens(s) \/ ApCloses(s) \/ ConnFails(s)
               \/ ConnFreed(s) \/ Expire(s)
               \/ dynhost_stream_deliver_inbuf(s) \/ dynhost_stream_handle_eof(s)
      PROVE  WritesKept'
  <2>1. UNCHANGED <<accepted, queued, flushed, terminal_fired>>
      BY <1>6 DEF dynhost_stream_open, dynhost_stream_close, ReleaseHandle,
                  ApOpens, ApCloses, ConnFails, ConnFreed, Expire,
                  dynhost_stream_deliver_inbuf, dynhost_stream_handle_eof
  <2> QED
      BY <2>1, <1>c
<1>7. CASE UNCHANGED vars
    BY <1>7, <1>c DEF vars
<1> QED
    BY <1>1, <1>2, <1>3, <1>4, <1>5, <1>6, <1>7 DEF Next

-----------------------------------------------------------------------------
(* The theorems. *)

\* The inductive invariant of the stream module holds in every state, for
\* any streams, queue cap and numbers of writes and reads, whichever way
\* shutdown goes.
THEOREM Invariance == Spec => []IndInv
<1>1. Init => IndInv
  <2> SUFFICES ASSUME Init PROVE IndInv
      OBVIOUS
  <2>1. TypeOK
    <3>1. free_now \in BOOLEAN
        BY DEF Init
    <3>2. cbs \in [Streams -> Seq(Events)]
        BY DEF Init
    <3>3. event \in Terminal
        BY DEF Init, Terminal
    <3> QED
        BY <3>1, <3>2, <3>3 DEF Init, TypeOK
  <2>2. HandleInv /\ NoLeak
      BY DEF Init, HandleInv, Held, NoLeak
  <2>3. \A s \in Streams : cbs[s] = <<>> /\ Len(cbs[s]) = 0
      BY DEF Init
  <2>4. CallbackInv /\ CallbackOrder
      BY <2>3 DEF Init, CallbackInv, CallbackOrder, Ended
  <2>5. WritesKept
      BY QueueAssumption DEF Init, WritesKept
  <2> QED
      BY <2>1, <2>2, <2>4, <2>5 DEF IndInv
<1>2. IndInv /\ [Next]_vars => IndInv'
    BY TypeStep, HandleStep, CallbackStep, WritesStep DEF IndInv, Owned, Told
<1> QED
    BY <1>1, <1>2, PTL DEF Spec

\* No handle that the module still lists, or is about to end, is freed.
THEOREM ListedHandlesLiveAlways == Spec => []ListedHandlesLive
<1>1. IndInv => ListedHandlesLive
    BY DEF IndInv, HandleInv, Held, ListedHandlesLive, TypeOK
<1> QED
    BY <1>1, Invariance, PTL

\* A handle is freed by the closing thread or by the main thread, never both.
THEOREM FreedOnceAlways == Spec => []FreedOnce
<1>1. IndInv => FreedOnce
    BY DEF IndInv, HandleInv, FreedOnce, FreesHandle, TypeOK
<1> QED
    BY <1>1, Invariance, PTL

\* One terminal callback for each stream, the last; OPEN before CONNECTED and
\* before any data.
THEOREM CallbackOrderAlways == Spec => []CallbackOrder
<1>1. IndInv => CallbackOrder
    BY DEF IndInv
<1> QED
    BY <1>1, Invariance, PTL

\* A handle that is closed and has ended is freed or about to be.
THEOREM NoLeakAlways == Spec => []NoLeak
<1>1. IndInv => NoLeak
    BY DEF IndInv
<1> QED
    BY <1>1, Invariance, PTL

\* No accepted chunk is lost or sent twice before the stream ends, and the
\* queue keeps within its cap.
THEOREM WritesKeptAlways == Spec => []WritesKept
<1>1. IndInv => WritesKept
    BY DEF IndInv
<1> QED
    BY <1>1, Invariance, PTL

=============================================================================
