-------------------------- MODULE DynhostClient_proofs --------------------------
(***************************************************************************)
(* dynhost_client fires the callback of every fetch it accepts at most     *)
(* once and loses no fetch, for any set of fetches: the invariant says on  *)
(* which list a fetch is, that it is on one only, and that it has been     *)
(* called back just when it is on none.                                    *)
(***************************************************************************)
EXTENDS DynhostClient, TLAPS

\* The invariant with what the refinement and SuccessReported need.
FullInv == IndInv /\ SuccessReported

\* A callback for a fetch that has not been called back makes it one call.
LEMMA FirstCall ==
    ASSUME TypeOK, NEW r \in Requests, NEW s \in Statuses,
           calls[r] = <<>>, callback(r, s)
    PROVE  /\ calls' \in [Requests -> Seq(Statuses)]
           /\ calls'[r] = <<s>>
           /\ \A x \in Requests \ {r} : calls'[x] = calls[x]
  BY DEF TypeOK, callback

\* Every step keeps the types.
LEMMA TypeStep == TypeOK /\ [Next]_vars => TypeOK'
<1> SUFFICES ASSUME TypeOK, [Next]_vars PROVE TypeOK'
    OBVIOUS
<1> USE DEF TypeOK, connVars
<1>c. ASSUME NEW r \in Requests, NEW s \in Statuses, callback(r, s)
      PROVE  calls' \in [Requests -> Seq(Statuses)]
    BY <1>c DEF callback
<1>s. /\ "-1" \in Statuses
      /\ \A r \in Requests : Leftover(r) \in Statuses
    BY DEF Leftover, Statuses, Responses
<1>1. CASE Ticking
  <2>1. CASE Tick \/ StartCheck \/ EndTick
      BY <2>1 DEF Tick, StartCheck, EndTick
  <2>2. ASSUME NEW r \in Requests, initiate_fetch(r) PROVE TypeOK'
      BY <2>2 DEF initiate_fetch
  <2>3. ASSUME NEW r \in Requests, InitiateFails(r) PROVE TypeOK'
      BY <2>3, <1>c, <1>s DEF InitiateFails
  <2>4. ASSUME NEW r \in Requests, CheckOne(r) PROVE TypeOK'
    <3> USE DEF CheckOne, DropFetch
    <3>1. CASE ConnGone(r)
        BY <2>4, <3>1, <1>c, <1>s DEF ConnGone
    <3>2. CASE TimedOut(r)
        BY <2>4, <3>2, <1>c, <1>s DEF TimedOut, Mark
    <3>3. CASE ConnMarked(r)
        BY <2>4, <3>3, <1>c, <1>s DEF ConnMarked
    <3>4. CASE StillWaiting(r)
        BY <2>4, <3>4 DEF StillWaiting
    <3> QED
        BY <2>4, <3>1, <3>2, <3>3, <3>4
  <2> QED
      BY <1>1, <2>1, <2>2, <2>3, <2>4 DEF Ticking
<1>2. CASE Cleaning
  <2>1. CASE CleanupDone
      BY <2>1 DEF CleanupDone
  <2>2. ASSUME NEW r \in Requests, CleanupPending(r) PROVE TypeOK'
      BY <2>2, <1>c, <1>s DEF CleanupPending
  <2>3. ASSUME NEW r \in Requests, CleanupActive(r) PROVE TypeOK'
      BY <2>3, <1>c, <1>s DEF CleanupActive, Mark
  <2> QED
      BY <1>2, <2>1, <2>2, <2>3 DEF Cleaning
<1>3. CASE dynhost_client_cleanup \/ Shutdown
    BY <1>3 DEF dynhost_client_cleanup, Shutdown
<1>4. ASSUME NEW r \in Requests, dynhost_client_fetch_ex(r) PROVE TypeOK'
    BY <1>4 DEF dynhost_client_fetch_ex
<1>5. ASSUME NEW r \in Requests,
             connection_dir_finished_flushing(r) \/ ConnFails(r)
               \/ ConnFreed(r) \/ Expire(r)
      PROVE  TypeOK'
    BY <1>5 DEF connection_dir_finished_flushing, ConnFails, ConnFreed, Expire
<1>6. ASSUME NEW r \in Requests, Arrive(r) PROVE TypeOK'
    BY <1>6 DEF Arrive
<1>7. ASSUME NEW r \in Requests, connection_dir_reached_eof(r) PROVE TypeOK'
  <2>1. "200" \in Statuses
      BY DEF Statuses
  <2>2. calls' \in [Requests -> Seq(Statuses)] /\ active' \subseteq Requests
      BY <1>7, <2>1, <1>c
      DEF connection_dir_reached_eof, dynhost_client_handle_response, DropFetch
  <2> QED
      BY <1>7, <2>2 DEF connection_dir_reached_eof
<1>8. CASE UNCHANGED vars
    BY <1>8 DEF vars
<1> QED
    BY <1>1, <1>2, <1>3, <1>4, <1>5, <1>6, <1>7, <1>8 DEF Next

\* A step that lets go of one fetch on a list and calls it back keeps the
\* invariant: dynhost_client's "double-callback guard".
LEMMA LetGo ==
    ASSUME FullInv, TypeOK', NEW r \in Requests, NEW s \in Statuses,
           callback(r, s), calls[r] = <<>>, r \in queued,
           served' = served \/ (s = "200" /\ served' = served \cup {r}),
           queued' = queued, pending' = pending,
           r \notin pending' \cup active' \cup todo',
           pending \cup active \cup todo
             \subseteq pending' \cup active' \cup todo' \cup {r},
           pending' \cup active' \cup todo' \subseteq pending \cup active \cup todo
    PROVE  (CalledOnce /\ NothingLost /\ SuccessReported)'
<1>1. /\ calls'[r] = <<s>>
      /\ \A x \in Requests \ {r} : calls'[x] = calls[x]
    BY FirstCall DEF FullInv, IndInv
<1>a. Len(<<s>>) = 1 /\ <<s>> # <<>>
    OBVIOUS
<1>2. CalledOnce'
  <2> SUFFICES ASSUME NEW x \in Requests, calls'[x] # <<>>
               PROVE  /\ Len(calls'[x]) = 1
                      /\ x \notin pending' \cup active' \cup todo'
      BY DEF CalledOnce
  <2>1. CASE x = r
      BY <2>1, <1>1, <1>a
  <2>2. CASE x # r
      BY <2>2, <1>1 DEF FullInv, IndInv, CalledOnce
  <2> QED
      BY <2>1, <2>2
<1>3. NothingLost'
  <2> SUFFICES ASSUME NEW x \in queued
               PROVE  x \in pending' \cup active' \cup todo' \/ calls'[x] # <<>>
      BY DEF NothingLost
  <2>0. x \in Requests
      BY DEF FullInv, IndInv, TypeOK
  <2>1. CASE x = r
      BY <2>1, <1>1, <1>a
  <2>2. CASE x # r
      BY <2>0, <2>2, <1>1 DEF FullInv, IndInv, NothingLost
  <2> QED
      BY <2>1, <2>2
<1>4. r \notin served
    BY <1>a DEF FullInv, SuccessReported
<1>5. SuccessReported'
  <2> SUFFICES ASSUME NEW x \in served' PROVE calls'[x] = <<"200">>
      BY DEF SuccessReported
  <2>1. CASE x = r
    <3>1. s = "200"
        BY <2>1, <1>4
    <3> QED
        BY <2>1, <3>1, <1>1
  <2>2. CASE x # r
    <3>1. x \in served /\ x \in Requests
        BY <2>2 DEF FullInv, IndInv, TypeOK
    <3> QED
        BY <2>2, <3>1, <1>1 DEF FullInv, SuccessReported
  <2> QED
      BY <2>1, <2>2
<1> QED
    BY <1>2, <1>3, <1>5

\* Every step keeps the invariant.
LEMMA InvStep == FullInv /\ [Next]_vars => FullInv'
<1> SUFFICES ASSUME FullInv, [Next]_vars PROVE FullInv'
    OBVIOUS
<1>t. TypeOK /\ TypeOK'
    BY TypeStep DEF FullInv, IndInv
<1>u. ASSUME NEW r \in pending \cup active \cup todo
      PROVE  r \in Requests /\ r \in queued /\ calls[r] = <<>>
    BY DEF FullInv, IndInv, TypeOK, FetchInv, CalledOnce
<1>s. /\ "-1" \in Statuses
      /\ \A r \in Requests : Leftover(r) \in Statuses
    BY <1>t DEF Leftover, Statuses, Responses, TypeOK
\* Steps that call nobody back and keep every fetch on its list.
<1>q. ASSUME calls' = calls, served' = served, queued' = queued,
             pending' \cup active' \cup todo' = pending \cup active \cup todo
      PROVE  (CalledOnce /\ NothingLost /\ SuccessReported)'
    BY <1>q DEF FullInv, IndInv, CalledOnce, NothingLost, SuccessReported
<1> USE DEF connVars
<1>1. CASE Ticking
  <2>1. CASE Tick \/ StartCheck \/ EndTick
    <3>1. FetchInv'
        BY <1>1, <2>1 DEF FullInv, IndInv, FetchInv, Tick, StartCheck, EndTick
    <3>2. /\ calls' = calls /\ served' = served /\ queued' = queued
          /\ pending' \cup active' \cup todo' = pending \cup active \cup todo
        BY <2>1 DEF FullInv, IndInv, FetchInv, Tick, StartCheck, EndTick
    <3> QED
        BY <3>1, <3>2, <1>q, <1>t DEF FullInv, IndInv
  <2>2. ASSUME NEW r \in Requests, initiate_fetch(r) PROVE FullInv'
    <3>1. FetchInv'
        BY <2>2 DEF FullInv, IndInv, FetchInv, initiate_fetch
    <3>2. /\ calls' = calls /\ served' = served /\ queued' = queued
          /\ pending' \cup active' \cup todo' = pending \cup active \cup todo
        BY <2>2 DEF FullInv, IndInv, FetchInv, initiate_fetch
    <3> QED
        BY <3>1, <3>2, <1>q, <1>t DEF FullInv, IndInv
  <2>3. ASSUME NEW r \in Requests, InitiateFails(r) PROVE FullInv'
    <3>1. /\ callback(r, "-1") /\ r \in todo /\ pc = "open"
          /\ todo' = todo \ {r}
          /\ UNCHANGED <<queued, pending, active, pc, served>>
        BY <2>3 DEF InitiateFails
    <3>2. r \in queued /\ calls[r] = <<>>
        BY <3>1, <1>u
    <3>3. r \notin pending \cup active
        BY <3>1 DEF FullInv, IndInv, FetchInv
    <3>4. (CalledOnce /\ NothingLost /\ SuccessReported)'
        BY <3>1, <3>2, <3>3, <1>s, <1>t, LetGo
    <3>5. \A x \in Requests : calls'[x] # <<>> => x \in queued
        BY <3>1, <3>2, <1>t DEF callback, FullInv, IndInv, FetchInv, TypeOK
    <3>6. FetchInv'
        BY <3>1, <3>5 DEF FullInv, IndInv, FetchInv
    <3> QED
        BY <3>4, <3>6, <1>t DEF FullInv, IndInv
  <2>4. ASSUME NEW r \in Requests, CheckOne(r) PROVE FullInv'
    <3>0. /\ r \in todo /\ pc = "check" /\ todo' = todo \ {r}
          /\ UNCHANGED <<queued, pending, pc, served>>
        BY <2>4 DEF CheckOne
    <3>1. r \in queued /\ calls[r] = <<>> /\ r \notin pending
        BY <3>0, <1>u DEF FullInv, IndInv, FetchInv
    <3>2. ASSUME NEW s \in Statuses, callback(r, s), DropFetch(r) PROVE FullInv'
      <4>1. active' = active \ {r}
          BY <3>2 DEF DropFetch
      <4>2. (CalledOnce /\ NothingLost /\ SuccessReported)'
          BY <3>0, <3>1, <3>2, <4>1, <1>t, LetGo
      <4>3. \A x \in Requests : calls'[x] # <<>> => x \in queued
          BY <3>1, <3>2, <1>t DEF callback, FullInv, IndInv, FetchInv, TypeOK
      <4>4. FetchInv'
          BY <3>0, <4>1, <4>3 DEF FullInv, IndInv, FetchInv
      <4> QED
          BY <4>2, <4>4, <1>t DEF FullInv, IndInv
    <3>3. CASE ConnGone(r)
        BY <3>2, <3>3, <1>s DEF ConnGone
    <3>4. CASE TimedOut(r)
        BY <3>2, <3>4, <1>s DEF TimedOut
    <3>5. CASE ConnMarked(r)
        BY <3>2, <3>5, <1>s DEF ConnMarked
    <3>6. CASE StillWaiting(r)
      <4>1. calls' = calls /\ active' = active
          BY <3>6 DEF StillWaiting
      <4>2. FetchInv'
          BY <3>0, <4>1 DEF FullInv, IndInv, FetchInv
      <4>3. pending' \cup active' \cup todo' = pending \cup active \cup todo
          BY <3>0, <4>1 DEF FullInv, IndInv, FetchInv
      <4> QED
          BY <3>0, <4>1, <4>2, <4>3, <1>q, <1>t DEF FullInv, IndInv
    <3> QED
        BY <2>4, <3>3, <3>4, <3>5, <3>6 DEF CheckOne
  <2> QED
      BY <1>1, <2>1, <2>2, <2>3, <2>4 DEF Ticking
<1>2. CASE Cleaning
  <2>1. CASE CleanupDone
    <3>1. FetchInv'
        BY <2>1 DEF FullInv, IndInv, FetchInv, CleanupDone
    <3>2. /\ calls' = calls /\ served' = served /\ queued' = queued
          /\ pending' \cup active' \cup todo' = pending \cup active \cup todo
        BY <2>1 DEF CleanupDone
    <3> QED
        BY <3>1, <3>2, <1>q, <1>t DEF FullInv, IndInv
  <2>2. ASSUME NEW r \in Requests, CleanupPending(r) \/ CleanupActive(r)
        PROVE  FullInv'
    <3>1. /\ callback(r, "-1") /\ r \in todo \cup active /\ pc = "cleanup"
          /\ todo' = todo \ {r} /\ active' = active \ {r}
          /\ UNCHANGED <<queued, pending, pc, served>>
        BY <2>2 DEF CleanupPending, CleanupActive, FullInv, IndInv, FetchInv
    <3>2. r \in queued /\ calls[r] = <<>> /\ r \notin pending
        BY <3>1, <1>u DEF FullInv, IndInv, FetchInv
    <3>3. (CalledOnce /\ NothingLost /\ SuccessReported)'
        BY <3>1, <3>2, <1>s, <1>t, LetGo
    <3>4. \A x \in Requests : calls'[x] # <<>> => x \in queued
        BY <3>1, <3>2, <1>t DEF callback, FullInv, IndInv, FetchInv, TypeOK
    <3>5. FetchInv'
        BY <3>1, <3>4 DEF FullInv, IndInv, FetchInv
    <3> QED
        BY <3>3, <3>5, <1>t DEF FullInv, IndInv
  <2> QED
      BY <1>2, <2>1, <2>2 DEF Cleaning
<1>3. CASE dynhost_client_cleanup \/ Shutdown
  <2>1. FetchInv'
      BY <1>3 DEF FullInv, IndInv, FetchInv, dynhost_client_cleanup, Shutdown
  <2>2. /\ calls' = calls /\ served' = served /\ queued' = queued
        /\ pending' \cup active' \cup todo' = pending \cup active \cup todo
      BY <1>3 DEF FullInv, IndInv, FetchInv, dynhost_client_cleanup, Shutdown
  <2> QED
      BY <2>1, <2>2, <1>q, <1>t DEF FullInv, IndInv
<1>4. ASSUME NEW r \in Requests, dynhost_client_fetch_ex(r) PROVE FullInv'
  <2>1. calls[r] = <<>>
      BY <1>4 DEF dynhost_client_fetch_ex, FullInv, IndInv, FetchInv
  <2>2. FetchInv'
      BY <1>4 DEF dynhost_client_fetch_ex, FullInv, IndInv, FetchInv
  <2>3. (CalledOnce /\ NothingLost /\ SuccessReported)'
      BY <1>4, <2>1 DEF dynhost_client_fetch_ex, FullInv, IndInv, CalledOnce,
                        NothingLost, SuccessReported
  <2> QED
      BY <2>2, <2>3, <1>t DEF FullInv, IndInv
<1>5. ASSUME NEW r \in Requests,
             connection_dir_finished_flushing(r) \/ Arrive(r) \/ ConnFails(r)
               \/ ConnFreed(r) \/ Expire(r)
      PROVE  FullInv'
  <2>1. UNCHANGED <<queued, pending, active, pc, todo, calls, served>>
      BY <1>5 DEF connection_dir_finished_flushing, Arrive, ConnFails, ConnFreed,
                  Expire
  <2>2. FetchInv'
      BY <2>1 DEF FullInv, IndInv, FetchInv
  <2> QED
      BY <2>1, <2>2, <1>q, <1>t DEF FullInv, IndInv
<1>6. ASSUME NEW r \in Requests, connection_dir_reached_eof(r) PROVE FullInv'
  <2>0. pc = "loop" /\ UNCHANGED <<queued, pending, pc, todo>> /\ todo = {}
      BY <1>6 DEF connection_dir_reached_eof, FullInv, IndInv, FetchInv
  <2>1. CASE /\ r \in active /\ active' = active \ {r}
             /\ callback(r, "200") /\ served' = served \cup {r}
    <3>1. callback(r, "200") /\ active' = active \ {r}
        BY <2>1
    <3>2. r \in queued /\ calls[r] = <<>> /\ r \notin pending
        BY <2>1, <1>u DEF FullInv, IndInv, FetchInv
    <3>3. (CalledOnce /\ NothingLost /\ SuccessReported)'
      <4>1. "200" \in Statuses
          BY DEF Statuses
      <4> QED
          BY <2>0, <2>1, <3>2, <4>1, <1>t, LetGo
    <3>4. \A x \in Requests : calls'[x] # <<>> => x \in queued
        BY <3>1, <3>2, <1>t DEF callback, FullInv, IndInv, FetchInv, TypeOK
    <3>5. FetchInv'
        BY <2>0, <3>1, <3>4 DEF FullInv, IndInv, FetchInv
    <3> QED
        BY <3>3, <3>5, <1>t DEF FullInv, IndInv
  <2>2. CASE UNCHANGED <<calls, active, served>>
    <3>1. calls' = calls /\ active' = active
        BY <2>2
    <3>3. FetchInv'
        BY <2>0, <3>1 DEF FullInv, IndInv, FetchInv
    <3>4. CalledOnce' /\ NothingLost'
        BY <2>0, <3>1 DEF FullInv, IndInv, CalledOnce, NothingLost
    <3>5. SuccessReported'
        BY <2>2 DEF FullInv, SuccessReported
    <3> QED
        BY <3>3, <3>4, <3>5, <1>t DEF FullInv, IndInv
  <2>3. \/ /\ r \in active /\ active' = active \ {r}
           /\ callback(r, "200") /\ served' = served \cup {r}
        \/ UNCHANGED <<calls, active, served>>
    <3>1. CASE inbuf[r] = "200" /\ dynhost_client_handle_response(r)
               /\ served' = served \cup (active \cap {r})
        BY <3>1 DEF dynhost_client_handle_response, DropFetch
    <3> QED
        BY <1>6, <3>1 DEF connection_dir_reached_eof
  <2> QED
      BY <2>1, <2>2, <2>3
<1>7. CASE UNCHANGED vars
  <2>1. UNCHANGED <<queued, pending, active, pc, todo, calls, served>>
      BY <1>7 DEF vars
  <2>2. FetchInv'
      BY <2>1 DEF FullInv, IndInv, FetchInv
  <2> QED
      BY <2>1, <2>2, <1>q, <1>t DEF FullInv, IndInv
<1> QED
    BY <1>1, <1>2, <1>3, <1>4, <1>5, <1>6, <1>7 DEF Next

\* The invariant holds always.
THEOREM Invariance == Spec => []FullInv
<1>1. Init => FullInv
    BY DEF Init, FullInv, IndInv, TypeOK, FetchInv, CalledOnce, NothingLost,
           SuccessReported
<1> QED
    BY <1>1, InvStep, PTL DEF Spec

\* "fire the fetch's callback exactly once": no fetch is called back twice.
THEOREM CalledOnceAlways == Spec => []CalledOnce
<1>1. FullInv => CalledOnce
    BY DEF FullInv, IndInv
<1> QED
    BY <1>1, Invariance, PTL

\* No accepted fetch leaves the lists without a callback.
THEOREM NothingLostAlways == Spec => []NothingLost
<1>1. FullInv => NothingLost
    BY DEF FullInv, IndInv
<1> QED
    BY <1>1, Invariance, PTL

\* A 200 read in time is what the application is told.
THEOREM SuccessReportedAlways == Spec => []SuccessReported
<1>1. FullInv => SuccessReported
    BY DEF FullInv
<1> QED
    BY <1>1, Invariance, PTL

\* dynhost_client implements the service that answers a fetch once.
THEOREM Refinement == Spec => ImplementsService
<1>1. Init => Service!Init
    BY DEF Init, Service!Init
<1>2. FullInv /\ [Next]_vars => [Service!Next]_<<queued, calls>>
  <2> SUFFICES ASSUME FullInv, [Next]_vars
               PROVE  Service!Next \/ UNCHANGED <<queued, calls>>
      OBVIOUS
  <2>t. TypeOK
      BY DEF FullInv, IndInv
  <2>u. ASSUME NEW r \in pending \cup active \cup todo
        PROVE  r \in Requests /\ r \in queued /\ calls[r] = <<>>
      BY DEF FullInv, IndInv, TypeOK, FetchInv, CalledOnce
  <2>s. /\ "-1" \in Statuses /\ "200" \in Statuses
        /\ \A r \in Requests : Leftover(r) \in Statuses
      BY <2>t DEF Leftover, Statuses, Responses, TypeOK
  <2>a. ASSUME NEW r \in pending \cup active \cup todo, NEW s \in Statuses,
               callback(r, s), queued' = queued
        PROVE  Service!Next
    <3>1. r \in Requests /\ r \in queued /\ calls[r] = <<>>
        BY <2>u
    <3>2. calls' = [calls EXCEPT ![r] = <<s>>]
        BY <2>a, <3>1, <2>t DEF callback, TypeOK
    <3> QED
        BY <2>a, <3>1, <3>2 DEF Service!Next, Service!Answer
  <2> USE DEF connVars
  <2>1. CASE Ticking
    <3>1. CASE Tick \/ StartCheck \/ EndTick
        BY <3>1 DEF Tick, StartCheck, EndTick
    <3>2. ASSUME NEW r \in Requests, initiate_fetch(r)
          PROVE  UNCHANGED <<queued, calls>>
        BY <3>2 DEF initiate_fetch
    <3>3. ASSUME NEW r \in Requests, InitiateFails(r) PROVE Service!Next
        BY <3>3, <2>a, <2>s DEF InitiateFails
    <3>4. ASSUME NEW r \in Requests, CheckOne(r)
          PROVE  Service!Next \/ UNCHANGED <<queued, calls>>
        BY <3>4, <2>a, <2>s
        DEF CheckOne, ConnGone, TimedOut, ConnMarked, StillWaiting
    <3> QED
        BY <2>1, <3>1, <3>2, <3>3, <3>4 DEF Ticking
  <2>2. CASE Cleaning
      BY <2>2, <2>a, <2>s DEF Cleaning, CleanupDone, CleanupPending, CleanupActive
  <2>3. CASE dynhost_client_cleanup \/ Shutdown
      BY <2>3 DEF dynhost_client_cleanup, Shutdown
  <2>4. ASSUME NEW r \in Requests, dynhost_client_fetch_ex(r)
        PROVE  Service!Next
      BY <2>4 DEF dynhost_client_fetch_ex, Service!Next, Service!Accept
  <2>5. ASSUME NEW r \in Requests,
               connection_dir_finished_flushing(r) \/ Arrive(r) \/ ConnFails(r)
                 \/ ConnFreed(r) \/ Expire(r)
        PROVE  UNCHANGED <<queued, calls>>
      BY <2>5 DEF connection_dir_finished_flushing, Arrive, ConnFails, ConnFreed,
                  Expire
  <2>6. ASSUME NEW r \in Requests, connection_dir_reached_eof(r)
        PROVE  Service!Next \/ UNCHANGED <<queued, calls>>
      BY <2>6, <2>a, <2>s
      DEF connection_dir_reached_eof, dynhost_client_handle_response
  <2>7. CASE UNCHANGED vars
      BY <2>7 DEF vars
  <2> QED
      BY <2>1, <2>2, <2>3, <2>4, <2>5, <2>6, <2>7 DEF Next
<1> QED
    BY <1>1, <1>2, Invariance, PTL DEF Spec, ImplementsService, Service!Spec

=============================================================================
