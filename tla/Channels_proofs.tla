--------------------------- MODULE Channels_proofs ---------------------------
(***************************************************************************)
(* Channels, multiplexers and schedulers, for any channels, circuits and   *)
(* ids, any sizes, marks and limits within ChannelsAssumption.             *)
(*                                                                         *)
(* IndInv speaks of the channels one by one (ChanOK), of what a run of the *)
(* scheduler holds (RunInv) and of the circuits being closed (CloseInv).   *)
(* ChannelsEvents_proofs has the lemmas about one channel and the          *)
(* callbacks; here are the steps of a run and of closing the circuits.     *)
(***************************************************************************)
EXTENDS ChannelsEvents_proofs

\* A leaf is tried with Zenon, then with SMT, then with both for longer.
USE ZenonT(2), SMT, SMTT(30), Zenon

-----------------------------------------------------------------------------
(* A run of the scheduler. *)

\* The sets the fields of `main' are taken from.
Places == {"loop", "run", "flush", "decide", "write", "closing", "failed", "prime",
           "refuse"}
\* The main thread is inside a run of the scheduler.
InRun == main.at \in {"run", "flush", "decide", "write"}
ChanIds == Chans \cup {0}
CircIds == Circs \cup {0}
Rooms(limited) == [limited -> Int]
ChanSets == SUBSET Chans
Victims == SUBSET (Chans \X Circs)

\* The type of `main' in terms of these.
LEMMA MainFields ==
    ASSUME NEW limited
    PROVE  MainType(limited) =
             [at : Places, chan : ChanIds, max : Nat, flushed : Nat, circ : CircIds,
              room : Rooms(limited), outbufs : ChanSets, readd : ChanSets,
              victims : Victims]
BY DEF MainType, Places, ChanIds, CircIds, Rooms, ChanSets, Victims

\* A channel that a run holds (`held') or not.
Fits(s, held) ==
  /\ s.scheduler_state = "PENDING" /\ ~s.pending => held
  /\ held => /\ s.state \in {"OPEN", "CLOSING"} /\ ~s.pending
             /\ Open(s) => s.scheduler_state = "PENDING"

\* The rest of RunInv inside a run.
RunRest ==
  /\ Held \subseteq Chans
  /\ \A ch \in main.outbufs : chans[ch].state \in {"OPEN", "CLOSING"}
  /\ main.at \in {"flush", "decide"} => main.chan \notin main.readd
  /\ main.at = "flush" /\ Open(chans[main.chan]) => main.max > 0
  /\ main.at \in {"run", "flush", "decide"} =>
       /\ Held \subseteq DOMAIN main.room
       /\ \A ch \in Chans : chans[ch].pending => ch \in DOMAIN main.room
       /\ main.chan \in {0} \cup DOMAIN main.room

\* No DESTROY of a circuit that is still on its channel is queued.
NoneDeleted == \A ch \in Chans, c \in Circs : ~chans[ch].circ[c].delete_pending

\* The invariant inside a run, channel by channel ...
LEMMA RunFacts ==
    ASSUME IndInv, InRun
    PROVE  /\ TypeOK /\ circuits_pending_close \subseteq Marked /\ RunRest /\ NoneDeleted
           /\ \A ch \in Chans : Sound(chans[ch]) /\ Fits(chans[ch], ch \in Held)
<1>1. TypeOK /\ RunInv /\ CloseInv /\ \A ch \in Chans : Sound(chans[ch])
    BY Parts
<1>2. RunRest
    BY <1>1 DEF RunInv, RunRest
<1>3. ASSUME NEW ch \in Chans PROVE Fits(chans[ch], ch \in Held)
    BY <1>1 DEF RunInv, Fits
<1>4. circuits_pending_close \subseteq Marked
    BY <1>1 DEF CloseInv, InRun, Walking
<1>5. NoneDeleted
    BY <1>1 DEF CloseInv, InRun, NoneDeleted
<1> QED
    BY <1>1, <1>2, <1>3, <1>4, <1>5

\* ... and put together again.
LEMMA RunBuilt ==
    ASSUME TypeOK', InRun', (circuits_pending_close \subseteq Marked)', RunRest', NoneDeleted',
           \A ch \in Chans : Sound(chans'[ch]) /\ Fits(chans'[ch], ch \in Held')
    PROVE  IndInv'
<1>1. RunInv'
    BY DEF RunInv, RunRest, Fits, InRun
<1>2. CloseInv'
    BY DEF CloseInv, InRun, NoneDeleted, Walking
<1> QED
    BY <1>1, <1>2, Built

\* No step of a run that leaves the circuits alone changes who is marked.
LEMMA CircuitsKept ==
    ASSUME circuits_pending_close \subseteq Marked, NoneDeleted, UNCHANGED circuits_pending_close,
           \A ch \in Chans : chans'[ch].circ = chans[ch].circ
    PROVE  (circuits_pending_close \subseteq Marked)' /\ NoneDeleted'
BY DEF Marked, NoneDeleted

\* Writing to the kernel inside a run.
LEMMA WroteFits ==
    ASSUME NEW s, NEW t, NEW held, Fits(s, held), Wrote(s, t), held \in BOOLEAN
    PROVE  /\ Fits(t, held) /\ Sound(t) /\ t.circ = s.circ
           /\ s.state \in {"OPEN", "CLOSING"} => t.state \in {"OPEN", "CLOSING"}
           /\ t.pending => ~held
BY DEF Fits, Wrote, Open, Condemned

\* channel_num_cells_writeable never goes below zero, whatever the high mark was
\* when the outbuf was filled; KIST's limits are numbers.
LEMMA LimitsInt ==
    ASSUME NEW s, s.outbuf \in Nat, high \in HighMarks
    PROVE  channel_num_cells_writeable(s) \in Nat /\ Limits(s) \subseteq Int
<1>1. /\ Cell \in Nat \ {0} /\ SizeMod \in Nat /\ high \in Nat \ {0}
      /\ high + Cell <= SizeMod /\ KernelRooms \subseteq Nat
    BY ChannelsAssumption
<1>2. SizeMod > 0
    BY <1>1
<1>3. channel_num_cells_writeable(s) \in Nat
  <2>1. (high - s.outbuf) % SizeMod \in Nat
      BY <1>1, <1>2
  <2> DEFINE a == (high - s.outbuf) % SizeMod
  <2> HIDE DEF a
  <2>2. a \in Nat
      BY <2>1 DEF a
  <2>3. (a + Cell - 1) % SizeMod \in Nat
      BY <1>1, <1>2, <2>2
  <2> DEFINE b == (a + Cell - 1) % SizeMod
  <2> HIDE DEF b
  <2>4. b \in Nat
      BY <2>3 DEF b
  <2>5. b \div Cell \in Nat
      BY <1>1, <2>4
  <2>6. channel_num_cells_writeable(s) = IF Open(s) THEN b \div Cell ELSE 0
      BY DEF channel_num_cells_writeable, a, b
  <2> QED
      BY <2>5, <2>6
<1>4. ASSUME NEW k \in KernelRooms
      PROVE  (IF k > s.outbuf THEN k - s.outbuf ELSE 0) \div Cell \in Int
  <2>1. (IF k > s.outbuf THEN k - s.outbuf ELSE 0) \in Nat
      BY <1>1
  <2> QED
      BY <1>1, <2>1
<1> QED
    BY <1>3, <1>4 DEF Limits

\* The start of a run computes a limit for every pending channel.
LEMMA EvtCallbackStep ==
    ASSUME IndInv, scheduler_evt_callback PROVE IndInv'
<1>1. /\ main.at = "loop" /\ chans' = chans /\ run_sched_ev' = FALSE
      /\ UNCHANGED <<the_scheduler, high, circuits_pending_close>>
    BY DEF scheduler_evt_callback
<1>2. PICK room \in [Pending -> UNION {Limits(chans[ch]) : ch \in Pending}] :
        main' = [main EXCEPT !.at = "run", !.room = room]
    BY DEF scheduler_evt_callback
<1>3. /\ TypeOK /\ main.readd = {} /\ main.outbufs = {} /\ main.chan = 0
      /\ circuits_pending_close \subseteq Marked
      /\ \A ch \in Chans : Sound(chans[ch]) /\ Settled(chans[ch])
    BY <1>1, LoopFacts
<1>4. DOMAIN room = Pending /\ room \in Rooms(Pending)
  <2>1. ASSUME NEW ch \in Pending PROVE Limits(chans[ch]) \subseteq Int
      BY <1>3, LimitsInt DEF Pending, TypeOK, ChanType
  <2> QED
      BY <2>1 DEF Rooms
<1>5. main \in MainType(DOMAIN main.room)
    BY <1>3 DEF TypeOK
<1>6. /\ main' \in MainType(Pending) /\ main'.at = "run" /\ main'.room = room
      /\ main'.readd = {} /\ main'.outbufs = {} /\ main'.chan = 0
  <2>1. "run" \in Places
      BY DEF Places
  <2> QED
      BY ONLY <1>2, <1>3, <1>4, <1>5, <2>1, MainFields, ZenonT(30)
<1>7. TypeOK'
    BY <1>1, <1>3, <1>4, <1>6 DEF TypeOK, Pending
<1>8. Held' = {} /\ InRun'
    BY <1>6 DEF Held, InRun
<1>9. RunRest'
    BY <1>1, <1>4, <1>6, <1>8 DEF RunRest, Pending
<1>10. (circuits_pending_close \subseteq Marked)' /\ NoneDeleted'
    BY <1>1, <1>3 DEF Marked, NoneDeleted, Settled
<1>11. \A ch \in Chans : Sound(chans'[ch]) /\ Fits(chans'[ch], ch \in Held')
    BY <1>1, <1>3, <1>8 DEF Fits, Settled
<1> QED
    BY <1>7, <1>8, <1>9, <1>10, <1>11, RunBuilt

\* A channel popped from the pending list is in the hands of the run.
LEMMA PopFits ==
    ASSUME NEW s, Sound(s), s.pending, NEW t, t = [s EXCEPT !.pending = FALSE]
    PROVE  /\ Sound(t) /\ Fits(t, TRUE) /\ t.circ = s.circ /\ t.state = s.state
           /\ ~t.pending
<1>1. s \in ChanType /\ CircuitsOK(s) /\ SchedOK(s)
    BY DEF Sound
<1>2. /\ t \in ChanType /\ t.pending = FALSE /\ t.state = s.state /\ t.outbuf = s.outbuf
      /\ t.scheduler_state = s.scheduler_state /\ t.circ = s.circ
      /\ t.n_cells = s.n_cells /\ t.n_active = s.n_active
      /\ t.destroys = s.destroys /\ t.map = s.map
    BY <1>1, ChanFields
<1>3. CircuitsOK(t)
    BY ONLY <1>1, <1>2, Frame, SMTT(30)
<1>4. SchedOK(t)
    BY ONLY <1>1, <1>2, SMTT(30) DEF SchedOK, Open
<1>5. s.scheduler_state = "PENDING" /\ s.state \in {"OPEN", "CLOSING"}
    BY <1>1, ChanFields DEF SchedOK, ChanStates
<1>6. Fits(t, TRUE)
    BY ONLY <1>2, <1>5, SMTT(30) DEF Fits
<1> QED
    BY <1>2, <1>3, <1>4, <1>6 DEF Sound

\* kist_scheduler_run takes the next channel and may write the one before it.
LEMMA KistPopStep ==
    ASSUME IndInv, NEW ch \in Chans, KistPop(ch) PROVE IndInv'
<1> DEFINE prev == main.chan
           writes == prev \notin {0, ch} /\ chans[prev].outbuf > Batch
           out == (main.outbufs \cup {ch}) \ (IF writes THEN {prev} ELSE {})
           n == IF main.room[ch] > 0 /\ Open(chans[ch]) THEN 1 ELSE 0
           place == IF main.room[ch] > 0 THEN "flush" ELSE "decide"
<1>1. /\ main.at = "run" /\ ch \in Pending /\ schedule
      /\ UNCHANGED <<the_scheduler, high, circuits_pending_close>>
      /\ main' = FlushSome([main EXCEPT !.outbufs = out], ch, n, place)
    BY DEF KistPop
<1>2. PICK t \in IF writes THEN WriteToKernel(chans[prev]) ELSE {NewChannel} :
        chans' = [x \in Chans |-> CASE x = ch -> Popped(ch)
                                    [] x = prev /\ writes -> t
                                    [] OTHER -> chans[x]]
    BY DEF KistPop
<1>3. InRun
    BY <1>1 DEF InRun
<1>4. /\ TypeOK /\ circuits_pending_close \subseteq Marked /\ RunRest /\ NoneDeleted
      /\ \A x \in Chans : Sound(chans[x]) /\ Fits(chans[x], x \in Held)
    BY <1>3, RunFacts
<1>5. Held = main.readd
    BY <1>1 DEF Held
<1>6. /\ ch \in Chans /\ chans[ch].pending /\ ch \in DOMAIN main.room
      /\ ch \notin main.readd /\ prev \in {0} \cup DOMAIN main.room
    BY <1>1, <1>4, <1>5 DEF Pending, RunRest, Fits
<1>7. main \in MainType(DOMAIN main.room) /\ DOMAIN main.room \subseteq Chans
    BY <1>4 DEF TypeOK
<1>8. /\ main' \in MainType(DOMAIN main.room) /\ main'.at = place /\ main'.room = main.room
      /\ main'.readd = main.readd /\ main'.outbufs = out /\ main'.chan = ch
      /\ main'.max = n
  <2>1. place \in Places /\ ch \in ChanIds /\ n \in Nat
      BY DEF Places, ChanIds
  <2>2. out \in ChanSets
      BY <1>7, MainFields DEF ChanSets
  <2> QED
      BY ONLY <1>1, <1>7, <2>1, <2>2, MainFields, ZenonT(30) DEF FlushSome
<1> DEFINE now(x) == chans'[x]
<1>9. now(ch) = [chans[ch] EXCEPT !.pending = FALSE]
    BY <1>2 DEF Popped
<1>10. ASSUME NEW x \in Chans, x # ch PROVE Wrote(chans[x], now(x)) \/ now(x) = chans[x]
  <2>1. CASE x = prev /\ writes
    <3>1. now(x) = t /\ t \in WriteToKernel(chans[x]) /\ Sound(chans[x])
        BY <1>2, <1>4, <1>10, <2>1
    <3> QED
        BY ONLY <3>1, WriteToKernelOK, SMTT(30)
  <2>2. CASE ~(x = prev /\ writes)
      BY <1>2, <1>10, <2>2
  <2> QED
      BY <2>1, <2>2
<1>a. DOMAIN chans' = Chans
    BY <1>2
<1> HIDE DEF now, writes, prev
<1>11. /\ Sound(now(ch)) /\ Fits(now(ch), TRUE) /\ now(ch).circ = chans[ch].circ
       /\ now(ch).state = chans[ch].state /\ ~now(ch).pending
    BY ONLY <1>4, <1>6, <1>9, PopFits, ZenonT(30)
<1>12. ASSUME NEW x \in Chans, x # ch
       PROVE  /\ Sound(now(x)) /\ Fits(now(x), x \in Held)
              /\ now(x).circ = chans[x].circ
              /\ chans[x].state \in {"OPEN", "CLOSING"} => now(x).state \in {"OPEN", "CLOSING"}
  <2>1. Sound(chans[x]) /\ Fits(chans[x], x \in Held) /\ (x \in Held) \in BOOLEAN
      BY <1>4
  <2>2. CASE Wrote(chans[x], now(x))
      BY ONLY <2>1, <2>2, WroteFits, ZenonT(30)
  <2>3. CASE now(x) = chans[x]
      BY ONLY <2>1, <2>3, SMTT(30)
  <2> QED
      BY <1>10, <1>12, <2>2, <2>3
<1>13. ASSUME NEW x \in Chans, now(x).pending PROVE x \in DOMAIN main.room
  <2>1. CASE x = ch \/ x = main.chan
      BY <1>6, <1>13, <2>1, ChannelsAssumption DEF prev
  <2>2. CASE x # ch /\ x # main.chan
    <3>1. now(x) = chans[x]
        BY <1>2, <2>2 DEF now, prev
    <3> QED
        BY <3>1, <1>1, <1>4, <1>13 DEF RunRest
  <2> QED
      BY <2>1, <2>2
<1>14. Held' = main.readd \cup {ch} /\ InRun'
    BY <1>8 DEF Held, InRun
<1>15. \A x \in Chans : Sound(chans'[x]) /\ Fits(chans'[x], x \in Held')
  <2>1. ASSUME NEW x \in Chans, x # ch PROVE (x \in Held') = (x \in Held)
      BY <1>5, <1>14, <2>1
  <2>2. (ch \in Held') = TRUE
      BY <1>14
  <2> QED
      BY <1>11, <1>12, <2>1, <2>2 DEF now
<1>16. RunRest'
  <2>1. Held' \subseteq Chans /\ Held' \subseteq DOMAIN main.room
      BY <1>1, <1>4, <1>5, <1>6, <1>14 DEF RunRest
  <2>2. ASSUME NEW x \in main'.outbufs PROVE chans'[x].state \in {"OPEN", "CLOSING"}
    <3>1. CASE x = ch
        BY <1>11, <3>1 DEF now, Fits
    <3>2. CASE x # ch
      <4>1. x \in Chans /\ x \in main.outbufs
          BY <1>8, <1>7, <2>2, <3>2, MainFields DEF ChanSets
      <4> QED
          BY <4>1, <1>4, <1>12, <3>2 DEF RunRest, now
    <3> QED
        BY <3>1, <3>2
  <2>3. main'.at = "flush" /\ Open(chans'[main'.chan]) => main'.max > 0
      BY <1>8, <1>11 DEF now, Open
  <2> QED
      BY <2>1, <2>2, <2>3, <1>6, <1>8, <1>13 DEF RunRest, now
<1>17. (circuits_pending_close \subseteq Marked)' /\ NoneDeleted'
  <2>1. \A x \in Chans : chans'[x].circ = chans[x].circ
      BY <1>11, <1>12 DEF now
  <2> QED
      BY <1>1, <1>4, <2>1, CircuitsKept
<1>18. TypeOK'
  <2>1. chans' \in [Chans -> ChanType]
    <3>1. \A x \in Chans : chans'[x] \in ChanType
        BY <1>15 DEF Sound
    <3>2. chans' = [x \in Chans |-> chans'[x]]
        BY <1>2
    <3> QED
        BY ONLY <3>1, <3>2, SMTT(30)
  <2>2. run_sched_ev' \in BOOLEAN
      BY <1>1, <1>4 DEF schedule, TypeOK
  <2>3. circuits_pending_close' \subseteq Chans \X Circs
      BY <1>1, <1>4 DEF TypeOK
  <2> QED
      BY <2>1, <2>2, <2>3, <1>1, <1>4, <1>7, <1>8 DEF TypeOK
<1> QED
    BY <1>14, <1>15, <1>16, <1>17, <1>18, RunBuilt

\* The channel has been opened and its connection is not gone yet.
Alive(s) == s.state \in {"OPEN", "CLOSING"}

\* What `main' may become in a step of a run about channel ch.
RunsOn(ch) ==
  /\ main' \in MainType(DOMAIN main.room) /\ InRun'
  /\ main'.outbufs \subseteq main.outbufs
  /\ Held' \subseteq Held \cup {ch} /\ Held \subseteq Held' \cup {ch}
  /\ main'.at \in {"flush", "decide"} => main'.chan \notin main'.readd
  /\ main'.at \in {"run", "flush", "decide"} =>
       /\ main.at \in {"run", "flush", "decide"} /\ ch \in DOMAIN main.room
       /\ main'.chan \in {0} \cup DOMAIN main.room

\* A step of a run that touches one channel.
LEMMA RunStep ==
    ASSUME IndInv, InRun, NEW ch \in Chans, NEW t, Set(ch, t), Sound(t),
           t.circ = chans[ch].circ, Fits(t, ch \in Held'), RunsOn(ch),
           Alive(chans[ch]) => Alive(t),
           main'.at = "flush" => main'.max > 0,
           run_sched_ev' \in BOOLEAN,
           UNCHANGED <<the_scheduler, high, circuits_pending_close>>
    PROVE  IndInv'
<1>1. /\ TypeOK /\ circuits_pending_close \subseteq Marked /\ RunRest /\ NoneDeleted
      /\ \A x \in Chans : Sound(chans[x]) /\ Fits(chans[x], x \in Held)
    BY RunFacts
<1>2. chans'[ch] = t /\ \A x \in Chans \ {ch} : chans'[x] = chans[x]
    BY <1>1 DEF TypeOK, Set
<1>3. chans' \in [Chans -> ChanType]
  <2>1. chans \in [Chans -> ChanType] /\ t \in ChanType
      BY <1>1 DEF TypeOK, Sound
  <2> QED
      BY <2>1 DEF Set
<1>4. DOMAIN main'.room = DOMAIN main.room
    BY MainFields DEF RunsOn, Rooms
<1>5. TypeOK'
    BY <1>1, <1>3, <1>4 DEF TypeOK, RunsOn
<1>6. \A x \in Chans : Sound(chans'[x]) /\ Fits(chans'[x], x \in Held')
  <2>1. ASSUME NEW x \in Chans, x # ch PROVE (x \in Held') = (x \in Held)
      BY <2>1 DEF RunsOn
  <2> QED
      BY <1>1, <1>2, <2>1
<1>7. (circuits_pending_close \subseteq Marked)' /\ NoneDeleted'
  <2>1. \A x \in Chans : chans'[x].circ = chans[x].circ
      BY <1>2
  <2> QED
      BY <1>1, <2>1, CircuitsKept
<1>8. main.outbufs \subseteq Chans
    BY <1>1, MainFields DEF TypeOK, ChanSets
<1>9. RunRest'
  <2>1. Held' \subseteq Chans
      BY <1>1 DEF RunsOn, RunRest
  <2>2. ASSUME NEW x \in main'.outbufs PROVE chans'[x].state \in {"OPEN", "CLOSING"}
      BY <1>1, <1>2, <1>8, <2>2 DEF RunsOn, RunRest, Alive
  <2>3. main'.at \in {"run", "flush", "decide"} =>
           /\ Held' \subseteq DOMAIN main'.room
           /\ \A x \in Chans : chans'[x].pending => x \in DOMAIN main'.room
           /\ main'.chan \in {0} \cup DOMAIN main'.room
      BY <1>1, <1>2, <1>4 DEF RunsOn, RunRest
  <2> QED
      BY <2>1, <2>2, <2>3 DEF RunRest, RunsOn
<1>10. InRun'
    BY DEF RunsOn
<1> QED
    BY <1>5, <1>6, <1>7, <1>9, <1>10, RunBuilt

\* A channel without room waits to write, and has something to flush.
LEMMA WriteStateOK ==
    ASSUME NEW s, Sound(s), s.pending, high \in HighMarks,
           channel_num_cells_writeable(s) = 0,
           NEW t, t = [s EXCEPT !.pending = FALSE, !.scheduler_state = "WAITING_TO_WRITE"]
    PROVE  Sound(t) /\ Fits(t, FALSE) /\ t.circ = s.circ /\ t.state = s.state
<1>1. s \in ChanType /\ CircuitsOK(s) /\ SchedOK(s)
    BY DEF Sound
<1>2. "WAITING_TO_WRITE" \in SchedStates
    BY DEF SchedStates
<1>3. /\ t \in ChanType /\ t.pending = FALSE /\ t.state = s.state /\ t.outbuf = s.outbuf
      /\ t.scheduler_state = "WAITING_TO_WRITE" /\ t.circ = s.circ
      /\ t.n_cells = s.n_cells /\ t.n_active = s.n_active
      /\ t.destroys = s.destroys /\ t.map = s.map
    BY <1>1, <1>2, ChanFields
<1>4. CircuitsOK(t)
    BY ONLY <1>1, <1>3, Frame, SMTT(30)
<1>5. s.scheduler_state = "PENDING" /\ s.state \in {"OPEN", "CLOSING"}
    BY <1>1, ChanFields DEF SchedOK, ChanStates
<1>6. s.outbuf \in Nat
    BY <1>1, ChanFields
<1>7. Open(s) => s.outbuf > 0
    BY <1>6, Writeable
<1>8. SchedOK(t)
    BY ONLY <1>3, <1>5, <1>7, SMTT(30) DEF SchedOK, Open
<1>9. Fits(t, FALSE)
    BY ONLY <1>3, SMTT(30) DEF Fits
<1> QED
    BY <1>3, <1>4, <1>8, <1>9 DEF Sound

\* vanilla_scheduler_run takes the next channel.
LEMMA VanillaPopStep ==
    ASSUME IndInv, NEW ch \in Chans, VanillaPop(ch) PROVE IndInv'
<1> DEFINE s == chans[ch]
           n == channel_num_cells_writeable(s)
<1>1. /\ main.at = "run" /\ ch \in Pending /\ UNCHANGED run_sched_ev
      /\ UNCHANGED <<the_scheduler, high, circuits_pending_close>>
    BY DEF VanillaPop
<1>2. InRun
    BY <1>1 DEF InRun
<1>3. /\ TypeOK /\ RunRest /\ Sound(s) /\ Fits(s, ch \in Held)
    BY <1>2, RunFacts
<1>4. Held = main.readd
    BY <1>1 DEF Held
<1>5. /\ ch \in Chans /\ s.pending /\ ch \in DOMAIN main.room
      /\ ch \notin main.readd /\ main.chan \in {0} \cup DOMAIN main.room
    BY <1>1, <1>3, <1>4 DEF Pending, RunRest, Fits
<1>6. main \in MainType(DOMAIN main.room) /\ high \in HighMarks /\ run_sched_ev' \in BOOLEAN
    BY <1>1, <1>3 DEF TypeOK
<1>7. s.outbuf \in Nat
    BY <1>3, ChanFields DEF Sound
<1>8. n \in Nat
    BY <1>6, <1>7, LimitsInt
<1>9. CASE n > 0
  <2> DEFINE t == [s EXCEPT !.pending = FALSE]
  <2>1. Set(ch, t) /\ main' = FlushSome(main, ch, n, "flush")
      BY <1>9 DEF VanillaPop, Popped
  <2>2. /\ Sound(t) /\ Fits(t, TRUE) /\ t.circ = s.circ /\ t.state = s.state
      BY ONLY <1>3, <1>5, PopFits, ZenonT(30)
  <2> HIDE DEF t
  <2>3. /\ main' \in MainType(DOMAIN main.room) /\ main'.at = "flush"
        /\ main'.readd = main.readd /\ main'.outbufs = main.outbufs /\ main'.chan = ch
        /\ main'.max = n
    <3>1. "flush" \in Places /\ ch \in ChanIds
        BY DEF Places, ChanIds
    <3> QED
        BY ONLY <1>6, <1>8, <2>1, <3>1, MainFields, ZenonT(30) DEF FlushSome
  <2>4. Held' = main.readd \cup {ch} /\ InRun'
      BY <2>3 DEF Held, InRun
  <2>5. RunsOn(ch)
      BY ONLY <1>1, <1>4, <1>5, <2>3, <2>4, SMTT(30) DEF RunsOn
  <2>6. (ch \in Held') = TRUE
      BY <2>4
  <2>7. Fits(t, ch \in Held')
      BY ONLY <2>2, <2>6, ZenonT(30)
  <2>8. Alive(t) <=> Alive(s)
      BY <2>2 DEF Alive
  <2> QED
      BY <1>1, <1>2, <1>6, <1>9, <2>1, <2>2, <2>3, <2>5, <2>7, <2>8, RunStep
<1>10. CASE ~(n > 0)
  <2> DEFINE t == [s EXCEPT !.pending = FALSE, !.scheduler_state = "WAITING_TO_WRITE"]
  <2>1. Set(ch, t) /\ main' = main
      BY <1>10 DEF VanillaPop, Popped
  <2>2. n = 0
      BY <1>8, <1>10
  <2>3. /\ Sound(t) /\ Fits(t, FALSE) /\ t.circ = s.circ /\ t.state = s.state
      BY ONLY <1>3, <1>5, <1>6, <2>2, WriteStateOK, ZenonT(30)
  <2> HIDE DEF t
  <2>4. Held' = Held /\ InRun'
      BY <1>2, <2>1 DEF Held, InRun
  <2>5. RunsOn(ch)
      BY ONLY <1>1, <1>5, <1>6, <2>1, <2>4, SMTT(30) DEF RunsOn
  <2>6. (ch \in Held') = FALSE
      BY <1>4, <1>5, <2>4
  <2>7. Fits(t, ch \in Held')
      BY ONLY <2>3, <2>6, ZenonT(30)
  <2>8. Alive(t) <=> Alive(s)
      BY <2>3 DEF Alive
  <2>9. main'.at = "run"
      BY <1>1, <2>1
  <2> QED
      BY <1>1, <1>2, <1>6, <2>1, <2>3, <2>5, <2>7, <2>8, <2>9, RunStep
<1> QED
    BY <1>9, <1>10

\* KIST writes one of the outbufs it has filled.
LEMMA KistWriteStep ==
    ASSUME IndInv, NEW ch \in Chans, KistWrite(ch) PROVE IndInv'
<1> DEFINE s == chans[ch]
<1>1. /\ main.at \in {"write", "run"} /\ ch \in main.outbufs /\ schedule
      /\ UNCHANGED <<the_scheduler, high, circuits_pending_close>>
      /\ main' = [main EXCEPT !.at = "write", !.outbufs = @ \ {ch}]
    BY DEF KistWrite
<1>2. PICK t \in WriteToKernel(s) : Set(ch, t)
    BY DEF KistWrite
<1>3. InRun
    BY <1>1 DEF InRun
<1>4. TypeOK /\ RunRest /\ Sound(s) /\ Fits(s, ch \in Held)
    BY <1>3, RunFacts
<1>5. main \in MainType(DOMAIN main.room) /\ run_sched_ev' \in BOOLEAN
    BY <1>1, <1>4 DEF TypeOK, schedule
<1>6. Wrote(s, t) /\ (ch \in Held) \in BOOLEAN
    BY <1>2, <1>4, WriteToKernelOK
<1>7. /\ Fits(t, ch \in Held) /\ Sound(t) /\ t.circ = s.circ
      /\ Alive(s) => Alive(t)
    BY ONLY <1>4, <1>6, WroteFits, ZenonT(30) DEF Alive
<1>8. /\ main' \in MainType(DOMAIN main.room) /\ main'.at = "write"
      /\ main'.readd = main.readd /\ main'.outbufs \subseteq main.outbufs
  <2>1. "write" \in Places
      BY DEF Places
  <2>2. main.outbufs \in ChanSets /\ main.outbufs \ {ch} \in ChanSets
      BY <1>5, MainFields DEF ChanSets
  <2> QED
      BY ONLY <1>1, <1>5, <2>1, <2>2, MainFields, ZenonT(30)
<1>9. Held' = Held /\ InRun'
    BY <1>1, <1>8 DEF Held, InRun
<1>10. RunsOn(ch)
    BY ONLY <1>8, <1>9, SMTT(30) DEF RunsOn
<1>11. Fits(t, ch \in Held')
    BY ONLY <1>7, <1>9, SMTT(30)
<1> QED
    BY <1>1, <1>2, <1>3, <1>5, <1>7, <1>8, <1>10, <1>11, RunStep

\* A channel becomes pending again.
LEMMA ReaddOK ==
    ASSUME NEW s, Sound(s), Alive(s)
    PROVE  /\ Sound(MakePending(s)) /\ MakePending(s).circ = s.circ
           /\ MakePending(s).pending /\ MakePending(s).scheduler_state = "PENDING"
           /\ MakePending(s).state = s.state
<1>1. s \in ChanType /\ CircuitsOK(s) /\ SchedOK(s)
    BY DEF Sound
<1> DEFINE t == MakePending(s)
<1>2. SameButSched(s, t) /\ t.scheduler_state = "PENDING" /\ t.pending
    BY <1>1, SchedEffect
<1> HIDE DEF t
<1>3. CircuitsOK(t)
    BY <1>1, <1>2, Frame DEF SameButSched
<1>4. SchedOK(t)
    BY <1>2 DEF SchedOK, SameButSched, Alive, Open
<1>5. Sound(t) /\ t.circ = s.circ /\ t.state = s.state
    BY <1>2, <1>3, <1>4 DEF Sound, SameButSched
<1> QED
    BY <1>2, <1>5 DEF t

\* The end of a run puts the channels it set aside back.
LEMMA RunEndsStep ==
    ASSUME IndInv, RunEnds PROVE IndInv'
<1>1. /\ main.at \in {"write", "run"} /\ main.outbufs = {}
      /\ UNCHANGED <<the_scheduler, high, circuits_pending_close>>
      /\ chans' = [ch \in Chans |-> Readd(ch)] /\ main' = AtLoop
      /\ run_sched_ev' = (run_sched_ev \/ \E ch \in Chans : chans'[ch].pending)
    BY DEF RunEnds
<1>2. InRun
    BY <1>1 DEF InRun
<1>3. /\ TypeOK /\ circuits_pending_close \subseteq Marked /\ NoneDeleted
      /\ \A x \in Chans : Sound(chans[x]) /\ Fits(chans[x], x \in Held)
    BY <1>2, RunFacts
<1>4. Held = main.readd
    BY <1>1 DEF Held
<1>5. ASSUME NEW x \in Chans
      PROVE  /\ Sound(chans'[x]) /\ chans'[x].circ = chans[x].circ
             /\ chans'[x].scheduler_state = "PENDING" => chans'[x].pending
  <2>1. CASE x \in main.readd
    <3>1. chans'[x] = MakePending(chans[x])
        BY <1>1, <2>1 DEF Readd
    <3>2. Sound(chans[x]) /\ Alive(chans[x])
        BY <1>3, <1>4, <2>1 DEF Fits, Alive
    <3> QED
        BY ONLY <3>1, <3>2, ReaddOK, SMTT(30)
  <2>2. CASE x \notin main.readd
    <3>1. chans'[x] = chans[x]
        BY <1>1, <2>2 DEF Readd
    <3> QED
        BY <3>1, <1>3, <1>4, <2>2 DEF Fits
  <2> QED
      BY <2>1, <2>2
<1>6. (circuits_pending_close \subseteq Marked)' /\ NoneDeleted'
    BY <1>1, <1>3, <1>5, CircuitsKept
<1>7. /\ main'.at = "loop" /\ main'.readd = {} /\ main'.outbufs = {} /\ main'.chan = 0
      /\ DOMAIN main'.room = {} /\ main' \in MainType({})
  <2>1. AtLoop.room = [ch \in {} |-> 0] /\ [ch \in {} |-> 0] \in [{} -> Int]
      BY DEF AtLoop
  <2>2. AtLoop \in MainType({})
      BY <2>1 DEF AtLoop, MainType
  <2> QED
      BY <1>1, <2>1, <2>2 DEF AtLoop
<1>8. Held' = {}
    BY <1>7 DEF Held
<1>9. TypeOK'
  <2>1. chans' \in [Chans -> ChanType]
      BY <1>1, <1>5 DEF Sound
  <2> QED
      BY <1>1, <1>3, <1>7, <2>1 DEF TypeOK
<1>10. RunInv'
    BY <1>1, <1>5, <1>7, <1>8 DEF RunInv
<1>11. CloseInv'
    BY <1>6, <1>7 DEF CloseInv, NoneDeleted, Walking
<1> QED
    BY <1>5, <1>9, <1>10, <1>11, Built

\* A channel that the run is done with gets a state that is true of it.
LEMMA DecidedOK ==
    ASSUME NEW s, Sound(s), Alive(s), ~s.pending,
           NEW x \in {"IDLE", "WAITING_FOR_CELLS", "WAITING_TO_WRITE"},
           Open(s) => /\ x \in {"IDLE", "WAITING_FOR_CELLS"} => s.n_cells = 0
                      /\ x \in {"IDLE", "WAITING_TO_WRITE"} => s.outbuf > 0,
           NEW t, t = [s EXCEPT !.scheduler_state = x]
    PROVE  Sound(t) /\ Fits(t, FALSE) /\ t.circ = s.circ /\ Alive(t)
<1>1. s \in ChanType /\ CircuitsOK(s) /\ SchedOK(s)
    BY DEF Sound
<1>2. x \in SchedStates
    BY DEF SchedStates
<1>3. /\ t \in ChanType /\ t.pending = s.pending /\ t.state = s.state /\ t.outbuf = s.outbuf
      /\ t.scheduler_state = x /\ t.circ = s.circ
      /\ t.n_cells = s.n_cells /\ t.n_active = s.n_active
      /\ t.destroys = s.destroys /\ t.map = s.map
    BY <1>1, <1>2, ChanFields
<1>4. CircuitsOK(t)
    BY ONLY <1>1, <1>3, Frame, SMTT(30)
<1>5. /\ Alive(s) /\ ~s.pending /\ x \in {"IDLE", "WAITING_FOR_CELLS", "WAITING_TO_WRITE"}
      /\ Open(s) => /\ x \in {"IDLE", "WAITING_FOR_CELLS"} => s.n_cells = 0
                    /\ x \in {"IDLE", "WAITING_TO_WRITE"} => s.outbuf > 0
    OBVIOUS
<1>6. SchedOK(t)
    BY ONLY <1>3, <1>5, SMTT(30) DEF SchedOK, Open, Alive
<1>7. Fits(t, FALSE)
    BY ONLY <1>3, <1>5, SMTT(30) DEF Fits
<1>8. Alive(t)
    BY ONLY <1>3, <1>5, SMTT(30) DEF Alive
<1> QED
    BY <1>3, <1>4, <1>6, <1>7, <1>8 DEF Sound

\* The loop that flushes ends before its limit only when no cell is left.
LEMMA RanOut ==
    ASSUME CountingLaws, main.flushed \in Nat, main.max \in Nat, FlushDone, main.flushed < main.max,
           NEW s, s = chans[main.chan], Sound(s)
    PROVE  s.n_cells = 0
<1>1. s.n_active = 0
    BY DEF FlushDone
<1> QED
    BY <1>1, NoneActive DEF Sound, CircuitsOK

\* circuitmux_num_cells is zero only when no relay cell is left.
LEMMA CellsLeft ==
    ASSUME CountingLaws, NEW s, Sound(s)
    PROVE  /\ circuitmux_num_cells(s) \in Nat
           /\ ~(circuitmux_num_cells(s) > 0) => s.n_cells = 0
<1>1. s.n_cells \in Nat
    BY NoneActive DEF Sound, CircuitsOK
<1>2. s.destroys \in Seq(Ids)
    BY ChanFields DEF Sound, IdQueue
<1>3. Len(s.destroys) \in Nat
    BY <1>2
<1> QED
    BY <1>1, <1>3 DEF circuitmux_num_cells

\* The channel that a run is serving.
LEMMA Serving ==
    ASSUME IndInv, main.at \in {"flush", "decide"}
    PROVE  /\ InRun /\ TypeOK /\ main.chan \in Chans /\ main.chan \in Held
           /\ main.chan \notin main.readd /\ main.chan \in DOMAIN main.room
           /\ main \in MainType(DOMAIN main.room)
           /\ main.flushed \in Nat /\ main.max \in Nat /\ main.readd \subseteq Chans
           /\ Sound(chans[main.chan]) /\ Alive(chans[main.chan])
           /\ ~chans[main.chan].pending /\ Fits(chans[main.chan], TRUE)
           /\ main.at = "flush" /\ Open(chans[main.chan]) => main.max > 0
<1>1. InRun
    BY DEF InRun
<1>2. /\ TypeOK /\ RunRest
      /\ \A ch \in Chans : Sound(chans[ch]) /\ Fits(chans[ch], ch \in Held)
    BY <1>1, RunFacts
<1>3. main.chan \in Held
    BY DEF Held
<1>4. /\ main.chan \in Chans /\ main.chan \notin main.readd /\ main.chan \in DOMAIN main.room
      /\ (main.at = "flush" /\ Open(chans[main.chan]) => main.max > 0)
    BY <1>2, <1>3 DEF RunRest
<1>5. main \in MainType(DOMAIN main.room)
    BY <1>2 DEF TypeOK
<1>6. main.flushed \in Nat /\ main.max \in Nat /\ main.readd \subseteq Chans
    BY <1>5, MainFields DEF ChanSets
<1>7. (main.chan \in Held) = TRUE
    BY <1>3
<1>8. Sound(chans[main.chan]) /\ Fits(chans[main.chan], TRUE)
    BY <1>2, <1>4, <1>7
<1>9. Alive(chans[main.chan]) /\ ~chans[main.chan].pending
    BY <1>8 DEF Fits, Alive
<1> QED
    BY <1>1, <1>2, <1>3, <1>4, <1>5, <1>6, <1>8, <1>9

\* The run goes on after it has decided about the channel it served.
LEMMA DecideStep ==
    ASSUME IndInv, main.at \in {"flush", "decide"}, NEW again \in BOOLEAN,
           NEW t, Set(main.chan, t), Sound(t), t.circ = chans[main.chan].circ, Alive(t),
           again => Fits(t, TRUE), ~again => Fits(t, FALSE),
           main' \in MainType(DOMAIN main.room), main'.at = "run",
           main'.chan = main.chan, main'.outbufs = main.outbufs,
           main'.readd = IF again THEN main.readd \cup {main.chan} ELSE main.readd,
           UNCHANGED <<run_sched_ev, the_scheduler, high, circuits_pending_close>>
    PROVE  IndInv'
<1> DEFINE ch == main.chan
<1>1. /\ InRun /\ TypeOK /\ ch \in Chans /\ ch \in Held
      /\ ch \notin main.readd /\ ch \in DOMAIN main.room
    BY Serving
<1>2. Held = main.readd \cup {ch}
    BY DEF Held
<1>3. Held' = IF again THEN main.readd \cup {ch} ELSE main.readd
    BY DEF Held
<1>4. InRun'
    BY DEF InRun
<1>5. RunsOn(ch)
    BY <1>1, <1>2, <1>3, <1>4 DEF RunsOn
<1>6. Fits(t, ch \in Held')
  <2>1. CASE again
    <3>1. (ch \in Held') = TRUE
        BY <1>3, <2>1
    <3> QED
        BY <2>1, <3>1
  <2>2. CASE ~again
    <3>1. (ch \in Held') = FALSE
        BY <1>1, <1>3, <2>2
    <3> QED
        BY <2>2, <3>1
  <2> QED
      BY <2>1, <2>2
<1>7. run_sched_ev' \in BOOLEAN
    BY <1>1 DEF TypeOK
<1>8. main'.at # "flush"
    OBVIOUS
<1>9. UNCHANGED <<the_scheduler, high, circuits_pending_close>> /\ Set(ch, t) /\ Sound(t)
      /\ t.circ = chans[ch].circ /\ Alive(t) /\ IndInv
    OBVIOUS
<1> QED
    BY ONLY <1>1, <1>5, <1>6, <1>7, <1>8, <1>9, RunStep, SMTT(30)

\* kist_scheduler_run decides about the channel it has served.
LEMMA KistDecideStep ==
    ASSUME CountingLaws, IndInv, KistDecide PROVE IndInv'
<1> DEFINE ch == main.chan
           s == chans[ch]
           room == main.room[ch] - main.flushed
           stops == main.at = "flush" /\ (~Open(s) \/ main.flushed = 0)
           more == circuitmux_num_cells(s) > 0
           again == ~stops /\ more /\ room = 0
<1>1. /\ main.at \in {"flush", "decide"} /\ (main.at = "flush" => FlushDone)
      /\ main' = [main EXCEPT !.at = "run", !.room[ch] = room,
                              !.readd = IF again THEN @ \cup {ch} ELSE @]
      /\ UNCHANGED <<run_sched_ev, the_scheduler, high, circuits_pending_close>>
    BY DEF KistDecide
<1>2. /\ InRun /\ TypeOK /\ ch \in Chans /\ ch \in DOMAIN main.room
      /\ main \in MainType(DOMAIN main.room)
      /\ main.flushed \in Nat /\ main.max \in Nat /\ main.readd \subseteq Chans
      /\ Sound(s) /\ Alive(s) /\ ~s.pending /\ Fits(s, TRUE)
      /\ (main.at = "flush" /\ Open(s) => main.max > 0)
    BY <1>1, Serving
<1>3. /\ main' \in MainType(DOMAIN main.room) /\ main'.at = "run"
      /\ main'.chan = ch /\ main'.outbufs = main.outbufs
      /\ main'.readd = IF again THEN main.readd \cup {ch} ELSE main.readd
  <2>1. main.room \in Rooms(DOMAIN main.room)
      BY <1>2, MainFields
  <2>2. [main.room EXCEPT ![ch] = room] \in Rooms(DOMAIN main.room)
      BY <1>2, <2>1 DEF Rooms
  <2> DEFINE r == [main.room EXCEPT ![ch] = room]
             rd == IF again THEN main.readd \cup {ch} ELSE main.readd
  <2>3. main' = [main EXCEPT !.at = "run", !.room = r, !.readd = rd]
      BY <1>1, <1>2, MainFields
  <2>4. rd \in ChanSets /\ "run" \in Places
      BY <1>2 DEF ChanSets, Places
  <2> HIDE DEF r, rd
  <2>5. r \in Rooms(DOMAIN main.room)
      BY <2>2 DEF r
  <2>6. /\ main' \in MainType(DOMAIN main.room) /\ main'.at = "run"
        /\ main'.chan = ch /\ main'.outbufs = main.outbufs /\ main'.readd = rd
      BY ONLY <1>2, <2>3, <2>4, <2>5, MainFields, ZenonT(30)
  <2> QED
      BY <2>6 DEF rd
<1>4. \/ stops /\ ~Open(s) /\ Set(ch, [s EXCEPT !.scheduler_state = "IDLE"])
      \/ /\ (stops /\ Open(s)) \/ (~stops /\ ~more)
         /\ Set(ch, [s EXCEPT !.scheduler_state = "WAITING_FOR_CELLS"])
      \/ again /\ chans' = chans
      \/ ~stops /\ more /\ ~again /\ Set(ch, MakePending(s))
    BY DEF KistDecide
<1>5. again \in BOOLEAN
    OBVIOUS
<1>6. CASE stops /\ ~Open(s) /\ Set(ch, [s EXCEPT !.scheduler_state = "IDLE"])
  <2>1. LET t == [s EXCEPT !.scheduler_state = "IDLE"]
        IN Sound(t) /\ Fits(t, FALSE) /\ t.circ = s.circ /\ Alive(t)
      BY <1>2, <1>6, DecidedOK
  <2>2. ~again
      BY <1>6
  <2> HIDE DEF again
  <2> QED
      BY <1>1, <1>3, <1>5, <1>6, <2>1, <2>2, DecideStep
<1>7. CASE /\ (stops /\ Open(s)) \/ (~stops /\ ~more)
           /\ Set(ch, [s EXCEPT !.scheduler_state = "WAITING_FOR_CELLS"])
  <2>1. s.n_cells = 0
    <3>1. CASE stops /\ Open(s)
        BY <1>1, <1>2, <3>1, RanOut
    <3>2. CASE ~more
        BY <1>2, <3>2, CellsLeft
    <3> QED
        BY <1>7, <3>1, <3>2
  <2>2. LET t == [s EXCEPT !.scheduler_state = "WAITING_FOR_CELLS"]
        IN Sound(t) /\ Fits(t, FALSE) /\ t.circ = s.circ /\ Alive(t)
      BY <1>2, <2>1, DecidedOK
  <2>3. ~again
      BY <1>7
  <2> HIDE DEF again
  <2> QED
      BY <1>1, <1>3, <1>5, <1>7, <2>2, <2>3, DecideStep
<1>8. CASE again /\ chans' = chans
  <2>1. Set(ch, s)
      BY <1>2, <1>8 DEF Set, TypeOK
  <2> HIDE DEF again
  <2> QED
      BY <1>1, <1>2, <1>3, <1>5, <1>8, <2>1, DecideStep
<1>9. CASE ~again /\ Set(ch, MakePending(s))
  <2> DEFINE t == MakePending(s)
  <2>1. Sound(t) /\ t.circ = s.circ /\ t.pending /\ t.state = s.state
      BY <1>2, ReaddOK
  <2> HIDE DEF t
  <2>2. Fits(t, FALSE) /\ Alive(t)
      BY <1>2, <2>1 DEF Fits, Alive
  <2>3. Set(ch, t)
      BY <1>9 DEF t
  <2> HIDE DEF again
  <2> QED
      BY <1>1, <1>3, <1>5, <1>9, <2>1, <2>2, <2>3, DecideStep
<1> QED
    BY <1>4, <1>6, <1>7, <1>8, <1>9

\* vanilla_scheduler_run decides about the channel it has served.
LEMMA VanillaDecideStep ==
    ASSUME CountingLaws, IndInv, VanillaDecide PROVE IndInv'
<1> DEFINE ch == main.chan
           s == chans[ch]
           n == channel_num_cells_writeable(s)
           ranOut == main.flushed < main.max
           again == ~ranOut /\ circuitmux_num_cells(s) > 0 /\ n > 0
           x == VanillaState(s, ranOut)
<1>1. /\ main.at = "flush" /\ FlushDone
      /\ main' = [main EXCEPT !.at = "run",
                              !.readd = IF again THEN @ \cup {ch} ELSE @]
      /\ UNCHANGED <<run_sched_ev, the_scheduler, high, circuits_pending_close>>
    BY DEF VanillaDecide
<1>2. /\ InRun /\ TypeOK /\ ch \in Chans
      /\ main \in MainType(DOMAIN main.room)
      /\ main.flushed \in Nat /\ main.max \in Nat /\ main.readd \subseteq Chans
      /\ Sound(s) /\ Alive(s) /\ ~s.pending /\ Fits(s, TRUE)
    BY <1>1, Serving
<1>3. /\ main' \in MainType(DOMAIN main.room) /\ main'.at = "run"
      /\ main'.chan = ch /\ main'.outbufs = main.outbufs
      /\ main'.readd = IF again THEN main.readd \cup {ch} ELSE main.readd
  <2> DEFINE rd == IF again THEN main.readd \cup {ch} ELSE main.readd
  <2>1. main' = [main EXCEPT !.at = "run", !.readd = rd]
      BY <1>1, <1>2, MainFields
  <2>2. rd \in ChanSets /\ "run" \in Places
      BY <1>2 DEF ChanSets, Places
  <2> HIDE DEF rd
  <2>3. /\ main' \in MainType(DOMAIN main.room) /\ main'.at = "run"
        /\ main'.chan = ch /\ main'.outbufs = main.outbufs /\ main'.readd = rd
      BY ONLY <1>2, <2>1, <2>2, MainFields, ZenonT(30)
  <2> QED
      BY <2>3 DEF rd
<1>4. \/ again /\ chans' = chans
      \/ ~again /\ Set(ch, [s EXCEPT !.scheduler_state = x])
    BY DEF VanillaDecide
<1>5. again \in BOOLEAN /\ main.at \in {"flush", "decide"}
    BY <1>1
<1>6. CASE again /\ chans' = chans
  <2>1. Set(ch, s)
      BY <1>2, <1>6 DEF Set, TypeOK
  <2> HIDE DEF again
  <2> QED
      BY <1>1, <1>2, <1>3, <1>5, <1>6, <2>1, DecideStep
<1>7. CASE ~again /\ Set(ch, [s EXCEPT !.scheduler_state = x])
  <2>1. s.outbuf \in Nat /\ high \in HighMarks
      BY <1>2, ChanFields DEF Sound, TypeOK
  <2>2. n \in Nat
      BY <2>1, LimitsInt
  <2>3. Open(s) /\ n = 0 => s.outbuf > 0
      BY <2>1, Writeable
  <2>4. ranOut => s.n_cells = 0
      BY <1>1, <1>2, RanOut
  <2>5. /\ circuitmux_num_cells(s) \in Nat
        /\ ~(circuitmux_num_cells(s) > 0) => s.n_cells = 0
      BY <1>2, CellsLeft
  <2>6. /\ x \in {"IDLE", "WAITING_FOR_CELLS", "WAITING_TO_WRITE"}
        /\ Open(s) => /\ x \in {"IDLE", "WAITING_FOR_CELLS"} => s.n_cells = 0
                      /\ x \in {"IDLE", "WAITING_TO_WRITE"} => s.outbuf > 0
    <3>1. CASE ranOut
      <4>1. x = "WAITING_FOR_CELLS"
          BY <3>1 DEF VanillaState
      <4> QED
          BY <4>1, <2>4, <3>1
    <3>2. CASE ~ranOut /\ circuitmux_num_cells(s) > 0
      <4>1. x = "WAITING_TO_WRITE"
          BY <3>2 DEF VanillaState
      <4>2. n = 0
          BY <1>7, <2>2, <3>2
      <4> QED
          BY <4>1, <4>2, <2>3
    <3>3. CASE ~ranOut /\ circuitmux_num_cells(s) = 0
      <4>1. x = IF n > 0 THEN "WAITING_FOR_CELLS" ELSE "IDLE"
          BY <3>3 DEF VanillaState
      <4>2. s.n_cells = 0
          BY <2>5, <3>3
      <4> QED
          BY <4>1, <4>2, <2>2, <2>3
    <3> QED
        BY <3>1, <3>2, <3>3, <2>5
  <2> DEFINE t == [s EXCEPT !.scheduler_state = x]
  <2> HIDE DEF x
  <2>7. Sound(t) /\ Fits(t, FALSE) /\ t.circ = s.circ /\ Alive(t)
      BY ONLY <1>2, <2>6, DecidedOK, ZenonT(30)
  <2>8. ~again /\ Set(ch, t)
      BY <1>7
  <2> HIDE DEF t, again
  <2> QED
      BY <1>1, <1>3, <1>5, <2>7, <2>8, DecideStep
<1> QED
    BY <1>4, <1>6, <1>7

\* What one iteration of the flush loop does to the channel.
LEMMA FlushCellOK ==
    ASSUME CountingLaws, NEW s, Sound(s), ~(s.destroys = <<>> /\ s.n_active = 0),
           NEW r \in
             IF DestroyTurn(s)
             THEN {[chan |-> t, n |-> IF Open(s) THEN 1 ELSE 0]
                     : t \in FlushDestroy(s)}
             ELSE UNION {{[chan |-> t,
                           n |-> IF Open(s) /\ s.circ[c].queue > 0 THEN 1 ELSE 0]
                            : t \in FlushRelay(s, c)}
                         : c \in {x \in Circs : s.circ[x].cell_count > 0}}
    PROVE  /\ Flushed(s, r.chan) /\ r.n \in {0, 1}
           /\ Open(s) /\ r.n = 0 => r.chan.state = s.state
<1>1. s \in ChanType /\ CircuitsOK(s) /\ SchedOK(s)
    BY DEF Sound
<1>2. CASE DestroyTurn(s)
  <2>1. PICK t \in FlushDestroy(s) : r = [chan |-> t, n |-> IF Open(s) THEN 1 ELSE 0]
      BY <1>2
  <2>2. r.chan = t /\ r.n = IF Open(s) THEN 1 ELSE 0
      BY ONLY <2>1, SMTT(30)
  <2>3. s.destroys # <<>>
      BY <1>2 DEF DestroyTurn
  <2>4. Flushed(s, t)
      BY ONLY <1>1, <2>1, <2>3, FlushDestroyOK, SMTT(30)
  <2> QED
      BY ONLY <2>2, <2>4, SMTT(30)
<1>3. CASE ~DestroyTurn(s)
  <2>1. PICK c \in Circs : /\ s.circ[c].cell_count > 0
                           /\ \E t \in FlushRelay(s, c) :
                                r = [chan |-> t, n |-> IF Open(s) /\ s.circ[c].queue > 0
                                                       THEN 1 ELSE 0]
      BY <1>3
  <2>2. PICK t \in FlushRelay(s, c) :
               r = [chan |-> t, n |-> IF Open(s) /\ s.circ[c].queue > 0 THEN 1 ELSE 0]
      BY ONLY <2>1, SMTT(30)
  <2>3. r.chan = t /\ r.n = IF Open(s) /\ s.circ[c].queue > 0 THEN 1 ELSE 0
      BY ONLY <2>2, SMTT(30)
  <2>4. Flushed(s, t) /\ (s.circ[c].queue = 0 => t.state = s.state)
      BY ONLY CountingLaws, <1>1, <2>1, <2>2, FlushRelayOK, SMTT(30)
  <2>5. s.circ[c].queue \in Nat
      BY <1>1 DEF ChanType, CircType
  <2> QED
      BY ONLY <2>3, <2>4, <2>5, SMTT(30)
<1> QED
    BY <1>2, <1>3

\* Flushing a cell inside a run.
LEMMA FlushedFits ==
    ASSUME NEW s, NEW t, NEW held \in BOOLEAN, Fits(s, held), Flushed(s, t)
    PROVE  /\ Fits(t, held) /\ Sound(t) /\ (Alive(s) => Alive(t)) /\ (Open(t) => Open(s))
           /\ t.pending => s.pending
BY DEF Fits, Flushed, Sound, Alive, Open

\* Priming the outbuf of a victim's channel marks no circuit: one that is active
\* with an empty queue on an open channel is marked already.
LEMMA PrimeMarksNone ==
    ASSUME CountingLaws, IndInv, FlushCell, main.at = "prime" PROVE Marked' = Marked
<1> DEFINE ch == main.chan
           s == chans[ch]
<1>1. ~FlushDone
    BY DEF FlushCell
<1>2. PICK r \in
             IF DestroyTurn(s)
             THEN {[chan |-> t, n |-> IF Open(s) THEN 1 ELSE 0]
                     : t \in FlushDestroy(s)}
             ELSE UNION {{[chan |-> t,
                           n |-> IF Open(s) /\ s.circ[c].queue > 0 THEN 1 ELSE 0]
                            : t \in FlushRelay(s, c)}
                         : c \in {x \in Circs : s.circ[x].cell_count > 0}} :
        Set(ch, r.chan)
    BY DEF FlushCell
<1>3. TypeOK /\ CloseInv /\ \A x \in Chans : Sound(chans[x])
    BY Parts
<1>4. ch \in Chans /\ main.max = 1 /\ (main.flushed = 0 => Open(s))
    BY <1>3 DEF CloseInv, Walking, Marked
<1>5. ~(s.destroys = <<>> /\ s.n_active = 0) /\ ~(main.flushed >= main.max)
    BY <1>1 DEF FlushDone
<1> DEFINE t == r.chan
<1>6. Flushed(s, t)
    BY <1>2, <1>3, <1>4, <1>5, FlushCellOK
<1>7. main.flushed \in Nat
    BY <1>3, MainFields DEF TypeOK
<1>8. Open(s)
    BY <1>4, <1>5, <1>7
<1>9. \A c \in Circs : t.circ[c].marked = s.circ[c].marked
    BY <1>6, <1>8 DEF Flushed
<1> HIDE DEF t
<1>10. Set(ch, t)
    BY <1>2 DEF t
<1>11. chans'[ch] = t /\ \A x \in Chans \ {ch} : chans'[x] = chans[x]
    BY <1>3, <1>4, <1>10 DEF TypeOK, Set
<1>12. \A y \in Chans, c \in Circs : chans'[y].circ[c].marked = chans[y].circ[c].marked
    BY <1>9, <1>11
<1> QED
    BY <1>12 DEF Marked

\* An iteration of the flush loop, in a run or to prime an outbuf.
LEMMA FlushCellStep ==
    ASSUME CountingLaws, IndInv, FlushCell PROVE IndInv'
<1> DEFINE ch == main.chan
           s == chans[ch]
<1>1. /\ main.at \in {"flush", "prime", "refuse"} /\ ~FlushDone /\ NoteMarked
      /\ UNCHANGED <<run_sched_ev, the_scheduler, high>>
    BY DEF FlushCell, InFlush
<1>2. PICK r \in
             IF DestroyTurn(s)
             THEN {[chan |-> t, n |-> IF Open(s) THEN 1 ELSE 0]
                     : t \in FlushDestroy(s)}
             ELSE UNION {{[chan |-> t,
                           n |-> IF Open(s) /\ s.circ[c].queue > 0 THEN 1 ELSE 0]
                            : t \in FlushRelay(s, c)}
                         : c \in {x \in Circs : s.circ[x].cell_count > 0}} :
        Set(ch, r.chan) /\ main' = [main EXCEPT !.flushed = @ + r.n]
    BY DEF FlushCell
<1>3. TypeOK /\ RunInv /\ CloseInv /\ \A x \in Chans : Sound(chans[x])
    BY Parts
<1>4. ch \in Chans
  <2>1. CASE main.at = "flush"
      BY <1>3, <2>1 DEF RunInv, Held
  <2>2. CASE main.at = "prime"
      BY <1>3, <2>2 DEF CloseInv, Walking, Marked
  <2>3. CASE main.at = "refuse"
      BY <1>3, <2>3 DEF CloseInv
  <2> QED
      BY <1>1, <2>1, <2>2, <2>3
<1>5. ~(s.destroys = <<>> /\ s.n_active = 0) /\ ~(main.flushed >= main.max)
    BY <1>1 DEF FlushDone
<1> DEFINE t == r.chan
<1>6. /\ Flushed(s, t) /\ r.n \in {0, 1} /\ (Open(s) /\ r.n = 0 => t.state = s.state)
    BY <1>2, <1>3, <1>4, <1>5, FlushCellOK
<1>7. main \in MainType(DOMAIN main.room)
    BY <1>3 DEF TypeOK
<1>a. main.flushed \in Nat /\ main.max \in Nat
    BY <1>7, MainFields
<1>8. /\ main' \in MainType(DOMAIN main.room) /\ main'.flushed = main.flushed + r.n
      /\ main'.at = main.at /\ main'.chan = ch /\ main'.max = main.max
      /\ main'.circ = main.circ /\ main'.room = main.room
      /\ main'.outbufs = main.outbufs /\ main'.readd = main.readd
      /\ main'.victims = main.victims
  <2>1. main.flushed + r.n \in Nat
      BY <1>a, <1>6
  <2>2. main' = [main EXCEPT !.flushed = @ + r.n]
      BY <1>2
  <2> QED
      BY ONLY <1>7, <2>1, <2>2, MainFields, ZenonT(30)
<1> HIDE DEF t
<1>9. Set(ch, t)
    BY <1>2 DEF t
<1>10. chans'[ch] = t /\ \A x \in Chans \ {ch} : chans'[x] = chans[x]
    BY <1>3, <1>4, <1>9 DEF TypeOK, Set
<1>11. Sound(t)
    BY <1>6 DEF Flushed, Sound
<1>12. chans' \in [Chans -> ChanType]
  <2>1. chans \in [Chans -> ChanType] /\ t \in ChanType
      BY <1>3, <1>11 DEF TypeOK, Sound
  <2> QED
      BY <2>1, <1>9 DEF Set
<1>13. \A y \in Chans, c \in Circs :
          /\ chans[y].circ[c].marked => chans'[y].circ[c].marked
          /\ chans'[y].circ[c].delete_pending => chans[y].circ[c].delete_pending
    BY <1>6, <1>10 DEF Flushed
<1>14. circuits_pending_close' \subseteq Chans \X Circs
    BY <1>1, <1>3 DEF NoteMarked, TypeOK
<1>15. TypeOK'
    BY <1>1, <1>3, <1>8, <1>12, <1>14 DEF TypeOK
<1>16. Held' = Held
    BY <1>8 DEF Held
<1>17. \A x \in Chans : Sound(chans'[x])
    BY <1>3, <1>10, <1>11
<1>18. CASE main.at = "flush"
  <2>1. InRun /\ InRun'
      BY <1>8, <1>18 DEF InRun
  <2>2. /\ circuits_pending_close \subseteq Marked /\ RunRest /\ NoneDeleted
        /\ \A x \in Chans : Fits(chans[x], x \in Held)
      BY <2>1, RunFacts
  <2>3. (circuits_pending_close \subseteq Marked)'
      BY <1>1, <1>13, <2>2, MarksNoted
  <2>4. NoneDeleted'
      BY <1>13, <2>2 DEF NoneDeleted
  <2>5. (ch \in Held) \in BOOLEAN /\ Fits(s, ch \in Held)
      BY <1>4, <2>2
  <2>6. /\ Fits(t, ch \in Held) /\ (Alive(s) => Alive(t)) /\ (Open(t) => Open(s))
        /\ (t.pending => s.pending)
      BY ONLY <1>6, <2>5, FlushedFits, ZenonT(30)
  <2>7. \A x \in Chans : Fits(chans'[x], x \in Held')
      BY <1>10, <1>16, <2>2, <2>6
  <2>8. RunRest'
    <3>1. ASSUME NEW x \in main'.outbufs PROVE chans'[x].state \in {"OPEN", "CLOSING"}
      <4>1. x \in Chans /\ x \in main.outbufs
          BY <1>7, <1>8, <3>1, MainFields DEF ChanSets
      <4> QED
          BY <1>10, <2>2, <2>6, <4>1 DEF RunRest, Alive
    <3>2. \A x \in Chans : chans'[x].pending => chans[x].pending
        BY <1>10, <2>6
    <3>3. Open(chans'[ch]) => Open(s)
        BY <1>10, <2>6
    <3> QED
        BY <1>8, <1>16, <2>2, <3>1, <3>2, <3>3 DEF RunRest
  <2> QED
      BY <1>15, <1>17, <2>1, <2>3, <2>4, <2>7, <2>8, RunBuilt
<1>19. CASE main.at \in {"prime", "refuse"}
  <2>1. ASSUME main.at = "prime" PROVE CloseInv'
    <3>1. Marked' = Marked
        BY <2>1, PrimeMarksNone
    <3>2. /\ main.victims \subseteq Marked
          /\ <<ch, main.circ>> \in main.victims /\ main.max = 1
          /\ (main.flushed = 0 => Open(s))
          /\ \A x \in Chans, c \in Circs :
               chans[x].circ[c].delete_pending => ch = x /\ main.circ = c
        BY <1>3, <2>1 DEF CloseInv, Walking
    <3>3. main.flushed = 0 /\ Open(s)
        BY <1>5, <1>a, <3>2
    <3>4. main'.flushed = 0 => Open(chans'[main'.chan])
        BY <1>6, <1>8, <1>10, <3>3 DEF Open
    <3>5. main'.victims \subseteq Marked' /\ <<main'.chan, main'.circ>> \in main'.victims
          /\ main'.max = 1 /\ main'.at = "prime"
        BY <1>8, <2>1, <3>1, <3>2
    <3>6. \A x \in Chans, c \in Circs :
            chans'[x].circ[c].delete_pending => main'.chan = x /\ main'.circ = c
        BY <1>8, <1>13, <3>2
    <3> QED
        BY <3>4, <3>5, <3>6 DEF CloseInv, Walking
  <2>2. ASSUME main.at = "refuse" PROVE CloseInv'
    <3>1. circuits_pending_close \subseteq Marked /\ NoneDeleted
        BY <1>3, <2>2 DEF CloseInv, Walking, NoneDeleted
    <3>2. circuits_pending_close' \subseteq Marked'
        BY <1>1, <1>13, <3>1, MarksNoted
    <3>3. NoneDeleted' /\ main'.at = "refuse" /\ main'.chan \in Chans
        BY <1>4, <1>8, <1>13, <2>2, <3>1 DEF NoneDeleted
    <3> QED
        BY <3>2, <3>3 DEF CloseInv, Walking, NoneDeleted
  <2>6. CloseInv'
      BY <1>19, <2>1, <2>2
  <2>7. /\ main.readd = {} /\ main.outbufs = {} /\ Held = {}
        /\ \A x \in Chans : /\ chans[x].pending => run_sched_ev
                            /\ chans[x].scheduler_state = "PENDING" => chans[x].pending
      BY <1>3, <1>19 DEF RunInv, Held
  <2>8. /\ t.pending => s.pending
        /\ t.scheduler_state = "PENDING" => t.pending
      BY <1>6, <1>4, <2>7 DEF Flushed
  <2>9. \A x \in Chans : /\ chans'[x].pending => run_sched_ev'
                         /\ chans'[x].scheduler_state = "PENDING" => chans'[x].pending
      BY <1>1, <1>4, <1>10, <2>7, <2>8
  <2>10. RunInv'
      BY <1>8, <1>16, <1>19, <2>7, <2>9 DEF RunInv
  <2> QED
      BY <1>15, <1>17, <2>6, <2>10, Built
<1> QED
    BY <1>1, <1>18, <1>19

-----------------------------------------------------------------------------
(* Closing the marked circuits. *)

\* The invariant while circuit_close_all_marked runs ...
LEMMA ClosingFacts ==
    ASSUME IndInv, Walking
    PROVE  /\ TypeOK /\ main.victims \subseteq Marked
           /\ main.readd = {} /\ main.outbufs = {}
           /\ \A ch \in Chans :
                /\ Sound(chans[ch]) /\ (chans[ch].pending => run_sched_ev)
                /\ (chans[ch].scheduler_state = "PENDING" => chans[ch].pending)
           /\ main.at # "prime" => NoneDeleted
<1>1. TypeOK /\ RunInv /\ CloseInv /\ \A ch \in Chans : Sound(chans[ch])
    BY Parts
<1>2. main.victims \subseteq Marked
    BY <1>1 DEF CloseInv
<1>3. main.readd = {} /\ main.outbufs = {}
    BY <1>1 DEF RunInv, Walking
<1>4. Held = {}
    BY <1>3 DEF Held, Walking
<1>5. \A ch \in Chans : /\ chans[ch].pending => run_sched_ev
                        /\ chans[ch].scheduler_state = "PENDING" => chans[ch].pending
    BY <1>1, <1>4 DEF RunInv, Walking
<1>6. main.at # "prime" => NoneDeleted
    BY <1>1 DEF CloseInv, NoneDeleted
<1> QED
    BY <1>1, <1>2, <1>3, <1>5, <1>6

\* ... and a step of it that touches one channel.
LEMMA ClosingStep ==
    ASSUME IndInv, Walking, NEW ch \in Chans, NEW t, Set(ch, t),
           Sound(t), t.pending = chans[ch].pending,
           t.scheduler_state = chans[ch].scheduler_state,
           main' \in MainType(DOMAIN main.room), main'.at \in {"closing", "prime"},
           main'.readd = main.readd, main'.outbufs = main.outbufs, CloseInv',
           UNCHANGED <<circuits_pending_close, run_sched_ev, the_scheduler, high>>
    PROVE  IndInv'
<1>1. /\ TypeOK /\ main.readd = {} /\ main.outbufs = {}
      /\ \A x \in Chans :
           /\ Sound(chans[x]) /\ (chans[x].pending => run_sched_ev)
           /\ (chans[x].scheduler_state = "PENDING" => chans[x].pending)
    BY ClosingFacts
<1>2. chans'[ch] = t /\ \A x \in Chans \ {ch} : chans'[x] = chans[x]
    BY <1>1 DEF TypeOK, Set
<1>3. chans' \in [Chans -> ChanType]
  <2>1. chans \in [Chans -> ChanType] /\ t \in ChanType
      BY <1>1 DEF TypeOK, Sound
  <2> QED
      BY <2>1 DEF Set
<1>4. DOMAIN main'.room = DOMAIN main.room
    BY MainFields DEF Rooms
<1>5. TypeOK'
    BY <1>1, <1>3, <1>4 DEF TypeOK
<1>6. \A x \in Chans :
        /\ Sound(chans'[x]) /\ (chans'[x].pending => run_sched_ev')
        /\ (chans'[x].scheduler_state = "PENDING" => chans'[x].pending)
    BY <1>1, <1>2
<1>7. Held' = {}
    BY <1>1 DEF Held
<1>8. RunInv'
    BY <1>1, <1>6, <1>7 DEF RunInv
<1> QED
    BY <1>5, <1>6, <1>8, Built

\* circuit_close_all_marked begins with all that are marked.
LEMMA CloseAllMarkedStep ==
    ASSUME IndInv, CloseAllMarked PROVE IndInv'
<1>1. /\ main.at = "loop" /\ chans' = chans
      /\ main' = [main EXCEPT !.at = "closing", !.victims = circuits_pending_close]
      /\ UNCHANGED <<circuits_pending_close, run_sched_ev, the_scheduler, high>>
    BY DEF CloseAllMarked
<1>2. /\ TypeOK /\ main.readd = {} /\ main.outbufs = {} /\ main.chan = 0
      /\ circuits_pending_close \subseteq Marked
      /\ \A ch \in Chans : /\ Sound(chans[ch]) /\ Settled(chans[ch])
                           /\ chans[ch].pending => run_sched_ev
    BY <1>1, LoopFacts
<1>3. main \in MainType(DOMAIN main.room)
    BY <1>2 DEF TypeOK
<1>4. /\ main' \in MainType(DOMAIN main.room) /\ main'.at = "closing"
      /\ main'.victims = circuits_pending_close /\ main'.room = main.room
      /\ main'.readd = {} /\ main'.outbufs = {}
  <2>1. "closing" \in Places /\ circuits_pending_close \in Victims
      BY <1>2 DEF Places, Victims, TypeOK
  <2> QED
      BY ONLY <1>1, <1>2, <1>3, <2>1, MainFields, ZenonT(30)
<1>5. TypeOK'
    BY <1>1, <1>2, <1>4 DEF TypeOK
<1>6. Held' = {}
    BY <1>4 DEF Held
<1>7. RunInv'
    BY <1>1, <1>2, <1>4, <1>6 DEF RunInv, Settled
<1>8. Marked' = Marked
    BY <1>1 DEF Marked
<1>9. CloseInv'
    BY <1>1, <1>2, <1>4, <1>8 DEF CloseInv, Settled, Walking
<1> QED
    BY <1>1, <1>2, <1>5, <1>7, <1>9, Built

\* When it clears its list, nobody on it is left.
LEMMA CloseAllEndsStep ==
    ASSUME IndInv, CloseAllEnds PROVE IndInv'
<1>1. /\ main.at = "closing" /\ main.victims = {} /\ chans' = chans /\ main' = AtLoop
      /\ circuits_pending_close' = {} /\ UNCHANGED <<run_sched_ev, the_scheduler, high>>
    BY DEF CloseAllEnds
<1>2. /\ TypeOK /\ NoneDeleted
      /\ \A ch \in Chans :
           /\ Sound(chans[ch]) /\ (chans[ch].pending => run_sched_ev)
           /\ (chans[ch].scheduler_state = "PENDING" => chans[ch].pending)
    BY <1>1, ClosingFacts DEF Walking
<1>3. /\ main'.at = "loop" /\ main'.readd = {} /\ main'.outbufs = {} /\ main'.chan = 0
      /\ DOMAIN main'.room = {} /\ main' \in MainType({})
  <2>1. AtLoop.room = [ch \in {} |-> 0] /\ [ch \in {} |-> 0] \in [{} -> Int]
      BY DEF AtLoop
  <2>2. AtLoop \in MainType({})
      BY <2>1 DEF AtLoop, MainType
  <2> QED
      BY <1>1, <2>1, <2>2 DEF AtLoop
<1>4. Held' = {}
    BY <1>3 DEF Held
<1>5. TypeOK'
    BY <1>1, <1>2, <1>3 DEF TypeOK
<1>6. RunInv'
    BY <1>1, <1>2, <1>3, <1>4 DEF RunInv
<1>7. Marked' = Marked
    BY <1>1 DEF Marked
<1>8. CloseInv'
    BY <1>1, <1>2, <1>3, <1>7 DEF CloseInv, NoneDeleted, Walking
<1> QED
    BY <1>1, <1>2, <1>5, <1>6, <1>8, Built

\* Circuit c of channel s has left it.
Departed(s, t, c) ==
  /\ Sound(t) /\ t.pending = s.pending /\ t.scheduler_state = s.scheduler_state
  /\ ~t.circ[c].marked /\ ~t.circ[c].delete_pending
  /\ \A x \in Circs \ {c} : t.circ[x] = s.circ[x]

\* The circuit leaves its channel, with or without a DESTROY of ours queued.
LEMMA LeavesOK ==
    ASSUME CountingLaws, NEW s, Sound(s), NEW c \in Circs, s.circ[c].id # 0, NEW t, t = LeaveChannel(s, c)
    PROVE  Departed(s, t, c)
<1>1. s \in ChanType /\ CircuitsOK(s) /\ SchedOK(s)
    BY DEF Sound
<1>2. /\ t \in ChanType /\ CircuitsOK(t)
      /\ t.state = s.state /\ t.outbuf = s.outbuf /\ (s.n_cells = 0 => t.n_cells = 0)
      /\ t.scheduler_state = s.scheduler_state /\ t.pending = s.pending
      /\ t.circ[c] = NoCirc /\ \A x \in Circs \ {c} : t.circ[x] = s.circ[x]
    BY <1>1, LeavesChannel
<1>3. SchedOK(t)
    BY ONLY <1>1, <1>2, SMTT(30) DEF SchedOK, Open
<1>4. ~NoCirc.marked /\ ~NoCirc.delete_pending
    BY DEF NoCirc
<1>5. Sound(t)
    BY ONLY <1>2, <1>3, SMTT(30) DEF Sound
<1>6. ~t.circ[c].marked /\ ~t.circ[c].delete_pending
    BY ONLY <1>2, <1>4, SMTT(30)
<1> QED
    BY ONLY <1>2, <1>5, <1>6, SMTT(30) DEF Departed

\* One victim is done with.
LEMMA VictimGone ==
    ASSUME TypeOK, NEW ch \in Chans, NEW c \in Circs, NEW t, Set(ch, t),
           ~t.circ[c].marked, \A x \in Circs \ {c} : t.circ[x].marked = chans[ch].circ[x].marked
    PROVE  Marked' = Marked \ {<<ch, c>>}
<1>1. chans'[ch] = t /\ \A x \in Chans \ {ch} : chans'[x] = chans[x]
    BY DEF TypeOK, Set
<1>2. ASSUME NEW y \in Chans, NEW x \in Circs
      PROVE  chans'[y].circ[x].marked <=> chans[y].circ[x].marked /\ <<y, x>> # <<ch, c>>
    BY <1>1
<1>3. \A p \in Chans \X Circs : p \in Marked' <=> p \in Marked /\ p # <<ch, c>>
    BY <1>2 DEF Marked
<1> QED
    BY <1>3 DEF Marked

\* The victim whose DESTROY has primed the outbuf leaves its channel.
LEMMA PrimeEndsStep ==
    ASSUME CountingLaws, IndInv, PrimeEnds PROVE IndInv' /\ Marked' \subseteq Marked
<1> DEFINE ch == main.chan
           c == main.circ
           s == chans[ch]
           t == LeaveChannel(s, c)
<1>1. /\ main.at = "prime" /\ Set(ch, t)
      /\ main' = [main EXCEPT !.at = "closing", !.victims = @ \ {<<ch, c>>}]
      /\ UNCHANGED <<circuits_pending_close, run_sched_ev, the_scheduler, high>>
    BY DEF PrimeEnds
<1>2. /\ TypeOK /\ main.victims \subseteq Marked
      /\ \A x \in Chans : Sound(chans[x])
    BY <1>1, ClosingFacts DEF Walking
<1>3. /\ <<ch, c>> \in main.victims
      /\ \A x \in Chans, y \in Circs :
           chans[x].circ[y].delete_pending => ch = x /\ c = y
    BY <1>1 DEF IndInv, CloseInv
<1>4. ch \in Chans /\ c \in Circs /\ s.circ[c].marked
    BY <1>2, <1>3 DEF Marked
<1>5. s.circ[c].id # 0
    BY <1>2, <1>4, OffChannel DEF Sound, CircuitsOK
<1>6. /\ Sound(t) /\ t.pending = s.pending /\ t.scheduler_state = s.scheduler_state
      /\ ~t.circ[c].marked /\ ~t.circ[c].delete_pending
      /\ \A x \in Circs \ {c} : t.circ[x] = s.circ[x]
  <2>1. t = LeaveChannel(s, c) /\ Sound(s)
      BY <1>2, <1>4
  <2> HIDE DEF ch, c, s, t
  <2>2. Departed(s, t, c)
      BY ONLY CountingLaws, <1>4, <1>5, <2>1, LeavesOK, ZenonT(30)
  <2> QED
      BY ONLY <2>2, SMTT(30) DEF Departed
<1> HIDE DEF t
<1>7. main \in MainType(DOMAIN main.room)
    BY <1>2 DEF TypeOK
<1>8. /\ main' \in MainType(DOMAIN main.room) /\ main'.at = "closing"
      /\ main'.victims = main.victims \ {<<ch, c>>}
      /\ main'.readd = main.readd /\ main'.outbufs = main.outbufs
  <2>1. "closing" \in Places /\ main.victims \ {<<ch, c>>} \in Victims
      BY <1>7, MainFields DEF Places, Victims
  <2> QED
      BY ONLY <1>1, <1>7, <2>1, MainFields, ZenonT(30)
<1>9. Marked' = Marked \ {<<ch, c>>}
    BY <1>1, <1>2, <1>4, <1>6, VictimGone
<1>10. \A x \in Chans, y \in Circs : ~chans'[x].circ[y].delete_pending
  <2>1. chans'[ch] = t /\ \A x \in Chans \ {ch} : chans'[x] = chans[x]
      BY <1>1, <1>2, <1>4 DEF TypeOK, Set
  <2> QED
      BY <2>1, <1>3, <1>4, <1>6
<1>11. CloseInv'
    BY <1>1, <1>2, <1>8, <1>9, <1>10 DEF CloseInv, Walking
<1> QED
    BY <1>1, <1>4, <1>6, <1>8, <1>9, <1>11, ClosingStep DEF Walking

\* The queue of a victim is emptied.
EmptyQueue(s, c) == circuitmux_set_num_cells([s EXCEPT !.circ[c].queue = 0], c, 0)

\* The queue of circuit c of channel s has been emptied.
QueueEmptied(s, e, c) ==
  /\ Sound(e) /\ e.state = s.state /\ e.pending = s.pending
  /\ e.scheduler_state = s.scheduler_state
  /\ e.circ[c].id = s.circ[c].id /\ e.circ[c].marked
  /\ e.circ[c].delete_pending = s.circ[c].delete_pending
  /\ \A x \in Circs \ {c} : e.circ[x] = s.circ[x]

\* Its channel stays in order.
LEMMA EmptiesQueue ==
    ASSUME CountingLaws, NEW s, Sound(s), NEW c \in Circs, s.circ[c].id # 0, s.circ[c].marked,
           NEW e, e = EmptyQueue(s, c)
    PROVE  QueueEmptied(s, e, c)
<1>1. s \in ChanType
    BY DEF Sound
<1>2. [s EXCEPT !.circ[c].queue = 0] = Put(s, c, ClearedRec(s.circ[c]))
    BY <1>1 DEF Put, ClearedRec
<1>3. e = circuitmux_set_num_cells(Put(s, c, ClearedRec(s.circ[c])), c, 0)
    BY <1>2 DEF EmptyQueue
<1>4. Sound(s) /\ c \in Circs /\ s.circ[c].id # 0 /\ s.circ[c].marked
    OBVIOUS
<1>5. /\ Sound(e) /\ Beside(s, e, c) /\ Stays(s.circ[c], e.circ[c])
      /\ e.circ[c].marked
    BY ONLY CountingLaws, <1>3, <1>4, ClearQueue, SMTT(30)
<1> QED
    BY ONLY <1>5, SMTT(30) DEF QueueEmptied, Beside, Stays

\* Its DESTROY is queued.
SendsDestroy(e, c, id) ==
  [e EXCEPT !.circ[c].delete_pending = TRUE, !.destroys = Append(@, id)]

\* The DESTROY of circuit c of the open channel e has been queued.
DestroyQueued(e, t, c) ==
  /\ Sound(t) /\ Open(t) /\ t.pending = e.pending
  /\ t.scheduler_state = e.scheduler_state
  /\ t.circ[c].id # 0 /\ t.circ[c].marked
  /\ \A x \in Circs \ {c} : t.circ[x] = e.circ[x]

\* The id of the victim waits for the DESTROY.
LEMMA SendsOK ==
    ASSUME NEW e, Sound(e), Open(e), NEW c \in Circs, e.circ[c].id # 0, e.circ[c].marked,
           ~e.circ[c].delete_pending, NEW id, id = e.circ[c].id,
           NEW t, t = SendsDestroy(e, c, id)
    PROVE  DestroyQueued(e, t, c)
<1>1. e \in ChanType
    BY DEF Sound
<1>2. PICK u : /\ u = Put(e, c, SendDestroyRec(e.circ[c]))
               /\ t = QueueDestroy(u, e.circ[c].id)
    BY <1>1 DEF SendsDestroy, QueueDestroy, Put, SendDestroyRec
<1>3. /\ Sound(e) /\ Open(e) /\ c \in Circs /\ e.circ[c].id # 0
      /\ ~e.circ[c].delete_pending
    OBVIOUS
<1>5. e.circ[c].marked
    OBVIOUS
<1>4. /\ Sound(t) /\ t.state = e.state /\ t.scheduler_state = e.scheduler_state
      /\ t.pending = e.pending
      /\ \A x \in Circs \ {c} : t.circ[x] = e.circ[x]
      /\ t.circ[c].id = e.circ[c].id /\ t.circ[c].marked = e.circ[c].marked
  <2>1. DestroySent(e, t, c)
      BY ONLY <1>2, <1>3, SendDestroy, ZenonT(30)
  <2> QED
      BY ONLY <2>1, SMTT(30) DEF DestroySent
<1> QED
    BY ONLY <1>3, <1>4, <1>5, SMTT(30) DEF DestroyQueued, Open

\* A victim leaves its channel at once ...
LEMMA FreeVictim ==
    ASSUME CountingLaws, IndInv, main.at \in {"closing", "failed"}, NEW ch \in Chans, NEW c \in Circs,
           NEW u, Sound(u), u.circ[c].id # 0, u.pending = chans[ch].pending,
           u.scheduler_state = chans[ch].scheduler_state,
           \A x \in Circs \ {c} : u.circ[x] = chans[ch].circ[x],
           Set(ch, LeaveChannel(u, c)),
           main' = [main EXCEPT !.at = "closing", !.victims = @ \ {<<ch, c>>}],
           UNCHANGED <<circuits_pending_close, run_sched_ev, the_scheduler, high>>
    PROVE  IndInv' /\ Marked' \subseteq Marked
<1> DEFINE t == LeaveChannel(u, c)
<1>1. /\ Sound(t) /\ t.pending = u.pending /\ t.scheduler_state = u.scheduler_state
      /\ ~t.circ[c].marked /\ ~t.circ[c].delete_pending
      /\ \A x \in Circs \ {c} : t.circ[x] = u.circ[x]
  <2>1. Departed(u, t, c)
      BY LeavesOK
  <2> QED
      BY ONLY <2>1, SMTT(30) DEF Departed
<1> HIDE DEF t
<1>2. /\ TypeOK /\ main.victims \subseteq Marked
      /\ NoneDeleted
    BY ClosingFacts DEF Walking
<1>3. main \in MainType(DOMAIN main.room)
    BY <1>2 DEF TypeOK
<1>4. /\ main' \in MainType(DOMAIN main.room) /\ main'.at = "closing"
      /\ main'.victims = main.victims \ {<<ch, c>>}
      /\ main'.readd = main.readd /\ main'.outbufs = main.outbufs
  <2>1. main.victims \ {<<ch, c>>} \in Victims /\ "closing" \in Places
      BY <1>3, MainFields DEF Victims, Places
  <2>2. main' = [main EXCEPT !.at = "closing", !.victims = @ \ {<<ch, c>>}]
      OBVIOUS
  <2> QED
      BY ONLY <1>3, <2>1, <2>2, MainFields, ZenonT(30)
<1>5. Set(ch, t) /\ \A x \in Circs \ {c} : t.circ[x] = chans[ch].circ[x]
    BY <1>1 DEF t
<1>6. Marked' = Marked \ {<<ch, c>>}
    BY <1>1, <1>2, <1>5, VictimGone
<1>7. \A x \in Chans, y \in Circs : ~chans'[x].circ[y].delete_pending
  <2>1. chans'[ch] = t /\ \A x \in Chans \ {ch} : chans'[x] = chans[x]
      BY <1>2, <1>5 DEF TypeOK, Set
  <2> QED
      BY <2>1, <1>1, <1>2, <1>5 DEF NoneDeleted
<1>8. CloseInv'
    BY <1>2, <1>4, <1>6, <1>7 DEF CloseInv, Walking
<1>9. t.pending = chans[ch].pending /\ t.scheduler_state = chans[ch].scheduler_state
    BY <1>1
<1> QED
    BY <1>1, <1>4, <1>5, <1>6, <1>8, <1>9, ClosingStep DEF Walking

\* ... or after its DESTROY has primed the outbuf.
LEMMA PrimeVictim ==
    ASSUME IndInv, main.at \in {"closing", "failed"}, NEW ch \in Chans, NEW c \in Circs,
           <<ch, c>> \in main.victims,
           NEW t, Sound(t), Open(t), t.circ[c].marked, t.pending = chans[ch].pending,
           t.scheduler_state = chans[ch].scheduler_state,
           \A x \in Circs \ {c} : t.circ[x] = chans[ch].circ[x], Set(ch, t),
           main' = [FlushSome(main, ch, 1, "prime") EXCEPT !.circ = c],
           UNCHANGED <<circuits_pending_close, run_sched_ev, the_scheduler, high>>
    PROVE  IndInv' /\ Marked' \subseteq Marked
<1>2. /\ TypeOK /\ main.victims \subseteq Marked
      /\ NoneDeleted
    BY ClosingFacts DEF Walking
<1>3. main \in MainType(DOMAIN main.room)
    BY <1>2 DEF TypeOK
<1>4. /\ main' \in MainType(DOMAIN main.room) /\ main'.at = "prime"
      /\ main'.chan = ch /\ main'.circ = c /\ main'.max = 1 /\ main'.flushed = 0
      /\ main'.victims = main.victims
      /\ main'.readd = main.readd /\ main'.outbufs = main.outbufs
  <2>1. "prime" \in Places /\ ch \in ChanIds /\ c \in CircIds /\ 1 \in Nat /\ 0 \in Nat
      BY DEF Places, ChanIds, CircIds
  <2>2. main' = [FlushSome(main, ch, 1, "prime") EXCEPT !.circ = c]
      OBVIOUS
  <2> QED
      BY ONLY <1>3, <2>1, <2>2, MainFields, ZenonT(30) DEF FlushSome
<1>5. chans'[ch] = t /\ \A x \in Chans \ {ch} : chans'[x] = chans[x]
    BY <1>2 DEF TypeOK, Set
<1>6. Marked' = Marked
  <2>1. chans[ch].circ[c].marked
      BY <1>2 DEF Marked
  <2>2. \A y \in Chans, x \in Circs : chans'[y].circ[x].marked <=> chans[y].circ[x].marked
      BY <1>5, <2>1
  <2> QED
      BY <2>2 DEF Marked
<1>7. \A x \in Chans, y \in Circs : chans'[x].circ[y].delete_pending => x = ch /\ y = c
    BY <1>2, <1>5 DEF NoneDeleted
<1>8. CloseInv'
    BY <1>2, <1>4, <1>5, <1>6, <1>7 DEF CloseInv, Walking
<1> QED
    BY <1>4, <1>6, <1>8, ClosingStep DEF Walking

\* circuit_about_to_free keeps the invariant.
LEMMA AboutToFreeStep ==
    ASSUME CountingLaws, IndInv, NEW ch \in Chans, NEW c \in Circs, circuit_about_to_free(ch, c)
    PROVE  IndInv' /\ Marked' \subseteq Marked
<1> DEFINE s == chans[ch]
           e == EmptyQueue(s, c)
           sent == SendsDestroy(e, c, s.circ[c].id)
           m == [main EXCEPT !.at = "closing", !.victims = @ \ {<<ch, c>>}]
<1>1. /\ main.at \in {"closing", "failed"} /\ <<ch, c>> \in main.victims
      /\ UNCHANGED <<circuits_pending_close, run_sched_ev, the_scheduler, high>>
    BY DEF circuit_about_to_free, Freeing
<1>2. \/ Set(ch, LeaveChannel(e, c)) /\ main' = m
      \/ ~Condemned(s) /\ Set(ch, LeaveChannel(sent, c)) /\ main' = m
      \/ /\ ~Condemned(s) /\ Set(ch, sent)
         /\ main' = [FlushSome(main, ch, 1, "prime") EXCEPT !.circ = c]
    BY DEF circuit_about_to_free, EmptyQueue, SendsDestroy
<1>3. main.victims \subseteq Marked /\ Sound(s) /\ NoneDeleted
    BY <1>1, ClosingFacts DEF Walking
<1>4. s.circ[c].marked /\ ~s.circ[c].delete_pending
    BY <1>1, <1>3 DEF Marked, NoneDeleted
<1>5. s.circ[c].id # 0 /\ s.state \in {"OPEN", "CLOSING"}
    BY <1>3, <1>4, OffChannel, OnChannel DEF Sound, CircuitsOK
<1>6. /\ Sound(e) /\ e.state = s.state /\ e.pending = s.pending
      /\ e.scheduler_state = s.scheduler_state
      /\ e.circ[c].id = s.circ[c].id /\ e.circ[c].marked
      /\ e.circ[c].delete_pending = s.circ[c].delete_pending
      /\ \A x \in Circs \ {c} : e.circ[x] = s.circ[x]
  <2>1. e = EmptyQueue(s, c) /\ c \in Circs
      OBVIOUS
  <2> HIDE DEF s, e
  <2>2. QueueEmptied(s, e, c)
      BY ONLY CountingLaws, <1>3, <1>4, <1>5, <2>1, EmptiesQueue, ZenonT(30)
  <2> QED
      BY ONLY <2>2, SMTT(30) DEF QueueEmptied
<1> HIDE DEF e
<1>7. ASSUME ~Condemned(s)
      PROVE  /\ Sound(sent) /\ Open(sent) /\ sent.pending = s.pending
             /\ sent.scheduler_state = s.scheduler_state
             /\ sent.circ[c].id # 0 /\ sent.circ[c].marked
             /\ \A x \in Circs \ {c} : sent.circ[x] = s.circ[x]
  <2>1. Open(e) /\ e.circ[c].id # 0 /\ ~e.circ[c].delete_pending /\ s.circ[c].id = e.circ[c].id
      BY <1>4, <1>5, <1>6, <1>7 DEF Open, Condemned
  <2>2. c \in Circs /\ sent = SendsDestroy(e, c, s.circ[c].id)
      OBVIOUS
  <2> HIDE DEF s, sent
  <2>3. DestroyQueued(e, sent, c)
      BY ONLY <1>6, <2>1, <2>2, SendsOK, ZenonT(30)
  <2> QED
      BY ONLY <1>6, <2>3, SMTT(30) DEF DestroyQueued
<1> HIDE DEF sent
<1>8. CASE Set(ch, LeaveChannel(e, c)) /\ main' = m
    BY <1>1, <1>5, <1>6, <1>8, FreeVictim
<1>9. CASE ~Condemned(s) /\ Set(ch, LeaveChannel(sent, c)) /\ main' = m
    BY <1>1, <1>7, <1>9, FreeVictim
<1>10. CASE /\ ~Condemned(s) /\ Set(ch, sent)
            /\ main' = [FlushSome(main, ch, 1, "prime") EXCEPT !.circ = c]
    BY <1>1, <1>7, <1>10, PrimeVictim
<1> QED
    BY <1>2, <1>8, <1>9, <1>10

\* A circuit is launched, or extended, and has a cell to send.
LEMMA LaunchOK ==
    ASSUME CountingLaws, IndInv, Walking, main.at # "prime",
           NEW d \in Chans, NEW x \in Circs, NEW list \in SUBSET OnSomeChannel,
           \/ /\ chans[d].circ[x].id # 0 /\ ~chans[d].circ[x].marked
              /\ chans' \in Appended(chans, d, x, list)
           \/ \E id \in Ids :
                /\ Open(chans[d]) /\ chans[d].circ[x].id = 0 /\ chans[d].map[id] = Unused
                /\ chans' \in Appended(
                     [chans EXCEPT ![d] = circuit_set_circid_chan(chans[d], x, id)],
                     d, x, list)
    PROVE  chans' \in [Chans -> ChanType] /\ InOrder(chans') /\ MarksStay(chans, chans')
<1>1. /\ TypeOK /\ NoneDeleted
      /\ \A ch \in Chans :
           /\ Sound(chans[ch]) /\ (chans[ch].pending => run_sched_ev)
           /\ (chans[ch].scheduler_state = "PENDING" => chans[ch].pending)
    BY ClosingFacts
<1>2. chans \in [Chans -> ChanType] /\ InOrder(chans)
    BY <1>1 DEF TypeOK, InOrder, Settled, NoneDeleted
<1>3. \A p \in list : p \in Chans \X Circs /\ p[2] \in On(chans[p[1]])
    BY DEF OnSomeChannel
<1>4. CASE /\ chans[d].circ[x].id # 0 /\ ~chans[d].circ[x].marked
           /\ chans' \in Appended(chans, d, x, list)
    BY <1>2, <1>3, <1>4, AppendedOK
<1>5. ASSUME NEW id \in Ids,
             Open(chans[d]), chans[d].circ[x].id = 0, chans[d].map[id] = Unused,
             chans' \in Appended(
               [chans EXCEPT ![d] = circuit_set_circid_chan(chans[d], x, id)], d, x, list)
      PROVE  chans' \in [Chans -> ChanType] /\ InOrder(chans') /\ MarksStay(chans, chans')
  <2> DEFINE t == circuit_set_circid_chan(chans[d], x, id)
             f == [chans EXCEPT ![d] = t]
  <2>1. Sound(chans[d]) /\ Settled(chans[d])
      BY <1>2 DEF InOrder
  <2>2. /\ Sound(t) /\ Settled(t)
        /\ \A y \in Circs : t.circ[y].marked = chans[d].circ[y].marked
      BY <1>5, <2>1, NewCircuitOK
  <2>3. /\ t.circ[x].id # 0
        /\ \A y \in On(chans[d]) : t.circ[y].id # 0
    <3>1. chans[d] \in ChanType /\ 0 \notin Ids
        BY <2>1, ChannelsAssumption DEF Sound
    <3>2. /\ t.circ[x] = [NoCirc EXCEPT !.id = id, !.cell_count = 0]
          /\ \A y \in Circs \ {x} : t.circ[y] = chans[d].circ[y]
        BY <3>1 DEF circuit_set_circid_chan, ChanType
    <3>3. t.circ[x].id = id
        BY <3>2 DEF NoCirc
    <3> QED
        BY <1>5, <3>1, <3>2, <3>3 DEF On
  <2>4. ~t.circ[x].marked
      BY <1>5, <2>1, <2>2, OffChannel DEF Sound, CircuitsOK
  <2>5. t \in ChanType /\ chans' \in Appended(f, d, x, list)
      BY <1>5, <2>2 DEF Sound
  <2> HIDE DEF t
  <2>6. f \in [Chans -> ChanType] /\ f[d] = t /\ \A y \in Chans \ {d} : f[y] = chans[y]
      BY <1>2, <2>5
  <2> HIDE DEF f
  <2>7. InOrder(f) /\ MarksStay(chans, f)
      BY <1>2, <2>2, <2>6 DEF InOrder, MarksStay
  <2>8. \A p \in list : p \in Chans \X Circs /\ p[2] \in On(f[p[1]])
    <3>1. ASSUME NEW p \in list PROVE p \in Chans \X Circs /\ p[2] \in On(f[p[1]])
      <4>1. p \in Chans \X Circs /\ p[1] \in Chans /\ p[2] \in Circs
            /\ p[2] \in On(chans[p[1]])
          BY <1>3
      <4>2. CASE p[1] = d
          BY <4>1, <4>2, <2>3, <2>6 DEF On
      <4>3. CASE p[1] # d
          BY <4>1, <4>3, <2>6 DEF On
      <4> QED
          BY <4>1, <4>2, <4>3
    <3> QED
        BY <3>1
  <2>9. chans' \in [Chans -> ChanType] /\ InOrder(chans') /\ MarksStay(f, chans')
      BY <2>3, <2>4, <2>5, <2>6, <2>7, <2>8, AppendedOK
  <2> QED
      BY <2>7, <2>9 DEF MarksStay
<1> QED
    BY <1>4, <1>5

\* circuit_build_failed keeps the invariant: the victims stay marked.
LEMMA BuildFailedStep ==
    ASSUME CountingLaws, IndInv, NEW ch \in Chans, NEW c \in Circs, circuit_build_failed(ch, c)
    PROVE  IndInv'
<1>1. /\ main.at = "closing" /\ <<ch, c>> \in main.victims /\ schedule /\ NoteMarked
      /\ main' = [main EXCEPT !.at = "failed", !.chan = ch, !.circ = c]
      /\ UNCHANGED <<the_scheduler, high>>
    BY DEF circuit_build_failed
<1>2. Walking /\ main.at # "prime" /\ Own \subseteq Circs
    BY <1>1, ChannelsAssumption DEF Walking
<1>3. chans' \in [Chans -> ChanType] /\ InOrder(chans') /\ MarksStay(chans, chans')
  <2>1. PICK d \in Chans, x \in Own :
          \/ \E id \in Ids :
               /\ Open(chans[d]) /\ chans[d].circ[x].id = 0 /\ chans[d].map[id] = Unused
               /\ chans' \in Appended(
                    [chans EXCEPT ![d] = circuit_set_circid_chan(chans[d], x, id)],
                    d, x, OnSomeChannel \ {<<ch, c>>})
          \/ /\ chans[d].circ[x].id # 0 /\ ~chans[d].circ[x].marked
             /\ chans' \in Appended(chans, d, x, OnSomeChannel \ {<<ch, c>>})
      BY DEF circuit_build_failed
  <2>2. x \in Circs /\ OnSomeChannel \ {<<ch, c>>} \in SUBSET OnSomeChannel
      BY <1>2
  <2> QED
      BY <1>2, <2>1, <2>2, LaunchOK
<1>4. /\ TypeOK /\ main.victims \subseteq Marked /\ main.readd = {} /\ main.outbufs = {}
      /\ \A x \in Chans : chans[x].pending => run_sched_ev
    BY <1>2, ClosingFacts
<1>5. main \in MainType(DOMAIN main.room)
    BY <1>4 DEF TypeOK
<1>6. /\ main' \in MainType(DOMAIN main.room) /\ main'.at = "failed" /\ main'.chan = ch
      /\ main'.circ = c /\ main'.victims = main.victims /\ main'.room = main.room
      /\ main'.readd = main.readd /\ main'.outbufs = main.outbufs
  <2>1. "failed" \in Places /\ ch \in ChanIds /\ c \in CircIds
      BY DEF Places, ChanIds, CircIds
  <2> QED
      BY ONLY <1>1, <1>5, <2>1, MainFields, ZenonT(30)
<1>7. Marked \subseteq Marked'
    BY <1>3 DEF Marked, MarksStay
<1>8. \A x \in Chans :
        /\ Sound(chans'[x]) /\ (chans'[x].pending => run_sched_ev')
        /\ (chans'[x].scheduler_state = "PENDING" => chans'[x].pending)
        /\ \A y \in Circs : ~chans'[x].circ[y].delete_pending
    BY <1>1, <1>3, <1>4 DEF InOrder, Settled, schedule
<1>9. TypeOK'
  <2>1. run_sched_ev' \in BOOLEAN /\ circuits_pending_close' \subseteq Chans \X Circs
      BY <1>1, <1>4 DEF schedule, NoteMarked, TypeOK
  <2> QED
      BY <1>1, <1>3, <1>4, <1>6, <2>1 DEF TypeOK
<1>10. Held' = {}
    BY <1>4, <1>6 DEF Held
<1>11. RunInv'
    BY <1>4, <1>6, <1>8, <1>10 DEF RunInv
<1>12. CloseInv'
    BY <1>1, <1>4, <1>6, <1>7, <1>8 DEF CloseInv, Walking
<1> QED
    BY <1>8, <1>9, <1>11, <1>12, Built

-----------------------------------------------------------------------------
(* Refusing a circuit. *)

\* RefuseCreate keeps the invariant.
LEMMA RefuseStep ==
    ASSUME IndInv, NEW ch \in Chans, NEW id \in Ids, RefuseCreate(ch, id) PROVE IndInv'
<1> DEFINE s == chans[ch]
           t == RefusedId(s, id)
<1>1. /\ main.at = "loop" /\ Open(s) /\ s.map[id] = Unused /\ Set(ch, t)
      /\ main' = IF s.outbuf > 0 THEN main ELSE FlushSome(main, ch, 1, "refuse")
      /\ UNCHANGED <<the_scheduler, high, circuits_pending_close, run_sched_ev>>
    BY DEF RefuseCreate, RefusedId
<1>2. /\ TypeOK /\ main.readd = {} /\ main.outbufs = {} /\ main.chan = 0
      /\ circuits_pending_close \subseteq Marked
      /\ \A x \in Chans : /\ Sound(chans[x]) /\ Settled(chans[x])
                          /\ chans[x].pending => run_sched_ev
    BY <1>1, LoopFacts
<1>3. /\ Sound(t) /\ Settled(t) /\ t.pending = s.pending
      /\ \A x \in Circs : t.circ[x] = s.circ[x]
    BY <1>1, <1>2, RefusedOK
<1> HIDE DEF t
<1>4. circuits_pending_close' \subseteq Marked'
    BY <1>1, <1>2, <1>3, MarksKept
<1>5. CASE main' = main
  <2>1. run_sched_ev' \in BOOLEAN /\ (t.pending => run_sched_ev')
      BY <1>1, <1>2, <1>3 DEF TypeOK
  <2> QED
      BY <1>1, <1>3, <1>4, <1>5, <2>1, ChannelStep
<1>6. CASE main' = FlushSome(main, ch, 1, "refuse")
  <2>1. main \in MainType(DOMAIN main.room)
      BY <1>2 DEF TypeOK
  <2>2. /\ main' \in MainType(DOMAIN main.room) /\ main'.at = "refuse" /\ main'.chan = ch
        /\ main'.room = main.room
        /\ main'.readd = main.readd /\ main'.outbufs = main.outbufs
    <3>1. "refuse" \in Places /\ ch \in ChanIds /\ 1 \in Nat /\ 0 \in Nat
        BY DEF Places, ChanIds
    <3> QED
        BY ONLY <1>6, <2>1, <3>1, MainFields, ZenonT(30) DEF FlushSome
  <2>3. chans'[ch] = t /\ \A x \in Chans \ {ch} : chans'[x] = chans[x]
      BY <1>1, <1>2 DEF TypeOK, Set
  <2>4. chans' \in [Chans -> ChanType]
    <3>1. chans \in [Chans -> ChanType] /\ t \in ChanType
        BY <1>2, <1>3 DEF TypeOK, Sound
    <3> QED
        BY <3>1, <1>1 DEF Set
  <2>5. TypeOK'
      BY <1>1, <1>2, <2>2, <2>4 DEF TypeOK
  <2>6. \A x \in Chans : /\ Sound(chans'[x]) /\ Settled(chans'[x])
                         /\ chans'[x].pending => run_sched_ev'
      BY <1>1, <1>2, <1>3, <2>3
  <2>7. Held' = {}
      BY <1>2, <2>2 DEF Held
  <2>8. RunInv'
      BY <1>2, <2>2, <2>6, <2>7 DEF RunInv, Settled
  <2>9. CloseInv'
      BY <1>4, <2>2, <2>6 DEF CloseInv, Walking, Settled
  <2> QED
      BY <2>5, <2>6, <2>8, <2>9, Built
<1> QED
    BY <1>1, <1>5, <1>6

\* The loop goes on after the outbuf was primed.
LEMMA RefuseEndsStep ==
    ASSUME IndInv, RefuseEnds PROVE IndInv'
<1>1. /\ main.at = "refuse" /\ chans' = chans /\ main' = AtLoop
      /\ UNCHANGED <<circuits_pending_close, run_sched_ev, the_scheduler, high>>
    BY DEF RefuseEnds
<1>2. TypeOK /\ RunInv /\ CloseInv /\ \A ch \in Chans : Sound(chans[ch])
    BY Parts
<1>3. /\ main'.at = "loop" /\ main'.readd = {} /\ main'.outbufs = {} /\ main'.chan = 0
      /\ DOMAIN main'.room = {} /\ main' \in MainType({})
  <2>1. AtLoop.room = [ch \in {} |-> 0] /\ [ch \in {} |-> 0] \in [{} -> Int]
      BY DEF AtLoop
  <2>2. AtLoop \in MainType({})
      BY <2>1 DEF AtLoop, MainType
  <2> QED
      BY <1>1, <2>1, <2>2 DEF AtLoop
<1>4. Held' = {}
    BY <1>3 DEF Held
<1>5. TypeOK'
    BY <1>1, <1>2, <1>3 DEF TypeOK
<1>6. main.readd = {} /\ main.outbufs = {} /\ Held = {}
    BY <1>1, <1>2 DEF RunInv, Held
<1>7. RunInv'
    BY <1>1, <1>2, <1>3, <1>4, <1>6 DEF RunInv
<1>8. Marked' = Marked
    BY <1>1 DEF Marked
<1>9. CloseInv'
    BY <1>1, <1>2, <1>3, <1>8 DEF CloseInv, Walking
<1> QED
    BY <1>1, <1>2, <1>5, <1>7, <1>9, Built

-----------------------------------------------------------------------------
(* The theorems. *)

\* A channel that is opening.
LEMMA NewChannelOK ==
    ASSUME CountingLaws PROVE Sound(NewChannel) /\ Settled(NewChannel) /\ ~NewChannel.pending
<1> DEFINE s == NewChannel
<1>1. /\ s.state = "OPENING" /\ s.scheduler_state = "IDLE" /\ s.pending = FALSE
      /\ s.outbuf = 0 /\ s.circ = [c \in Circs |-> NoCirc] /\ s.n_cells = 0
      /\ s.n_active = 0 /\ s.destroys = <<>> /\ s.map = [i \in Ids |-> Unused]
    BY DEF NewChannel
<1>2. s \in ChanType
  <2>1. [c \in Circs |-> NoCirc] \in CircTable
      BY NoCircType DEF CircTable
  <2>2. [i \in Ids |-> Unused] \in IdMap
      BY DEF IdMap
  <2>3. <<>> \in IdQueue /\ "OPENING" \in ChanStates /\ "IDLE" \in SchedStates
      BY DEF IdQueue, ChanStates, SchedStates
  <2> QED
      BY <2>1, <2>2, <2>3, ChanFields DEF NewChannel
<1> HIDE DEF s
<1>3. \A c \in Circs : s.circ[c] = NoCirc
    BY <1>1
<1>4. /\ NoCirc.id = 0 /\ NoCirc.cell_count = Detached
      /\ ~NoCirc.marked /\ ~NoCirc.delete_pending
    BY DEF NoCirc
<1>5. CircOK(s)
  <2>1. \A i \in Ids : s.map[i] = Unused
      BY <1>1
  <2>2. \A i \in Ids : s.map[i] \notin Circs
      BY <2>1, ChannelsAssumption DEF Unused
  <2> QED
      BY <1>3, <1>4, <2>2 DEF CircOK
<1>6. CountOK(s)
  <2>1. \A c \in Circs : s.circ[c].cell_count = Detached
      BY <1>3, <1>4
  <2> QED
      BY <1>1, <2>1, NoCells DEF CountOK
<1>7. IdsOK(s)
  <2>1. \A i \in Ids : s.map[i] = Unused
      BY <1>1
  <2>2. DOMAIN s.destroys = {}
      BY <1>1
  <2>3. Queued(s) = {}
      BY <2>2 DEF Queued
  <2> QED
      BY <1>1, <2>1, <2>2, <2>3 DEF IdsOK, Open
<1>8. SchedOK(s)
    BY <1>1 DEF SchedOK, Open
<1>9. Settled(s)
    BY <1>1, <1>3, <1>4 DEF Settled
<1>10. Sound(s) /\ ~s.pending
    BY <1>1, <1>2, <1>5, <1>6, <1>7, <1>8 DEF Sound, CircuitsOK
<1> QED
    BY <1>9, <1>10 DEF s

\* The first state satisfies the invariant.
LEMMA InitOK == ASSUME CountingLaws PROVE Init => IndInv
<1> SUFFICES ASSUME Init PROVE IndInv
    OBVIOUS
<1>1. /\ chans = [ch \in Chans |-> NewChannel] /\ circuits_pending_close = {}
      /\ run_sched_ev = FALSE /\ the_scheduler \in Schedulers /\ high \in HighMarks
      /\ main = AtLoop
    BY DEF Init
<1>2. \A ch \in Chans : /\ Sound(chans[ch]) /\ Settled(chans[ch]) /\ ~chans[ch].pending
    BY <1>1, NewChannelOK
<1>3. /\ main.at = "loop" /\ main.readd = {} /\ main.outbufs = {} /\ main.chan = 0
      /\ DOMAIN main.room = {} /\ main \in MainType({})
  <2>1. AtLoop.room = [ch \in {} |-> 0] /\ [ch \in {} |-> 0] \in [{} -> Int]
      BY DEF AtLoop
  <2>2. AtLoop \in MainType({})
      BY <2>1 DEF AtLoop, MainType
  <2> QED
      BY <1>1, <2>1, <2>2 DEF AtLoop
<1>4. TypeOK
  <2>1. chans \in [Chans -> ChanType]
      BY <1>1, <1>2 DEF Sound
  <2>2. the_scheduler \in {"KIST", "KISTLite", "Vanilla"}
      BY <1>1, ChannelsAssumption
  <2> QED
      BY <1>1, <1>3, <2>1, <2>2 DEF TypeOK
<1>5. Held = {}
    BY <1>3 DEF Held
<1>6. RunInv
    BY <1>2, <1>3, <1>5 DEF RunInv, Settled
<1>7. Marked = {}
  <2>1. ~NoCirc.marked /\ \A ch \in Chans, c \in Circs : chans[ch].circ[c] = NoCirc
      BY <1>1 DEF NewChannel, NoCirc
  <2> QED
      BY <2>1 DEF Marked
<1>8. CloseInv
    BY <1>1, <1>2, <1>3, <1>7 DEF CloseInv, Settled, Walking
<1>9. \A ch \in Chans : ChanOK(chans[ch])
    BY <1>2 DEF Sound, ChanOK, CircuitsOK
<1> QED
    BY <1>4, <1>6, <1>8, <1>9 DEF IndInv

\* A step that changes nothing.
LEMMA StutterOK == ASSUME IndInv, UNCHANGED vars PROVE IndInv'
<1>1. /\ chans' = chans /\ circuits_pending_close' = circuits_pending_close
      /\ run_sched_ev' = run_sched_ev /\ the_scheduler' = the_scheduler
      /\ high' = high /\ main' = main
    BY DEF vars
<1>2. Held' = Held /\ Marked' = Marked
    BY <1>1 DEF Held, Marked
<1>3. TypeOK /\ RunInv /\ CloseInv /\ \A ch \in Chans : Sound(chans[ch])
    BY Parts
<1>4. TypeOK'
    BY <1>1, <1>3 DEF TypeOK
<1>5. RunInv'
    BY <1>1, <1>2, <1>3 DEF RunInv
<1>6. CloseInv'
    BY <1>1, <1>2, <1>3 DEF CloseInv, Walking
<1> QED
    BY <1>1, <1>3, <1>4, <1>5, <1>6, Built

\* The main thread goes on with what it is in.
LEMMA StepOK == ASSUME CountingLaws, IndInv, Step PROVE IndInv'
BY FlushCellStep, KistDecideStep, VanillaDecideStep, RunEndsStep, PrimeEndsStep,
   CloseAllEndsStep, KistPopStep, VanillaPopStep, KistWriteStep, AboutToFreeStep,
   BuildFailedStep, RefuseEndsStep
   DEF Step

\* The event loop runs a callback.
LEMMA CallbackOK == ASSUME CountingLaws, IndInv, Callback PROVE IndInv'
BY EvtCallbackStep, CloseAllMarkedStep, OpenStep, WriteCellStep, HandleWriteStep,
   CloseChannelStep, ClosedStep, FreeStep, AppendStep, MarkStep, DestroyCellStep,
   NewCircuitStep, RefuseStep, HighwaterStep, SetSchedulerStep
   DEF Callback

-----------------------------------------------------------------------------
(* The laws of counting, from the theorems on finite sets. *)

INSTANCE FiniteSetTheorems

\* The cells a multiplexer counts on one circuit.
LEMMA CellsOf ==
    ASSUME NEW c, NEW n \in Int
    PROVE  /\ IsFiniteSet({c} \X (1 .. n))
           /\ Cardinality({c} \X (1 .. n)) = IF n > 0 THEN n ELSE 0
<1>1. /\ IsFiniteSet(1 .. n)
      /\ Cardinality(1 .. n) = IF n > 0 THEN n ELSE 0
    BY FS_Interval
<1>2. IsFiniteSet({c}) /\ Cardinality({c}) = 1
    BY FS_Singleton
<1> QED
    BY <1>1, <1>2, FS_Product

\* Each law of counting holds: one circuit's cells and the others' are disjoint ...
LEMMA RecountHolds == RecountLaw
<1> SUFFICES ASSUME NEW s \in ChanType, NEW t \in ChanType, NEW c \in Circs, CountOK(s),
                    \A x \in Circs \ {c} : t.circ[x].cell_count = s.circ[x].cell_count,
                    t.n_cells = s.n_cells - Size(s.circ[c].cell_count)
                                          + Size(t.circ[c].cell_count),
                    t.n_active = s.n_active - IsActive(s.circ[c].cell_count)
                                            + IsActive(t.circ[c].cell_count)
             PROVE  CountOK(t)
    BY DEF RecountLaw
<1> DEFINE old == s.circ[c].cell_count
           new == t.circ[c].cell_count
           Rest == UNION {{x} \X (1 .. s.circ[x].cell_count) : x \in Circs \ {c}}
           Others == Active(s) \ {c}
<1>1. old \in Int /\ new \in Int
    BY DEF ChanType, CircType, Detached
<1>2. /\ Counted(s) = Rest \cup ({c} \X (1 .. old))
      /\ Counted(t) = Rest \cup ({c} \X (1 .. new))
      /\ \A n \in Int : Rest \cap ({c} \X (1 .. n)) = {}
  <2>1. Counted(s) = Rest \cup ({c} \X (1 .. old))
      BY DEF Counted
  <2>2. UNION {{x} \X (1 .. t.circ[x].cell_count) : x \in Circs \ {c}} = Rest
      OBVIOUS
  <2>3. Counted(t) = Rest \cup ({c} \X (1 .. new))
      BY <2>2 DEF Counted
  <2>4. ASSUME NEW n \in Int, NEW p \in Rest PROVE p \notin {c} \X (1 .. n)
      OBVIOUS
  <2> QED
      BY <2>1, <2>3, <2>4
<1> HIDE DEF Rest
<1>3. IsFiniteSet(Rest)
    BY <1>2, FS_Subset DEF CountOK
<1>4. ASSUME NEW n \in Int
      PROVE  /\ IsFiniteSet(Rest \cup ({c} \X (1 .. n)))
             /\ Cardinality(Rest \cup ({c} \X (1 .. n))) = Cardinality(Rest) + Size(n)
  <2>1. /\ IsFiniteSet({c} \X (1 .. n))
        /\ Cardinality({c} \X (1 .. n)) = Size(n)
      BY CellsOf DEF Size
  <2>2. Cardinality(Rest \cap ({c} \X (1 .. n))) = 0
      BY <1>2, FS_EmptySet
  <2> QED
      BY <1>3, <2>1, <2>2, FS_Union, FS_CardinalityType DEF Size
<1>5. IsFiniteSet(Counted(t)) /\ t.n_cells = Cardinality(Counted(t))
  <2>1. Cardinality(Counted(s)) = Cardinality(Rest) + Size(old)
      BY <1>1, <1>2, <1>4
  <2>2. IsFiniteSet(Counted(t)) /\ Cardinality(Counted(t)) = Cardinality(Rest) + Size(new)
      BY <1>1, <1>2, <1>4
  <2>3. Cardinality(Rest) \in Nat
      BY <1>3, FS_CardinalityType
  <2>4. s.n_cells = Cardinality(Counted(s))
      BY DEF CountOK
  <2> QED
      BY <2>1, <2>2, <2>3, <2>4, <1>1 DEF Size
<1>6. t.n_active = Cardinality(Active(t))
  <2>1. IsFiniteSet(Active(s)) /\ IsFiniteSet(Others)
      BY ChannelsAssumption, FS_Subset DEF Active
  <2>2. /\ Active(s) = IF old > 0 THEN Others \cup {c} ELSE Others
        /\ Active(t) = IF new > 0 THEN Others \cup {c} ELSE Others
      BY DEF Active
  <2>3. /\ c \notin Others
        /\ Cardinality(Others \cup {c}) = Cardinality(Others) + 1
        /\ Cardinality(Others) \in Nat
    <3>1. c \notin Others
        OBVIOUS
    <3> HIDE DEF Others
    <3> QED
        BY <3>1, <2>1, FS_AddElement, FS_CardinalityType
  <2>4. s.n_active = Cardinality(Active(s))
      BY DEF CountOK
  <2> HIDE DEF Others
  <2> QED
      BY <2>2, <2>3, <2>4 DEF IsActive
<1> QED
    BY <1>5, <1>6 DEF CountOK

\* ... a circuit is active just when it has a cell ...
LEMMA NoneActiveHolds == NoneActiveLaw
<1> SUFFICES ASSUME NEW s \in ChanType, CountOK(s)
             PROVE  /\ s.n_cells \in Nat /\ s.n_active \in Nat
                    /\ s.n_active = 0 <=> s.n_cells = 0
    BY DEF NoneActiveLaw
<1>1. IsFiniteSet(Active(s)) /\ IsFiniteSet(Counted(s))
    BY ChannelsAssumption, FS_Subset DEF Active, CountOK
<1>2. Active(s) = {} => Counted(s) = {}
  <2>1. ASSUME NEW c \in Circs, Active(s) = {} PROVE {c} \X (1 .. s.circ[c].cell_count) = {}
    <3>1. s.circ[c].cell_count \in Int /\ ~(s.circ[c].cell_count > 0)
        BY <2>1 DEF Active, ChanType, CircType, Detached
    <3> QED
        BY <3>1
  <2> QED
      BY <2>1 DEF Counted
<1>3. ASSUME NEW c \in Active(s) PROVE <<c, 1>> \in Counted(s)
  <2>1. c \in Circs /\ 1 \in 1 .. s.circ[c].cell_count
      BY DEF Active, ChanType, CircType, Detached
  <2> QED
      BY <2>1 DEF Counted
<1>4. /\ Cardinality(Active(s)) \in Nat /\ Cardinality(Counted(s)) \in Nat
      /\ Cardinality(Active(s)) = 0 <=> Active(s) = {}
      /\ Cardinality(Counted(s)) = 0 <=> Counted(s) = {}
    BY <1>1, FS_CardinalityType, FS_EmptySet
<1> QED
    BY <1>2, <1>3, <1>4 DEF CountOK

\* ... a set with an element is not empty ...
LEMMA SomeActiveHolds == SomeActiveLaw
<1> SUFFICES ASSUME NEW s \in ChanType, NEW c \in Circs, CountOK(s),
                    s.circ[c].cell_count > 0
             PROVE  s.n_cells > 0 /\ s.n_active > 0
    BY DEF SomeActiveLaw
<1>1. IsFiniteSet(Active(s)) /\ c \in Active(s)
    BY ChannelsAssumption, FS_Subset DEF Active
<1>2. s.n_active # 0
    BY <1>1, FS_EmptySet DEF CountOK
<1> QED
    BY <1>2, NoneActiveHolds DEF NoneActiveLaw

\* ... and without cells both sets are empty.
LEMMA NoCellsHolds == NoCellsLaw
<1> SUFFICES ASSUME NEW s, \A c \in Circs : s.circ[c].cell_count = Detached
             PROVE  /\ Counted(s) = {} /\ Active(s) = {}
                    /\ IsFiniteSet(Counted(s)) /\ Cardinality(Counted(s)) = 0
                    /\ Cardinality(Active(s)) = 0
    BY DEF NoCellsLaw
<1>1. Counted(s) = {} /\ Active(s) = {}
    BY DEF Counted, Active, Detached
<1> QED
    BY <1>1, FS_EmptySet

\* All of them.
LEMMA Counting == CountingLaws
BY RecountHolds, NoneActiveHolds, SomeActiveHolds, NoCellsHolds DEF CountingLaws

\* A queue without repetitions is as long as the set of its elements.
LEMMA QueuedOnce ==
    ASSUME NEW q \in Seq(Ids), Distinct(q)
    PROVE  Cardinality({q[k] : k \in DOMAIN q}) = Len(q)
<1> DEFINE n == Len(q)
           Q == {q[k] : k \in DOMAIN q}
<1>1. n \in Nat /\ DOMAIN q = 1 .. n
    OBVIOUS
<1>2. q \in Bijection(1 .. n, Q)
  <2>1. q \in [1 .. n -> Q]
      BY <1>1
  <2> QED
      BY <1>1, <2>1 DEF Distinct, Bijection, Injection, Surjection, IsInjective
<1>3. IsFiniteSet(1 .. n) /\ Cardinality(1 .. n) = n
    BY <1>1, FS_Interval
<1>4. ExistsBijection(1 .. n, Q)
    BY <1>2 DEF ExistsBijection
<1>5. Cardinality(Q) = Cardinality(1 .. n)
    BY <1>3, <1>4, FS_Bijection
<1> QED
    BY <1>3, <1>5

-----------------------------------------------------------------------------
(* Results. *)

\* The inductive invariant holds for any channels, circuits and ids, any cell
\* size, marks and limits: circuits, counters, ids, the scheduler's states and
\* the lists of channel.c, circuitmux.c, scheduler*.c and circuitlist.c agree.
THEOREM Invariance == Spec => []IndInv
<1>1. IndInv /\ [Next]_vars => IndInv'
    BY Counting, StepOK, CallbackOK, StutterOK DEF Next
<1>2. Init => IndInv
    BY Counting, InitOK
<1> QED
    BY <1>1, <1>2, PTL DEF Spec

\* Channels, circuits and the main thread keep their types.
THEOREM TypeCorrect == Spec => []TypeOK
<1>1. IndInv => TypeOK
    BY DEF IndInv
<1> QED
    BY Invariance, <1>1, PTL

\* circuitmux_set_num_cells, circuitmux_detach_circuit and the flush loop keep
\* the multiplexer's counters equal to the sums they stand for, and the count of
\* a circuit equal to its queue except after an out-of-memory run or on a channel
\* that is closing: the assertions of circuitmux.c hold.
THEOREM CountersExactAlways == Spec => []CountersExact
<1>1. IndInv => CountersExact
  <2> SUFFICES ASSUME IndInv, NEW ch \in Chans
               PROVE  /\ chans[ch].n_cells = Cardinality(Counted(chans[ch]))
                      /\ chans[ch].n_active = Cardinality(Active(chans[ch]))
                      /\ \A c \in On(chans[ch]) :
                           \/ chans[ch].circ[c].cell_count = chans[ch].circ[c].queue
                           \/ chans[ch].circ[c].marked /\ chans[ch].circ[c].queue = 0
                           \/ /\ Condemned(chans[ch])
                              /\ chans[ch].circ[c].queue < chans[ch].circ[c].cell_count
      BY DEF CountersExact
  <2>1. CircOK(chans[ch]) /\ CountOK(chans[ch])
      BY DEF IndInv, ChanOK
  <2> QED
      BY <2>1 DEF CountOK, CircOK, On
<1> QED
    BY Invariance, <1>1, PTL

\* Between callbacks channels_pending holds just the channels in state PENDING
\* and run_sched_ev is due for them; no closed or freed channel is left in it, or
\* in the lists of a run.
THEOREM PendingExactAlways == Spec => []PendingExact
<1>1. IndInv => PendingExact
  <2> SUFFICES ASSUME IndInv PROVE PendingExact
      OBVIOUS
  <2>1. TypeOK /\ RunInv /\ \A ch \in Chans : Sound(chans[ch])
      BY Parts
  <2>2. ASSUME main.at = "loop", NEW ch \in Chans
        PROVE  /\ chans[ch].pending <=> chans[ch].scheduler_state = "PENDING"
               /\ chans[ch].pending => run_sched_ev
      BY <2>2, LoopFacts DEF Sound, SchedOK, Settled
  <2>3. ASSUME NEW ch \in Chans, chans[ch].state \in {"CLOSED", "FREED"}
        PROVE  ~chans[ch].pending /\ ch \notin main.outbufs \cup main.readd
    <3>1. ~chans[ch].pending
        BY <2>1, <2>3 DEF Sound, SchedOK
    <3>2. ch \notin main.outbufs
        BY <2>1, <2>3 DEF RunInv
    <3>3. ch \notin main.readd
        BY <2>1, <2>3 DEF RunInv, Held
    <3> QED
        BY <3>1, <3>2, <3>3
  <2> QED
      BY <2>2, <2>3 DEF PendingExact
<1> QED
    BY Invariance, <1>1, PTL

\* None of the schedulers loses an open channel with relay cells: it is pending,
\* or waits to write with an outbuf whose flush will tell the scheduler.
THEOREM NoLostChannelEver == Spec => []NoLostChannel
<1>1. IndInv => NoLostChannel
  <2> SUFFICES ASSUME IndInv, main.at = "loop", NEW ch \in Chans,
                      Open(chans[ch]), chans[ch].n_cells > 0
               PROVE  \/ chans[ch].scheduler_state = "PENDING"
                      \/ /\ chans[ch].scheduler_state = "WAITING_TO_WRITE"
                         /\ chans[ch].outbuf > 0
      BY DEF NoLostChannel
  <2>1. Sound(chans[ch])
      BY LoopFacts
  <2>2. chans[ch].scheduler_state \in SchedStates
      BY <2>1, ChanFields DEF Sound
  <2>3. chans[ch].scheduler_state \notin {"IDLE", "WAITING_FOR_CELLS"}
      BY <2>1 DEF Sound, SchedOK
  <2> QED
      BY <2>1, <2>2, <2>3 DEF Sound, SchedOK, SchedStates
<1> QED
    BY Invariance, <1>1, PTL

\* An id whose DESTROY is queued is not used again before the cell is written, is
\* queued once, and is given back after it (circuitlist.c, circuitmux.c).
THEOREM IdsReservedAlways == Spec => []IdsReserved
<1>1. IndInv => IdsReserved
  <2> SUFFICES ASSUME IndInv PROVE IdsReserved
      OBVIOUS
  <2>1. ASSUME NEW ch \in Chans
        PROVE  /\ Cardinality(Queued(chans[ch])) = Len(chans[ch].destroys)
               /\ IdsOK(chans[ch])
    <3>1. chans[ch] \in ChanType /\ IdsOK(chans[ch])
        BY Parts DEF Sound, CircuitsOK
    <3>2. chans[ch].destroys \in Seq(Ids) /\ Distinct(chans[ch].destroys)
        BY <3>1, ChanFields DEF IdQueue, IdsOK, Distinct
    <3> QED
        BY <3>1, <3>2, QueuedOnce DEF Queued
  <2> QED
      BY <2>1 DEF IdsReserved, IdsOK, Queued
<1> QED
    BY Invariance, <1>1, PTL

\* A circuit whose streams append_cell_to_circuit_queue has stopped still has
\* more cells queued than the mark at which the flush loop lets them go on.
THEOREM BlockedHasCellsAlways == Spec => []BlockedHasCells
<1>1. IndInv => BlockedHasCells
  <2> SUFFICES ASSUME IndInv, NEW ch \in Chans, NEW c \in Circs,
                      chans[ch].circ[c].blocked, ~chans[ch].circ[c].marked,
                      ~Condemned(chans[ch])
               PROVE  chans[ch].circ[c].queue > CellqLow
      BY DEF BlockedHasCells
  <2>1. chans[ch] \in ChanType /\ CircOK(chans[ch])
      BY Parts DEF Sound, CircuitsOK
  <2>2. chans[ch].circ[c].id # 0
      BY <2>1, OffChannel
  <2> QED
      BY <2>1, <2>2 DEF CircOK
<1> QED
    BY Invariance, <1>1, PTL

\* Outside circuit_build_failed the walk of circuit_close_all_marked marks no
\* circuit: circuit_about_to_free takes one off, and the loop that primes the
\* outbuf of its channel finds none to mark.
THEOREM OnlyLaunchMarksEver == Spec => OnlyLaunchMarks
<1>1. IndInv /\ [Next]_vars => [Walking => Marked' \subseteq Marked \/ main'.at = "failed"]_vars
  <2> SUFFICES ASSUME IndInv, Next, Walking, main'.at # "failed"
               PROVE  Marked' \subseteq Marked
      OBVIOUS
  <2>1. TypeOK /\ main.victims \subseteq Marked
      BY ClosingFacts
  <2>2. ASSUME chans' = chans PROVE Marked' \subseteq Marked
      BY <2>2 DEF Marked
  <2>3. CASE FlushCell
    <3>1. main.at = "prime"
        BY <2>3 DEF FlushCell, InFlush, Walking
    <3> QED
        BY <2>3, <3>1, Counting, PrimeMarksNone
  <2>4. ASSUME NEW ch \in Chans, NEW c \in Circs PROVE ~circuit_build_failed(ch, c)
    <3>1. ASSUME circuit_build_failed(ch, c) PROVE FALSE
      <4>1. main \in MainType(DOMAIN main.room)
            /\ main' = [main EXCEPT !.at = "failed", !.chan = ch, !.circ = c]
          BY <2>1, <3>1 DEF TypeOK, circuit_build_failed
      <4>2. main'.at = "failed"
          BY ONLY <4>1, MainFields, ZenonT(30)
      <4> QED
          BY <4>2
    <3> QED
        BY <3>1
  <2>5. Step
    <3>1. main.at # "loop"
        BY DEF Walking
    <3>2. ~scheduler_evt_callback /\ ~CloseAllMarked
        BY <3>1 DEF scheduler_evt_callback, CloseAllMarked
    <3>3. ASSUME NEW ch \in Chans
          PROVE  /\ ~channel_change_state_open(ch) /\ ~channel_write_cell(ch)
                 /\ ~connection_handle_write(ch) /\ ~CloseChannel(ch)
                 /\ ~channel_closed(ch) /\ ~channel_free(ch)
        BY <3>1 DEF channel_change_state_open, channel_write_cell, connection_handle_write,
           CloseChannel, channel_closed, channel_free
    <3>4. ASSUME NEW ch \in Chans, NEW c \in Circs
          PROVE  /\ ~append_cell_to_circuit_queue(ch, c) /\ ~circuit_mark_for_close(ch, c)
                 /\ ~command_process_destroy_cell(ch, c)
                 /\ \A id \in Ids, n \in {0, 1} : ~NewCircuit(ch, c, id, n)
        BY <3>1 DEF append_cell_to_circuit_queue, circuit_mark_for_close,
           command_process_destroy_cell, NewCircuit
    <3>5. ASSUME NEW ch \in Chans, NEW id \in Ids PROVE ~RefuseCreate(ch, id)
        BY <3>1 DEF RefuseCreate
    <3>6. /\ \A h \in HighMarks : ~NewHighwater(h)
          /\ \A type \in Schedulers : ~set_scheduler(type)
        BY <3>1 DEF NewHighwater, set_scheduler
    <3> QED
        BY <3>2, <3>3, <3>4, <3>5, <3>6 DEF Next, Callback
  <2>6. /\ ~KistDecide /\ ~VanillaDecide /\ ~RunEnds /\ ~RefuseEnds
        /\ \A ch \in Chans : ~KistPop(ch) /\ ~VanillaPop(ch) /\ ~KistWrite(ch)
      BY DEF Walking, KistDecide, VanillaDecide, RunEnds, RefuseEnds, KistPop, VanillaPop,
         KistWrite
  <2>7. CASE CloseAllEnds
      BY <2>2, <2>7 DEF CloseAllEnds
  <2> QED
      BY <2>3, <2>4, <2>5, <2>6, <2>7, Counting, PrimeEndsStep, AboutToFreeStep DEF Step
<1> QED
    BY Invariance, <1>1, PTL DEF Spec, OnlyLaunchMarks
==============================================================================
