----------------------------- MODULE MCChannels -----------------------------
(***************************************************************************)
(* Two parts of one instance of Channels, in one run:                      *)
(*   one   one channel with two circuits and two ids, all schedulers:      *)
(*         relay cells and DESTROYs of several circuits compete;           *)
(*   two   two channels with a circuit each, KIST and Vanilla: the         *)
(*         scheduler goes from one channel to the other.                   *)
(* `which' says which of them a behaviour is of.                           *)
(***************************************************************************)
EXTENDS Channels

CONSTANTS
  MaxBytesTwo,    \* bound: bytes on a channel of the second part
  DirectMarkTwo   \* bound: as DirectMark, in the second part

VARIABLE which

mcVars == <<vars, which>>

\* The second channel does not open.
InOne(A) == which = "one" /\ A /\ chans'[2] = chans[2] /\ UNCHANGED which

\* The second circuit of each channel is not used, and the channels are small.
Small(ch) ==
  /\ chans'[ch].circ[2].id = 0 /\ \A c \in Circs : chans'[ch].circ[c].id # 2
  /\ \/ chans'[ch].outbuf <= chans[ch].outbuf
     \/ chans[ch].outbuf < DirectMarkTwo
  /\ Bytes(chans'[ch]) <= MaxBytesTwo

InTwo(A) ==
  /\ which = "two" /\ A /\ UNCHANGED which
  /\ the_scheduler' # "KISTLite"
  /\ main.at = "loop" \/ main'.at = "failed" => \A ch \in Chans : Small(ch)

MCInit ==
  Init /\ which \in {"one", "two"} /\ (which = "two" => the_scheduler # "KISTLite")

MCNext == InOne(Next) \/ InTwo(Next)

\* Fairness is stated for the first part only, the one whose liveness is
\* checked.
MCFairness ==
  /\ WF_mcVars(InOne(Step))
  /\ SF_mcVars(InOne(CloseAllMarked))
  /\ SF_mcVars(InOne(KernelCatchesUp(1)))
  /\ SF_mcVars(InOne(RunWithRoom(1)))

MCSpec == MCInit /\ [][MCNext]_mcVars /\ MCFairness

\* An open channel with relay cells is served, whatever scheduler runs and
\* however often it is changed: Channels' ChannelsServed, in the first part.
ServedWhenAlone == which = "one" => ChannelsServed
=============================================================================
