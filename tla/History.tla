------------------------------- MODULE History ------------------------------
(***************************************************************************)
(* The temperature history (core/src/history.rs): the control loop offers  *)
(* a sample a second, every few of them are kept, the oldest overwritten;  *)
(* GET /api/history answers with three arrays written one after another    *)
(* from a copy (web/src/lib.rs), while the loop goes on.                   *)
(*                                                                         *)
(* A point is the number of its sample; its three values go with it.       *)
(***************************************************************************)
EXTENDS Integers, Sequences, SequencesExt

CONSTANTS Length,     \* HISTORY_LEN
          Every,      \* HISTORY_EVERY
          Second,     \* ticks until the next sample
          Late,       \* how many ticks' time one tick may take
          SamplesMax  \* bound of a run

HistoryConstants ==
  {Length, Every, Second, Late} \subseteq Nat \ {0} /\ SamplesMax \in Nat

Arrays == <<"currentTemps", "targetTemps", "heaterPowers">>

VARIABLES elapsed,   \* since last_history_ms
          samples,   \* samples offered so far
          history,   \* the points, oldest first, and samples since the last
          answer     \* whether one is asked for, the copy, and the arrays
                     \* that are written

historyVars == <<elapsed, samples, history, answer>>

Points == Seq(1 .. SamplesMax)

TypeOK ==
  /\ elapsed \in 0 .. (Second + Late) /\ samples \in 0 .. SamplesMax
  /\ history.points \in Points /\ Len(history.points) <= Length
  /\ history.skip \in 0 .. (Every - 1)
  /\ answer.asked \in BOOLEAN /\ answer.copy \in Points
  /\ answer.arrays \in Seq(Points) /\ Len(answer.arrays) <= Len(Arrays)

-----------------------------------------------------------------------------
(* HistoryBuf::write *)
Write(points, p) == Append(IF Len(points) = Length THEN Tail(points) ELSE points, p)

Offer(h, p) ==
  IF h.skip + 1 >= Every THEN [points |-> Write(h.points, p), skip |-> 0]
  ELSE [h EXCEPT !.skip = @ + 1]

(* A tick of the control loop, a little late or not. *)
Tick ==
  /\ \E dt \in 1 .. Late :
       IF elapsed + dt >= Second
       THEN /\ samples < SamplesMax
            /\ elapsed' = 0
            /\ samples' = samples + 1
            /\ history' = Offer(history, samples + 1)
       ELSE /\ elapsed' = elapsed + dt
            /\ UNCHANGED <<samples, history>>
  /\ UNCHANGED answer

(* The request: the copy is taken under the lock, unless the heap has no   *)
(* room for it (503).                                                      *)
CopyFrom(h) == h.points
HistoryCopy ==
  /\ ~answer.asked
  /\ answer' = [asked |-> TRUE, copy |-> CopyFrom(history), arrays |-> <<>>]
  /\ UNCHANGED <<elapsed, samples, history>>

(* A mutant: the arrays are written from the history itself. *)
SourceLive == history.points
Source == answer.copy
WriteHistory ==
  /\ answer.asked
  /\ answer' = [answer EXCEPT !.arrays = Append(@, Source),
                               !.asked = Len(answer.arrays) + 1 < Len(Arrays)]
  /\ UNCHANGED <<elapsed, samples, history>>

Init ==
  /\ elapsed = 0 /\ samples = 0
  /\ history = [points |-> <<>>, skip |-> 0]
  /\ answer = [asked |-> FALSE, copy |-> <<>>, arrays |-> <<>>]

Next == Tick \/ HistoryCopy \/ WriteHistory

Spec == Init /\ [][Next]_historyVars

-----------------------------------------------------------------------------
(* The chart has the last points, each Every samples after the one before, *)
(* and its three arrays speak of the same samples.                         *)
EvenlySpaced ==
  /\ \A i \in 1 .. (Len(history.points) - 1) : history.points[i + 1] = history.points[i] + Every
  /\ history.points # <<>> => Last(history.points) = samples - history.skip
ArraysAgree == \A i, j \in DOMAIN answer.arrays : answer.arrays[i] = answer.arrays[j]
ChartTrue == EvenlySpaced /\ ArraysAgree
=============================================================================
