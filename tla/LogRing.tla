-------------------------------- MODULE LogRing --------------------------------
(***************************************************************************)
(* The newest log lines, kept in a ring of bytes (web/src/logring.rs,      *)
(* firmware/src/logbuf.rs), and what one who follows them is told: what    *)
(* was logged since the offset it was told last (GET /api/logs).           *)
(*                                                                         *)
(* A line is its bytes and the line break, pushed one after the other.     *)
(* Bytes are numbered as they are logged, which tells them apart.          *)
(***************************************************************************)
EXTENDS Integers, Sequences, SequencesExt

CONSTANTS Capacity,   \* RING_BYTES
          Lengths,    \* lengths of the lines that are logged
          LineMax,    \* LINE_BYTES
          TotalMax    \* how much is logged, at most

LogConstants ==
  Capacity \in Nat \ {0} /\ Lengths \subseteq Nat /\ LineMax \in Nat /\ TotalMax \in Nat

VARIABLES ring,      \* buf; head: where the next byte goes; total: bytes ever pushed
          logged     \* all that was pushed since the start

ringVars == <<ring, logged>>

Break == 0
Bytes(n) == [i \in 1 .. n |-> Len(logged) + i]
Smaller(a, b) == IF a < b THEN a ELSE b

Init == /\ ring = [buf |-> [i \in 0 .. Capacity - 1 |-> Break], head |-> 0, total |-> 0]
        /\ logged = <<>>

-----------------------------------------------------------------------------
(* LogRing::push: of what is longer than the ring its end is kept.  The    *)
(* bytes go up to the end of the ring, and from its start.                 *)
Push(r, bytes) ==
  LET long == Len(bytes) > Capacity
      kept == IF long THEN SubSeq(bytes, Len(bytes) - Capacity + 1, Len(bytes)) ELSE bytes
      head == IF long THEN 0 ELSE r.head
      first == Smaller(Len(kept), Capacity - head)
      rest == Len(kept) - first
  IN  [buf |-> [i \in 0 .. Capacity - 1 |->
                  IF i < rest THEN kept[first + i + 1]
                  ELSE IF i >= head /\ i < head + first THEN kept[i - head + 1]
                  ELSE r.buf[i]],
       head |-> (head + Len(kept)) % Capacity,
       total |-> r.total + Len(bytes)]

(* Log::log: the line, cut if it is too long, and its break. *)
Log(n) == LET line == Bytes(Smaller(n, LineMax))
          IN  /\ Len(logged) + Len(line) < TotalMax
              /\ ring' = Push(Push(ring, line), <<Break>>)
              /\ logged' = logged \o line \o <<Break>>

(* LogRing::read_since: where the answer starts and what it holds.  One    *)
(* who has missed some begins with a line.                                 *)
Oldest == IF ring.total > Capacity THEN ring.total - Capacity ELSE 0
Lost(since) == since < Oldest \/ since > ring.total
Start(since) == IF Lost(since) THEN Oldest ELSE since
(* A mutant: a ring that has not wrapped is read like one that has. *)
PlaceWrapped(start) == (ring.head + (start - Oldest)) % Capacity
Place(start) == IF ring.total > Capacity THEN (ring.head + (start - Oldest)) % Capacity ELSE start
Slices(start) == LET at == Place(start)
                     len == ring.total - start
                     first == Smaller(len, Capacity - at)
                 IN  [i \in 1 .. len |-> IF i <= first THEN ring.buf[at + i - 1]
                                                       ELSE ring.buf[i - first - 1]]
FromLine(bytes) == LET at == SelectInSeq(bytes, LAMBDA b : b = Break)
                   IN  IF at = 0 THEN <<>> ELSE SubSeq(bytes, at + 1, Len(bytes))
ReadSince(since) == LET bytes == Slices(Start(since))
                    IN  IF Lost(since) /\ Start(since) > 0 THEN FromLine(bytes) ELSE bytes

Next == \E n \in Lengths : Log(n)
Spec == Init /\ [][Next]_ringVars

-----------------------------------------------------------------------------
(* An answer ends with what was logged last, and starts where the last one *)
(* ended.  If the ring has lost some of that, or the offset is from before *)
(* a restart, it starts after the first break that is kept: what is told   *)
(* is whole lines.  The line that begins with the oldest byte is left out  *)
(* though nothing of it is lost, unless nothing was lost at all.           *)
Since(n) == SubSeq(logged, n + 1, Len(logged))
LineStarts == {n \in 0 .. Len(logged) : n = 0 \/ logged[n] = Break}
Gone == IF Len(logged) > Capacity THEN Len(logged) - Capacity ELSE 0
Told(n) == Gone = 0 \/ n > Gone
AnswersTrue ==
  \A since \in 0 .. TotalMax + 1 :
    IF since \in Gone .. Len(logged) THEN ReadSince(since) = Since(since)
    ELSE \E n \in LineStarts :
           /\ ReadSince(since) = Since(n) /\ Told(n)
           /\ \A k \in LineStarts : k < n => ~Told(k)
=============================================================================
