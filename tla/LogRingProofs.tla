---------------------------- MODULE LogRingProofs -----------------------------
(***************************************************************************)
(* Proofs about the log ring, for any size of the ring and of the lines.   *)
(***************************************************************************)
EXTENDS LogRing, SequenceTheorems, WellFoundedInduction, TLAPS

(* A set of numbers that is not empty has a smallest one.                  *)
LEMMA SmallestExists ==
  ASSUME NEW S, S \subseteq Nat, S # {}
  PROVE  Min(S) \in S /\ \A y \in S : Min(S) <= y
PROOF
<1>1. PICK x \in S : \A y \in S : ~(<<y, x>> \in OpToRel(<, Nat))
  BY NatLessThanWellFounded, WFMin
<1>2. \A y \in S : x <= y
  <2> SUFFICES ASSUME NEW y \in S, y < x PROVE FALSE
    OBVIOUS
  <2>1. <<y, x>> \in Nat \X Nat
    OBVIOUS
  <2>2. <<y, x>> \in OpToRel(<, Nat)
    BY <2>1, Zenon DEF OpToRel
  <2> QED BY <1>1, <2>2
<1> QED BY <1>2 DEF Min

(* Remainders of positions, which never reach two rounds.                  *)
LEMMA OneRound ==
  ASSUME NEW c \in Nat \ {0}, NEW a \in Nat, a < 2 * c
  PROVE  (a < c => a % c = a) /\ (a >= c => a % c = a - c)
PROOF
<1>1. CASE a < c
  BY <1>1
<1>2. CASE ~(a < c)
  <2>1. (a - c) \in 0 .. (c - 1) /\ a = c * 1 + (a - c)
    BY <1>2
  <2> QED BY <2>1, <1>2
<1> QED BY <1>1, <1>2

-----------------------------------------------------------------------------
(* Where the byte is that was pushed before d - 1 others, and what is      *)
(* there: the d-th byte of the log from its end.  A ring that has not      *)
(* wrapped is filled from its start.                                       *)
Back(r, d) == IF d <= r.head THEN r.head - d ELSE r.head - d + Capacity
Holds(r, log) ==
  /\ r \in [buf : [0 .. Capacity - 1 -> Nat], head : 0 .. Capacity - 1, total : Nat]
  /\ r.total = Len(log)
  /\ r.total < Capacity => r.head = r.total
  /\ r.total = Capacity => r.head = 0
  /\ \A d \in 1 .. Capacity : d <= Len(log) => r.buf[Back(r, d)] = log[Len(log) + 1 - d]

LEMMA PushHolds ==
  ASSUME LogConstants, NEW r, NEW log \in Seq(Nat), Holds(r, log), NEW bytes \in Seq(Nat)
  PROVE  Holds(Push(r, bytes), log \o bytes)
PROOF
<1> DEFINE long == Len(bytes) > Capacity
           kept == IF long THEN SubSeq(bytes, Len(bytes) - Capacity + 1, Len(bytes)) ELSE bytes
           n == Len(kept)
           head == IF long THEN 0 ELSE r.head
           first == Smaller(n, Capacity - head)
           rest == n - first
           new == Push(r, bytes)
           all == log \o bytes
           buf == [i \in 0 .. Capacity - 1 |->
                     IF i < rest THEN kept[first + i + 1]
                     ELSE IF i >= head /\ i < head + first THEN kept[i - head + 1]
                     ELSE r.buf[i]]
<1>1. Capacity \in Nat \ {0} /\ Len(bytes) \in Nat /\ Len(log) \in Nat
  BY DEF LogConstants
<1>2. /\ kept \in Seq(Nat) /\ n = Smaller(Len(bytes), Capacity)
      /\ \A d \in 1 .. n : kept[n + 1 - d] = bytes[Len(bytes) + 1 - d]
  <2>1. CASE ~long
    BY <1>1, <2>1 DEF Smaller
  <2>2. CASE long
    <3>1. \A i \in (Len(bytes) - Capacity + 1) .. Len(bytes) : bytes[i] \in Nat
      BY <1>1, <2>2
    <3>2. /\ kept \in Seq(Nat) /\ n = Capacity
          /\ \A i \in 1 .. Capacity : kept[i] = bytes[Len(bytes) - Capacity + 1 + i - 1]
      BY <1>1, <2>2, <3>1, SubSeqProperties
    <3> QED BY <1>1, <2>2, <3>2 DEF Smaller
  <2> QED BY <2>1, <2>2
<1>3. /\ r.head \in 0 .. Capacity - 1 /\ head \in 0 .. Capacity - 1
      /\ r.buf \in [0 .. Capacity - 1 -> Nat] /\ r.total = Len(log)
  BY <1>1 DEF Holds
<1> HIDE DEF kept, n
<1>3a. long => head = 0
  OBVIOUS
<1>3b. ~long => head = r.head
  OBVIOUS
<1> HIDE DEF head
<1>4. n \in 0 .. Capacity /\ first \in 0 .. n /\ first <= Capacity - head
      /\ first = IF n < Capacity - head THEN n ELSE Capacity - head
  <2>1. n = IF Len(bytes) < Capacity THEN Len(bytes) ELSE Capacity
    BY <1>2 DEF Smaller
  <2>2. first = IF n < Capacity - head THEN n ELSE Capacity - head
    BY DEF Smaller
  <2> HIDE DEF first
  <2> QED BY SMTT(30), <1>1, <1>3, <2>1, <2>2
<1> DEFINE next == (head + n) % Capacity
<1>5. new = [buf |-> buf, head |-> next, total |-> r.total + Len(bytes)]
  BY Zenon DEF Push, kept, n, head, first
<1>6. next = IF head + n < Capacity THEN head + n ELSE head + n - Capacity
  <2>1. head + n \in Nat /\ head + n < 2 * Capacity
    BY <1>1, <1>3, <1>4
  <2> DEFINE a == head + n
  <2>2. next = a % Capacity /\ a \in Nat /\ a < 2 * Capacity /\ a = head + n
    BY <2>1
  <2> HIDE DEF a, next
  <2>3. (a < Capacity => a % Capacity = a) /\ (a >= Capacity => a % Capacity = a - Capacity)
    BY <1>1, <2>2, OneRound
  <2>4. head \in Int /\ n \in Int
    BY <1>1, <1>3, <1>4
  <2> QED BY <1>1, <2>2, <2>3, <2>4
<1>7. all \in Seq(Nat) /\ Len(all) = Len(log) + Len(bytes)
      /\ \A i \in 1 .. Len(log) + Len(bytes) :
           all[i] = IF i <= Len(log) THEN log[i] ELSE bytes[i - Len(log)]
  BY ConcatProperties
<1> HIDE DEF first, next
<1>8. \A i \in 0 .. Capacity - 1 : buf[i] \in Nat
  <2> SUFFICES ASSUME NEW i \in 0 .. Capacity - 1 PROVE buf[i] \in Nat
    OBVIOUS
  <2>1. \A k \in 1 .. n : kept[k] \in Nat
    BY <1>2 DEF n
  <2>2. CASE i < rest
    <3>1. first + i + 1 \in 1 .. n
      BY <1>1, <1>4, <2>2
    <3> QED BY <2>1, <2>2, <3>1
  <2>3. CASE ~(i < rest) /\ i >= head /\ i < head + first
    <3>1. i - head + 1 \in 1 .. n
      BY <1>1, <1>3, <1>4, <2>3
    <3> QED BY <2>1, <2>3, <3>1
  <2>4. CASE ~(i < rest) /\ ~(i >= head /\ i < head + first)
    BY <1>3, <2>4
  <2> QED BY <2>2, <2>3, <2>4
<1>9. new \in [buf : [0 .. Capacity - 1 -> Nat], head : 0 .. Capacity - 1, total : Nat]
  <2>1. buf \in [0 .. Capacity - 1 -> Nat]
    BY <1>8
  <2> HIDE DEF buf, new
  <2> QED BY SMTT(30), <1>1, <1>3, <1>4, <1>5, <1>6, <2>1
<1>10. new.total = Len(all)
  BY <1>3, <1>5, <1>7
<1>11. (new.total < Capacity => new.head = new.total) /\ (new.total = Capacity => new.head = 0)
  <2>1. new.head = next /\ new.total = Len(log) + Len(bytes)
    BY <1>3, <1>5
  <2>2. (r.total < Capacity => r.head = r.total) /\ (r.total = Capacity => r.head = 0)
    BY DEF Holds
  <2>3. n = IF Len(bytes) < Capacity THEN Len(bytes) ELSE Capacity
    BY <1>1, <1>2 DEF Smaller
  <2> HIDE DEF new
  <2> SUFFICES ASSUME new.total <= Capacity
               PROVE  /\ new.total < Capacity => new.head = new.total
                      /\ new.total = Capacity => new.head = 0
    BY <1>1, <2>1
  <2>4. n = Len(bytes) /\ head = r.head
    BY <1>1, <1>3b, <2>1, <2>3
  <2>5. next = IF r.head + n < Capacity THEN r.head + n ELSE r.head + n - Capacity
    BY <1>6, <2>4
  <2>6. /\ n \in Nat /\ r.total \in Nat /\ new.total = r.total + n
        /\ new.total \in Nat /\ new.total <= Capacity
    BY <1>1, <1>3, <2>1, <2>4
  <2>7. CASE r.total = Capacity
    <3>1. r.head = 0 /\ n = 0
      BY <1>1, <2>2, <2>6, <2>7
    <3> QED BY <1>1, <2>1, <2>5, <2>6, <2>7, <3>1
  <2>8. CASE r.total < Capacity
    <3>1. r.head = r.total
      BY <1>1, <2>2, <2>6, <2>8
    <3> QED BY <1>1, <2>1, <2>5, <2>6, <3>1
  <2> QED BY <1>1, <2>6, <2>7, <2>8
<1>12. ASSUME NEW d \in 1 .. Capacity, d <= Len(all)
       PROVE  new.buf[Back(new, d)] = all[Len(all) + 1 - d]
  <2> DEFINE p == Back(new, d)
  <2>0. /\ p \in 0 .. Capacity - 1 /\ new.buf = buf
        /\ p = IF d <= new.head THEN new.head - d ELSE new.head - d + Capacity
        /\ new.head = IF head + n < Capacity THEN head + n ELSE head + n - Capacity
    <3>1. new.buf = buf /\ new.head = next /\ new.head \in 0 .. Capacity - 1
      BY <1>5, <1>9
    <3> HIDE DEF new, buf
    <3> QED BY SMTT(30), <1>1, <1>6, <3>1 DEF Back
  <2> HIDE DEF p, new
  <2>1. CASE d <= n
    <3>1. all[Len(all) + 1 - d] = kept[n + 1 - d]
      <4>1. d \in 1 .. n /\ n <= Len(bytes) /\ n \in Nat
        BY <1>1, <1>2, <1>4, <2>1 DEF Smaller
      <4>2. kept[n + 1 - d] = bytes[Len(bytes) + 1 - d]
        BY <1>2, <4>1
      <4>3. Len(all) + 1 - d \in 1 .. Len(log) + Len(bytes) /\ ~(Len(all) + 1 - d <= Len(log))
            /\ Len(all) + 1 - d - Len(log) = Len(bytes) + 1 - d
        BY <1>1, <1>7, <4>1
      <4>4. \A i \in 1 .. Len(log) + Len(bytes) : ~(i <= Len(log)) => all[i] = bytes[i - Len(log)]
        BY <1>7
      <4> DEFINE place == Len(all) + 1 - d
      <4>5. place \in 1 .. Len(log) + Len(bytes) /\ ~(place <= Len(log))
            /\ place - Len(log) = Len(bytes) + 1 - d
        BY <4>3
      <4> HIDE DEF all, place
      <4>6. all[place] = bytes[place - Len(log)]
        BY <4>4, <4>5
      <4>7. all[place] = kept[n + 1 - d]
        BY <4>2, <4>5, <4>6
      <4> QED BY <4>7 DEF place
    <3>2. CASE head + n - d < Capacity
      <4>1. p = head + n - d /\ ~(p < rest) /\ p >= head /\ p < head + first
            /\ p - head + 1 = n + 1 - d
        <5>1. head + n - d \in Int /\ p = head + n - d
          BY <1>1, <1>3, <1>4, <2>0, <2>1, <3>2
        <5> QED BY <1>1, <1>3, <1>4, <2>1, <3>2, <5>1
      <4> QED BY <2>0, <3>1, <4>1 DEF p
    <3>3. CASE ~(head + n - d < Capacity)
      <4>1. p = head + n - d - Capacity /\ p < rest /\ first + p + 1 = n + 1 - d
        BY SMTT(30), <1>1, <1>3, <1>4, <2>0, <2>1, <3>3
      <4> QED BY <2>0, <3>1, <4>1 DEF p
    <3> QED BY <3>2, <3>3
  <2>2. CASE ~(d <= n)
    <3>1. ~long /\ n = Len(bytes) /\ head = r.head
      BY <1>1, <1>2, <1>3b, <1>4, <2>2 DEF Smaller
    <3>2. d - n \in 1 .. Capacity /\ d - n <= Len(log)
          /\ all[Len(all) + 1 - d] = log[Len(log) + 1 - (d - n)]
      BY SMTT(30), <1>1, <1>4, <1>7, <1>12, <2>2, <3>1
    <3>3. p = Back(r, d - n) /\ ~(p < rest) /\ ~(p >= head /\ p < head + first)
      <4>1. p = IF d <= head + n THEN head + n - d ELSE head + n - d + Capacity
        BY <1>1, <1>3, <1>4, <2>0, <2>2
      <4>2. p = Back(r, d - n)
        BY SMTT(30), <1>1, <1>3, <1>4, <3>1, <4>1 DEF Back
      <4>3. CASE d <= head + n
        <5>1. p = head + n - d /\ p < head
          BY <1>1, <1>3, <1>4, <2>2, <4>1, <4>3
        <5>2. ~(p < rest)
          BY <1>1, <1>3, <1>4, <2>2, <4>3, <5>1
        <5> QED BY <1>1, <1>3, <1>4, <4>2, <5>1, <5>2
      <4>4. CASE ~(d <= head + n)
        <5>1. p = head + n - d + Capacity /\ p >= head + n
          BY <1>1, <1>3, <1>4, <2>2, <4>1, <4>4
        <5> QED BY <1>1, <1>3, <1>4, <4>2, <4>4, <5>1
      <4> QED BY <4>3, <4>4
    <3>4. r.buf[Back(r, d - n)] = log[Len(log) + 1 - (d - n)]
      BY <3>2 DEF Holds
    <3> QED BY <2>0, <3>2, <3>3, <3>4 DEF p
  <2> QED BY <2>1, <2>2
<1> QED BY <1>9, <1>10, <1>11, <1>12 DEF Holds

-----------------------------------------------------------------------------
(* The ring holds the end of what was logged, and that ends with a break.  *)
LogInv ==
  /\ logged \in Seq(Nat) /\ Len(logged) <= TotalMax
  /\ Holds(ring, logged)
  /\ logged # <<>> => logged[Len(logged)] = Break

LEMMA LogStarts ==
  ASSUME LogConstants, Init
  PROVE  LogInv
PROOF
<1>1. logged = <<>> /\ Len(logged) = 0 /\ logged \in Seq(Nat)
  BY DEF Init
<1>2. /\ ring \in [buf : [0 .. Capacity - 1 -> Nat], head : 0 .. Capacity - 1, total : Nat]
      /\ ring.total = 0 /\ ring.head = 0
  BY DEF Init, LogConstants, Break
<1> QED BY <1>1, <1>2 DEF LogInv, Holds, LogConstants

LEMMA LogSteps ==
  ASSUME LogConstants, LogInv, [Next]_ringVars
  PROVE  LogInv'
PROOF
<1>1. CASE UNCHANGED ringVars
  BY <1>1 DEF LogInv, Holds, Back, ringVars
<1>2. ASSUME NEW n \in Lengths, Log(n) PROVE LogInv'
  <2> DEFINE line == Bytes(Smaller(n, LineMax))
             half == logged \o line
             whole == half \o <<Break>>
  <2>1. line \in Seq(Nat) /\ Len(line) = Smaller(n, LineMax) /\ Len(line) \in Nat
    <3>0. n \in Nat /\ LineMax \in Nat
      BY DEF LogConstants
    <3>1. Smaller(n, LineMax) \in Nat
      BY <3>0 DEF Smaller
    <3>1a. Len(logged) \in Nat
      BY DEF LogInv
    <3>2. \A i \in 1 .. Smaller(n, LineMax) : Len(logged) + i \in Nat
      BY <3>1, <3>1a
    <3> QED BY <3>1, <3>2 DEF Bytes
  <2>2. /\ Len(logged) + Len(line) < TotalMax
        /\ ring' = Push(Push(ring, line), <<Break>>)
        /\ logged' = whole
    BY <1>2 DEF Log
  <2> HIDE DEF line
  <2>3. half \in Seq(Nat) /\ Len(half) = Len(logged) + Len(line)
    BY <2>1, ConcatProperties DEF LogInv
  <2>4. Holds(Push(ring, line), half)
    BY <2>1, PushHolds DEF LogInv
  <2>5. <<Break>> \in Seq(Nat) /\ Len(<<Break>>) = 1 /\ <<Break>>[1] = Break
    BY DEF Break
  <2> HIDE DEF half
  <2>6. Holds(ring', logged')
    BY <2>2, <2>3, <2>4, <2>5, PushHolds
  <2>7. whole \in Seq(Nat) /\ Len(whole) = Len(half) + 1 /\ whole[Len(half) + 1] = Break
    BY <2>3, <2>5, ConcatProperties
  <2>8. Len(logged) \in Nat /\ TotalMax \in Nat
    BY DEF LogInv, LogConstants
  <2> HIDE DEF whole
  <2>9. logged'[Len(logged')] = Break /\ logged' \in Seq(Nat) /\ Len(logged') <= TotalMax
    BY <2>1, <2>2, <2>3, <2>7, <2>8
  <2> QED BY <2>6, <2>9 DEF LogInv
<1> QED BY <1>1, <1>2 DEF Next

-----------------------------------------------------------------------------
(* What is read of the ring from an offset it still has is what was        *)
(* logged since.                                                           *)
LEMMA SlicesAreTrue ==
  ASSUME LogConstants, LogInv, NEW start \in Nat, start <= Len(logged),
         Len(logged) - start <= Capacity
  PROVE  Slices(start) = Since(start) /\ Since(start) \in Seq(Nat)
         /\ Len(Since(start)) = Len(logged) - start
         /\ \A i \in 1 .. Len(logged) - start : Since(start)[i] = logged[start + i]
PROOF
<1> DEFINE all == Len(logged)
           len == ring.total - start
           at == Place(start)
           first == Smaller(len, Capacity - at)
<1>1. /\ Capacity \in Nat \ {0} /\ all \in Nat /\ ring.total = all /\ len \in 0 .. Capacity
      /\ len = all - start
  BY DEF LogConstants, LogInv, Holds
<1>2. /\ ring.head \in 0 .. Capacity - 1 /\ ring.buf \in [0 .. Capacity - 1 -> Nat]
      /\ ring.total < Capacity => ring.head = ring.total
      /\ ring.total = Capacity => ring.head = 0
      /\ \A d \in 1 .. Capacity : d <= all => ring.buf[Back(ring, d)] = logged[all + 1 - d]
  BY DEF LogInv, Holds
<1> DEFINE head == ring.head
<1>2a. head \in 0 .. Capacity - 1 /\ (all < Capacity => head = all) /\ (all = Capacity => head = 0)
  BY <1>1, <1>2
<1>2b. ASSUME NEW d \in 1 .. Capacity
       PROVE  /\ d <= head => Back(ring, d) = head - d
              /\ d > head => Back(ring, d) = head - d + Capacity
  BY <1>1, <1>2 DEF Back
<1>2c. /\ all > Capacity => at = (head + (start - (all - Capacity))) % Capacity
       /\ all <= Capacity => at = start
  <2>1. all > Capacity => Oldest = all - Capacity
    BY <1>1 DEF Oldest
  <2> QED BY <1>1, <2>1 DEF Place
<1> HIDE DEF len, at, head, all
<1>3. at \in 0 .. Capacity /\ (len > 0 => at = Back(ring, len))
  <2>1. CASE all > Capacity
    <3> DEFINE a == head + (start - (all - Capacity))
    <3>1. a = head + Capacity - len /\ a \in Nat /\ a < 2 * Capacity
      BY <1>1, <1>2a, <2>1
    <3>2. at = a % Capacity
      BY <1>2c, <2>1
    <3> HIDE DEF a
    <3>3. (a < Capacity => a % Capacity = a) /\ (a >= Capacity => a % Capacity = a - Capacity)
      BY <1>1, <3>1, OneRound
    <3>4. CASE a < Capacity
      <4>1. at = head + Capacity - len /\ len > head
        BY <1>1, <1>2a, <3>1, <3>2, <3>3, <3>4
      <4> QED BY <1>1, <1>2a, <1>2b, <4>1
    <3>5. CASE ~(a < Capacity)
      <4>1. at = head - len /\ len <= head
        BY <1>1, <1>2a, <3>1, <3>2, <3>3, <3>5
      <4> QED BY <1>1, <1>2a, <1>2b, <4>1
    <3> QED BY <3>4, <3>5
  <2>2. CASE all < Capacity
    <3>1. at = start /\ head = all
      BY <1>1, <1>2a, <1>2c, <2>2
    <3> QED BY <1>1, <1>2b, <2>2, <3>1
  <2>3. CASE all = Capacity
    <3>1. at = start /\ head = 0
      BY <1>1, <1>2a, <1>2c, <2>3
    <3> QED BY <1>1, <1>2b, <2>3, <3>1
  <2> QED BY <1>1, <2>1, <2>2, <2>3
<1>4. first = IF len < Capacity - at THEN len ELSE Capacity - at
  BY DEF Smaller
<1>5. Slices(start) = [i \in 1 .. len |-> IF i <= first THEN ring.buf[at + i - 1]
                                                       ELSE ring.buf[i - first - 1]]
  BY Zenon DEF Slices, len, at, first
<1> HIDE DEF at, first
<1>6. ASSUME NEW i \in 1 .. len
      PROVE  (IF i <= first THEN ring.buf[at + i - 1] ELSE ring.buf[i - first - 1])
             = logged[start + i]
  <2> DEFINE d == len - i + 1
  <2>1. d \in 1 .. Capacity /\ d <= all /\ all + 1 - d = start + i
    BY <1>1
  <2>2. ring.buf[Back(ring, d)] = logged[start + i]
    BY <1>2, <2>1
  <2>3. /\ len <= head => at = head - len
        /\ len > head => at = head - len + Capacity
        /\ d <= head => Back(ring, d) = head - d
        /\ d > head => Back(ring, d) = head - d + Capacity
    BY <1>1, <1>2a, <1>2b, <1>3, <2>1
  <2>4. CASE i <= first
    <3>1. i - 1 < Capacity - at
      BY <1>1, <1>3, <1>4, <2>4
    <3>2. Back(ring, d) = at + i - 1
      BY <1>1, <1>2a, <2>1, <2>3, <3>1
    <3> QED BY <2>2, <2>4, <3>2
  <2>5. CASE ~(i <= first)
    <3>1. first = Capacity - at /\ i > Capacity - at
      BY <1>1, <1>3, <1>4, <2>5
    <3>2. Back(ring, d) = i - first - 1
      BY <1>1, <1>2a, <2>1, <2>3, <3>1
    <3> QED BY <2>2, <2>5, <3>2
  <2> QED BY <2>4, <2>5
<1>7. Slices(start) = [i \in 1 .. len |-> logged[start + i]]
  BY <1>5, <1>6
<1>8. Since(start) = [i \in 1 .. len |-> logged[start + i]]
  <2>1. \A i \in (start + 1) .. all : logged[i] \in Nat
    BY <1>1 DEF LogInv, all
  <2>2. /\ SubSeq(logged, start + 1, all) \in Seq(Nat)
        /\ Len(SubSeq(logged, start + 1, all))
             = IF start + 1 <= all THEN all - (start + 1) + 1 ELSE 0
        /\ \A i \in 1 .. all - (start + 1) + 1 :
             SubSeq(logged, start + 1, all)[i] = logged[start + 1 + i - 1]
    BY SMTT(30), <1>1, <2>1, SubSeqProperties
  <2>3. Since(start) = SubSeq(logged, start + 1, all)
    BY DEF Since, all
  <2>4. /\ Since(start) \in Seq(Nat) /\ Len(Since(start)) = len
        /\ \A i \in 1 .. len : Since(start)[i] = logged[start + i]
    BY <1>1, <2>2, <2>3
  <2> QED BY <1>1, <2>4
<1>9. \A i \in 1 .. len : logged[start + i] \in Nat
  BY <1>1 DEF LogInv, all
<1> QED BY <1>1, <1>7, <1>8, <1>9 DEF all

(* What is told of a ring that has lost some: what is after the first      *)
(* break that it still holds.                                              *)
LEMMA FromLineIsTrue ==
  ASSUME LogConstants, LogInv, Oldest > 0
  PROVE  \E n \in LineStarts :
           /\ FromLine(Slices(Oldest)) = Since(n) /\ Told(n)
           /\ \A k \in LineStarts : k < n => ~Told(k)
PROOF
<1> DEFINE all == Len(logged)
           bytes == Slices(Oldest)
           I == {i \in 1 .. Len(bytes) : bytes[i] = Break}
           at == Min(I)
<1>1. /\ Capacity \in Nat \ {0} /\ all \in Nat /\ all > Capacity /\ Oldest = all - Capacity
      /\ Oldest \in Nat
  BY DEF LogConstants, LogInv, Holds, Oldest
<1>1a. Gone = Oldest /\ Gone # 0
  BY <1>1 DEF Gone
<1>2. /\ bytes = Since(Oldest) /\ bytes \in Seq(Nat) /\ Len(bytes) = Capacity
      /\ \A i \in 1 .. Capacity : bytes[i] = logged[Oldest + i]
  <2>1. Oldest \in Nat /\ Oldest <= all /\ all - Oldest = Capacity /\ Capacity <= Capacity
    BY <1>1
  <2> QED BY ONLY LogConstants, LogInv, <2>1, SlicesAreTrue
<1>3. logged[all] = Break /\ logged \in Seq(Nat)
  BY <1>1 DEF LogInv
<1> HIDE DEF all, bytes
<1>4. at \in I /\ \A i \in I : at <= i
  <2>1. Oldest + Capacity = all
    BY <1>1
  <2>2. Capacity \in I
    BY <1>1, <1>2, <1>3, <2>1
  <2>3. I \subseteq Nat
    BY <1>1, <1>2
  <2> HIDE DEF I
  <2> QED BY <2>2, <2>3, SmallestExists
<1>5. FromLine(bytes) = SubSeq(bytes, at + 1, Capacity)
  <2>1. SelectInSeq(bytes, LAMBDA b : b = Break) = at
    BY <1>4, Zenon DEF SelectInSeq
  <2>2. at # 0
    BY <1>1, <1>2, <1>4
  <2> HIDE DEF at
  <2> QED BY <1>2, <2>1, <2>2, Zenon DEF FromLine
<1> HIDE DEF at
<1>6. at \in 1 .. Capacity /\ bytes[at] = Break
  BY <1>2, <1>4
<1> DEFINE n == Oldest + at
<1>7. n \in Nat /\ n <= all /\ n >= 1 /\ all - n = Capacity - at /\ logged[n] = Break
  BY <1>1, <1>2, <1>6
<1>8. n \in LineStarts
  BY <1>1, <1>7 DEF LineStarts, all
<1>9. FromLine(bytes) = Since(n)
  <2>1. /\ Since(n) \in Seq(Nat) /\ Len(Since(n)) = Capacity - at
        /\ \A i \in 1 .. Capacity - at : Since(n)[i] = logged[n + i]
    <3> HIDE DEF n
    <3>1. all - n <= Capacity
      BY <1>1, <1>6, <1>7
    <3> QED BY <1>7, <3>1, SlicesAreTrue DEF all
  <2>2. \A i \in (at + 1) .. Capacity : bytes[i] \in Nat
    BY <1>1, <1>2, <1>6
  <2>3. /\ SubSeq(bytes, at + 1, Capacity) \in Seq(Nat)
        /\ Len(SubSeq(bytes, at + 1, Capacity))
             = IF at + 1 <= Capacity THEN Capacity - (at + 1) + 1 ELSE 0
        /\ \A i \in 1 .. Capacity - (at + 1) + 1 :
             SubSeq(bytes, at + 1, Capacity)[i] = bytes[at + 1 + i - 1]
    BY <1>1, <1>6, <2>2, SubSeqProperties
  <2>4. Len(SubSeq(bytes, at + 1, Capacity)) = Capacity - at
    BY <1>1, <1>6, <2>3
  <2>5. ASSUME NEW i \in 1 .. Capacity - at
        PROVE  SubSeq(bytes, at + 1, Capacity)[i] = Since(n)[i]
    <3>1. /\ SubSeq(bytes, at + 1, Capacity)[i] = bytes[at + i]
          /\ at + i \in 1 .. Capacity /\ Oldest + (at + i) = n + i
      <4>1. i \in 1 .. Capacity - (at + 1) + 1 /\ at + 1 + i - 1 = at + i
        BY <1>1, <1>6
      <4> QED BY <1>1, <1>6, <2>3, <4>1
    <3> QED BY <1>2, <2>1, <3>1
  <2> QED BY <1>5, <2>1, <2>3, <2>4, <2>5, SeqEqual
<1>10. ASSUME NEW k \in LineStarts, k < n PROVE ~Told(k)
  <2> SUFFICES ASSUME k > Oldest PROVE FALSE
    BY <1>1a DEF Told
  <2>1. k \in Int /\ k # 0 /\ logged[k] = Break
    BY <1>1 DEF LineStarts
  <2>2. k - Oldest \in 1 .. Capacity /\ Oldest + (k - Oldest) = k /\ k - Oldest < at
    BY <1>1, <1>6, <1>10, <2>1
  <2>3. k - Oldest \in I
    BY <1>2, <2>1, <2>2
  <2> HIDE DEF I
  <2> QED BY <1>1, <1>4, <1>6, <2>1, <2>2, <2>3
<1>11. Told(n)
  BY <1>1, <1>1a, <1>6 DEF Told
<1> HIDE DEF n
<1> QED BY <1>8, <1>9, <1>10, <1>11 DEF bytes

(* What one who follows the log is told is what was logged since the       *)
(* offset, or what is after the first break that is kept.                  *)
LEMMA LogInvImplies ==
  ASSUME LogConstants, LogInv
  PROVE  AnswersTrue
PROOF
<1> SUFFICES ASSUME NEW since \in 0 .. TotalMax + 1
             PROVE  IF since \in Gone .. Len(logged) THEN ReadSince(since) = Since(since)
                    ELSE \E n \in LineStarts :
                           /\ ReadSince(since) = Since(n) /\ Told(n)
                           /\ \A k \in LineStarts : k < n => ~Told(k)
  BY DEF AnswersTrue
<1>1. /\ Capacity \in Nat \ {0} /\ Len(logged) \in Nat /\ ring.total = Len(logged)
      /\ since \in Nat /\ Gone \in Nat
      /\ Gone = Oldest
  BY DEF LogConstants, LogInv, Holds, Gone, Oldest
<1>2. CASE since \in Gone .. Len(logged)
  <2>1. ~Lost(since) /\ Start(since) = since
    BY <1>1, <1>2 DEF Lost, Start
  <2>2. ReadSince(since) = Slices(since)
    BY <2>1, Zenon DEF ReadSince
  <2>3. since <= Len(logged) /\ Len(logged) - since <= Capacity
    BY <1>1, <1>2 DEF Gone
  <2> QED BY <1>1, <1>2, <2>2, <2>3, SlicesAreTrue
<1>3. CASE since \notin Gone .. Len(logged)
  <2>1. Lost(since) /\ Start(since) = Oldest
    BY <1>1, <1>3 DEF Lost, Start
  <2>2. CASE Oldest > 0
    <3>1. ReadSince(since) = FromLine(Slices(Oldest))
      BY <2>1, <2>2, Zenon DEF ReadSince
    <3> QED BY <1>3, <2>2, <3>1, FromLineIsTrue
  <2>3. CASE ~(Oldest > 0)
    <3>1. Oldest = 0 /\ Gone = 0 /\ Len(logged) <= Capacity
      BY <1>1, <2>3 DEF Gone
    <3>2. ReadSince(since) = Slices(0)
      BY <2>1, <2>3, <3>1, Zenon DEF ReadSince
    <3>3. ReadSince(since) = Since(0)
      BY <1>1, <3>1, <3>2, SlicesAreTrue
    <3>4. 0 \in LineStarts /\ Told(0) /\ \A k \in LineStarts : ~(k < 0)
      BY <1>1, <3>1 DEF LineStarts, Told
    <3> QED BY <1>3, <3>3, <3>4
  <2> QED BY <2>2, <2>3
<1> QED BY <1>2, <1>3

(* LogRing::read_since after any pushes: all that was logged since, if it  *)
(* is kept, else exactly what is after the first break that is kept.       *)
THEOREM FollowersAreTold ==
  ASSUME LogConstants
  PROVE  Spec => []AnswersTrue
PROOF
<1>1. Spec => []LogInv
  <2>1. Init => LogInv
    BY LogStarts
  <2>2. LogInv /\ [Next]_ringVars => LogInv'
    BY LogSteps
  <2> QED BY <2>1, <2>2, PTL DEF Spec
<1>2. LogInv => AnswersTrue
  BY LogInvImplies
<1> QED BY <1>1, <1>2, PTL
=============================================================================
