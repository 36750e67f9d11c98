------------------------------ MODULE Zacwire -------------------------------
(***************************************************************************)
(* The decoder of the TSIC 306 sensor (tsic/src/lib.rs): what one captured *)
(* frame of pulses decodes to.                                             *)
(*                                                                         *)
(* The sensor sends two packets of a start bit, eight data bits and an     *)
(* even parity bit.  Every bit is a low and a high pulse; the low of a     *)
(* start bit lasts half of the bit's period, that of a one a quarter, that *)
(* of a zero three quarters.  Lengths are in microseconds.                 *)
(***************************************************************************)
EXTENDS Integers, Sequences, FiniteSets

CONSTANTS Values,   \* raw values that are sent, of 11 bits
          Strobes,  \* low times of the start bit that sensors have
          Stubs     \* what is left of a pulse when the capture begins in it

VARIABLE capture    \* the last capture: what was sent, how it was disturbed, what it gave

FrameGap == 1000
StartBit == 20 .. 200
FramePulses == {39, 40}

(* A raw value has 11 bits, and a sensor's start bits are in that range.   *)
FrameConstants == Values \subseteq 0 .. 2047 /\ Strobes \subseteq StartBit /\ Stubs \subseteq Nat

None == -1
Nothing == <<"nothing", 0>>
Parity == <<"error", 1>>
Framing == <<"error", 2>>
Ok(raw) == <<"ok", raw>>
Bit(n, i) == (n \div 2^i) % 2
(* A mutant: the parity bit is not looked at. *)
OnesOfData(packet) == 2 * Cardinality({i \in 1 .. 8 : Bit(packet, i) = 1})
Ones(packet) == Cardinality({i \in 0 .. 8 : Bit(packet, i) = 1})

-----------------------------------------------------------------------------
NewDecoder == [lastFall |-> None, lastRise |-> None, index |-> None,
               strobe |-> 0, packet |-> 0, high |-> 0, out |-> Nothing]

(* A falling edge after a gap begins a frame. *)
Fall(d, t) ==
  [d EXCEPT !.lastFall = t, !.out = Nothing,
            !.index = IF d.lastRise = None \/ t - d.lastRise >= FrameGap THEN 0 ELSE @]

(* A rising edge ends a bit: its low time tells a one from a zero, and the *)
(* tenth bit of a packet is its parity.                                    *)
Rise(d, t) ==
  LET low == t - d.lastFall
      first == d.index % 10 = 0
      packet == IF first THEN 0 ELSE 2 * d.packet + (IF low < d.strobe THEN 1 ELSE 0)
      data == packet \div 2
      Stop(result) == [d EXCEPT !.lastRise = t, !.index = None, !.packet = packet, !.out = result]
      Go == [d EXCEPT !.lastRise = t, !.index = @ + 1, !.packet = packet, !.out = Nothing,
                      !.strobe = IF first THEN low ELSE @,
                      !.high = IF d.index = 9 THEN data ELSE @]
  IN  CASE d.lastFall = None \/ d.index = None -> [d EXCEPT !.lastRise = t, !.out = Nothing]
        [] OTHER ->
             CASE first /\ low \notin StartBit -> Stop(Framing)
               [] d.index % 10 = 9 /\ Ones(packet) % 2 # 0 -> Stop(Parity)
               [] d.index = 19 /\ Ones(packet) % 2 = 0 -> Stop(IF d.high > 7 THEN Framing ELSE Ok(256 * d.high + data))
               [] OTHER -> Go

Edge(d, rising, t) == IF rising THEN Rise(d, t) ELSE Fall(d, t)

(* Pulses are pairs of a level (high or not) and a length; each begins at  *)
(* an edge.  The rising edge after a last low pulse is not captured.       *)
Latest(d, result) == IF d.out = Nothing THEN result ELSE d.out
Feed(s, pulse) ==
  LET d == Edge(s.decoder, pulse[1], s.t)
  IN  [decoder |-> d, t |-> s.t + pulse[2], result |-> Latest(d, s.result)]
FeedAll(pulses) ==
  LET fed[n \in 0 .. Len(pulses)] ==
        IF n = 0 THEN [decoder |-> NewDecoder, t |-> 0, result |-> Nothing]
        ELSE Feed(fed[n - 1], pulses[n])
  IN  fed[Len(pulses)]

DecodePulses(pulses) ==
  LET fed == FeedAll(pulses)
      result == IF pulses[Len(pulses)][1] THEN fed.result
                ELSE Latest(Edge(fed.decoder, TRUE, fed.t), fed.result)
      starts == {pulses[1][2], IF Len(pulses) > 20 THEN pulses[21][2] ELSE 0}
      longest == CHOOSE s \in starts : \A o \in starts : o <= s
      shortest == CHOOSE s \in starts : \A o \in starts : s <= o
  IN  IF \/ pulses[1][1]
         \/ longest - shortest > longest \div 4
         \/ Len(pulses) \notin FramePulses
         \/ result = Nothing
      THEN Framing ELSE result

-----------------------------------------------------------------------------
(* What the sensor sends for a value, and what may become of it on the way. *)
Start == 2
Bits(byte) == <<Start>> \o [i \in 1 .. 8 |-> Bit(byte, 8 - i)]
                        \o <<Cardinality({i \in 0 .. 7 : Bit(byte, i) = 1}) % 2>>
Low(bit, strobe) == CASE bit = Start -> strobe
                      [] bit = 1 -> strobe \div 2
                      [] bit = 0 -> strobe + strobe \div 2
Frame(value, strobe) ==
  LET bits == Bits(value \div 256) \o Bits(value % 256)
      low(i) == Low(bits[(i + 1) \div 2], strobe)
  IN  [i \in 1 .. 40 |-> IF i % 2 = 1 THEN <<FALSE, low(i)>> ELSE <<TRUE, 2 * strobe - low(i)>>]

Noises == {<<"none">>, <<"open end">>}
          \cup ({"late"} \X (1 .. 40) \X Stubs)
          \cup ({"flip", "merge", "split"} \X {n \in 1 .. 37 : n % 2 = 1})

Disturbed(f, noise) ==
  LET i == noise[2]
  IN  CASE noise[1] = "none" -> f
        [] noise[1] = "open end" -> SubSeq(f, 1, 39)
        [] noise[1] = "late" ->
             <<<<f[i][1], IF noise[3] < f[i][2] THEN noise[3] ELSE f[i][2]>>>> \o SubSeq(f, i + 1, 40)
        [] noise[1] = "flip" ->
             [f EXCEPT ![i] = <<FALSE, f[i + 1][2]>>, ![i + 1] = <<TRUE, f[i][2]>>]
        [] noise[1] = "merge" ->
             SubSeq(f, 1, i - 1) \o <<<<FALSE, f[i][2] + f[i + 1][2] + f[i + 2][2]>>>> \o SubSeq(f, i + 3, 40)
        [] noise[1] = "split" ->
             SubSeq(f, 1, i - 1) \o <<<<FALSE, 5>>, <<TRUE, 1>>, <<FALSE, f[i][2] - 6>>>> \o SubSeq(f, i + 1, 40)

Idle == [sent |-> None, noise |-> <<"none">>, result |-> Nothing]

Init == capture = Idle

Receive(value, strobe, noise) ==
  /\ capture.sent = None
  /\ capture' = [sent |-> value, noise |-> noise,
                 result |-> DecodePulses(Disturbed(Frame(value, strobe), noise))]
Rest == capture.sent # None /\ capture' = Idle
Next == Rest \/ \E value \in Values, strobe \in Strobes, noise \in Noises : Receive(value, strobe, noise)
Spec == Init /\ [][Next]_capture

(* A frame that arrives whole gives its value, whatever the sensor's clock *)
(* and whether or not the last high was captured.                          *)
WholeFramesDecode ==
  capture.noise[1] \in {"none", "open end"} /\ capture.sent # None => capture.result = Ok(capture.sent)

(* A capture that began within a frame, lost or gained a pulse, or has one *)
(* wrong bit gives the value that was sent or an error, never another one. *)
OneFaultIsSeen == capture.sent # None => capture.result \in {Ok(capture.sent), Parity, Framing}
=============================================================================
