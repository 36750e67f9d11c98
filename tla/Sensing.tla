------------------------------ MODULE Sensing -------------------------------
(***************************************************************************)
(* The sensor tasks (firmware/src/sensors.rs), the readings they leave for *)
(* the control loop (shared.rs) and how it takes them (control.rs).        *)
(*                                                                         *)
(* A machine has a TSIC 306, whose frames Zacwire decodes, or a DS18B20.   *)
(* Frames that pass their parity may still be wrong, which no right value  *)
(* is; a frame remembers whether an outage was declared since.  Of a       *)
(* reading only what the properties ask is kept.  Time is in units of the  *)
(* pause between two frames.                                               *)
(***************************************************************************)
EXTENDS Integers, Sequences, FiniteSets, SequencesExt

CONSTANTS Right,        \* raw values the boiler has
          Wrong,        \* raw values only a disturbed frame has
          SilenceMax,   \* a TSIC without good frames for longer is faulty
          Timeout,      \* how long the task waits for a frame
          ErrorsMax,    \* FAULT_AFTER_ERRORS
          DallasMax     \* failed conversions a DS18B20 may have in a row

SensingConstants ==
  /\ Right \subseteq Int /\ Wrong \subseteq Int /\ Right \cap Wrong = {}
  /\ {SilenceMax, Timeout, ErrorsMax, DallasMax} \subseteq Nat

VARIABLES sensor,   \* "tsic", "ds18b20"
          task,     \* the task's filter (the frames in it), time since the last
                    \* good frame, errors in a row, and whether it said so
          pending,  \* Pending: what the next tick takes
          fresh     \* kinds of reading published since the last tick

sensingVars == <<sensor, task, pending, fresh>>

Frame == [raw : Right \cup Wrong, old : BOOLEAN]
Kinds == {"temperature", "scale", "pressure"}

(* A reading is right if it lies between right frames, unless most of its  *)
(* frames are wrong; it is old if one of them is.                          *)
Reading(raw, from) ==
  LET right == {f.raw : f \in ToSet(from)} \cap Right
      wrong == {i \in DOMAIN from : from[i].raw \in Wrong}
  IN  [right |-> Cardinality(wrong) > 1 \/ \E lo, hi \in right : lo <= raw /\ raw <= hi,
       old |-> \E f \in ToSet(from) : f.old]
None == [right |-> TRUE, old |-> FALSE, none |-> TRUE]

TypeOK ==
  /\ sensor \in {"tsic", "ds18b20"}
  /\ task \in [filter : BoundedSeq(Frame, 3), lastOk : 0 .. SilenceMax + 2 * Timeout,
               errors : 0 .. ErrorsMax + 1 \cup 0 .. DallasMax + 1, faulty : BOOLEAN]
  /\ pending.fault \in BOOLEAN /\ pending.scale \in BOOLEAN /\ pending.pressure \in BOOLEAN
  /\ pending.temperature = None \/ pending.temperature \in [right : BOOLEAN, old : BOOLEAN]
  /\ fresh \subseteq Kinds

-----------------------------------------------------------------------------
Median(frames) ==
  CHOOSE m \in {f.raw : f \in ToSet(frames)} :
    /\ Cardinality({i \in DOMAIN frames : frames[i].raw < m}) <= 1
    /\ Cardinality({i \in DOMAIN frames : frames[i].raw > m}) <= 1

(* SpikeFilter::push: the last three readings; the median once there are. *)
Push(filter, frame) == Append(IF Len(filter) = 3 THEN Tail(filter) ELSE filter, frame)

PublishTemperature(reading) ==
  /\ pending' = [pending EXCEPT !.temperature = reading, !.fault = FALSE]
  /\ fresh' = fresh \cup {"temperature"}
PublishFault ==
  /\ pending' = [pending EXCEPT !.fault = TRUE]
  /\ UNCHANGED fresh
NothingPublished == UNCHANGED <<pending, fresh>>

Aged(dt) == IF task.lastOk > SilenceMax THEN task.lastOk ELSE task.lastOk + dt

(* After an outage the old readings must not take part in the median; what *)
(* would be left of them is marked.                                        *)
NewFilter == <<>>
Marked(frames) == [i \in DOMAIN frames |-> [frames[i] EXCEPT !.old = TRUE]]

GoodFrame(frame) ==
  LET filter == Push(task.filter, frame)
  IN  /\ IF Len(filter) = 3 THEN PublishTemperature(Reading(Median(filter), filter))
                            ELSE NothingPublished
      /\ task' = [filter |-> filter, lastOk |-> 0, errors |-> 0, faulty |-> FALSE]

(* Parity, framing or receiver errors, or nothing until the timeout. *)
NoFrame(dt, error) ==
  LET lastOk == Aged(dt)
      errors == IF error /\ task.errors <= ErrorsMax THEN task.errors + 1 ELSE task.errors
      fault == lastOk > SilenceMax \/ errors > ErrorsMax
  IN  IF fault
      THEN /\ PublishFault
           /\ task' = [task EXCEPT !.lastOk = lastOk, !.errors = errors, !.faulty = TRUE,
                         !.filter = Marked(IF task.faulty THEN @ ELSE NewFilter)]
      ELSE /\ NothingPublished
           /\ task' = [task EXCEPT !.lastOk = lastOk, !.errors = errors,
                         !.faulty = @ /\ errors # 0]

Tsic ==
  /\ sensor = "tsic" /\ UNCHANGED sensor
  /\ \/ \E raw \in Right \cup Wrong : GoodFrame([raw |-> raw, old |-> FALSE])
     \/ \E dt \in 0 .. Timeout : NoFrame(dt, TRUE)
     \/ NoFrame(Timeout, FALSE)

(* OneWire::reset at the start of each transaction, by what the line does. *)
BusReset(line) == CASE line = "broken" -> "Pin"
                    [] line = "short" -> "BusLow"
                    [] line = "open" -> "NoPresence"
                    [] line \in {"answers", "noisy"} -> "ok"
(* A conversion is started, and read 375 ms later, checked by its CRC. *)
ReadCelsius(line) == IF line = "noisy" THEN "Crc" ELSE BusReset(line)
Lines == {"broken", "short", "open", "answers", "noisy"}

Dallas ==
  /\ sensor = "ds18b20" /\ UNCHANGED sensor
  /\ \E start, read \in Lines, raw \in Right :
       IF BusReset(start) = "ok" /\ ReadCelsius(read) = "ok"
       THEN /\ PublishTemperature(Reading(raw, <<[raw |-> raw, old |-> FALSE]>>))
            /\ task' = [task EXCEPT !.errors = 0]
       ELSE LET errors == IF task.errors > DallasMax THEN task.errors ELSE task.errors + 1
            IN  /\ task' = [task EXCEPT !.errors = errors]
                /\ IF errors > DallasMax THEN PublishFault ELSE NothingPublished

(* The load cells, once all have a conversion ready and the read succeeds, *)
(* and the pressure sensor, once it was started and is not busy.           *)
Hx711 == /\ pending' = [pending EXCEPT !.scale = TRUE]
         /\ fresh' = fresh \cup {"scale"}
         /\ UNCHANGED <<sensor, task>>
Pressure == /\ pending' = [pending EXCEPT !.pressure = TRUE]
            /\ fresh' = fresh \cup {"pressure"}
            /\ UNCHANGED <<sensor, task>>

(* A mutant: the fault is taken with the reading. *)
TakePendingAll == [pending EXCEPT !.temperature = None, !.scale = FALSE, !.pressure = FALSE,
                                  !.fault = FALSE]
(* The control loop takes what there is; the fault flag stays. *)
TakePending == [pending EXCEPT !.temperature = None, !.scale = FALSE, !.pressure = FALSE]
Tick == /\ pending' = TakePending
        /\ fresh' = {}
        /\ UNCHANGED <<sensor, task>>

NothingPending == [temperature |-> None, fault |-> FALSE, scale |-> FALSE, pressure |-> FALSE]

Init ==
  /\ sensor \in {"tsic", "ds18b20"}
  /\ task = [filter |-> <<>>, lastOk |-> 0, errors |-> 0, faulty |-> FALSE]
  /\ pending = NothingPending
  /\ fresh = {}

Next == Tsic \/ Dallas \/ Hx711 \/ Pressure \/ Tick

Spec == Init /\ [][Next]_sensingVars

-----------------------------------------------------------------------------
(* One disturbed frame among three never reaches the machine: the reading  *)
(* lies between right ones.  The emergency stop trips on wrong readings.   *)
LoneSpikeDropped == pending.temperature.right

(* While the sensor is out, every tick is told so; a temperature the loop  *)
(* takes without a fault has no part in it from before an outage.          *)
OutageShown ==
  CASE sensor = "tsic" -> task.lastOk > SilenceMax \/ task.errors > ErrorsMax => pending.fault
    [] sensor = "ds18b20" -> task.errors > DallasMax => pending.fault
OldReadingsForgotten ==
  ~pending.fault => ~pending.temperature.old

(* A reading is taken once: the emergency stop counts readings, the PID    *)
(* and the pressure filter use each.                                       *)
TakenOnce ==
  /\ pending.temperature # None => "temperature" \in fresh
  /\ pending.scale => "scale" \in fresh
  /\ pending.pressure => "pressure" \in fresh
=============================================================================
