----------------------------- MODULE BleSession -----------------------------
(***************************************************************************)
(* The Bluetooth task (firmware/src/ble_scale.rs, crates/blescale): it     *)
(* looks for a scale, connects, finds the protocol it speaks, and keeps a  *)
(* session until the scale goes silent or away.                            *)
(*                                                                         *)
(* What it publishes and the tares it passes on are in Scale.  The other   *)
(* end is external: it advertises, answers or not, hangs up, and says      *)
(* when it does.                                                           *)
(***************************************************************************)
EXTENDS Integers, Sequences, SequencesExt

CONSTANTS HeartbeatPeriod,  \* HEARTBEAT_PERIOD_MS
          MaxPacketPeriod,  \* MAX_PACKET_PERIOD_MS
          Pause             \* the longest pause after a session

SessionConstants ==
  {HeartbeatPeriod, Pause} \subseteq Nat \ {0} /\ MaxPacketPeriod \in Nat

VARIABLES task,    \* where the task is and, in a session, the protocol, the time
                   \* since the last packet and until the next heartbeat
          finder,  \* Finder.scanning, and whether it has found a scale
          connected,  \* net.ble_scale_connected
          beaten   \* time since the scale had a heartbeat, or since its session

vars == <<task, finder, connected, beaten>>

ProbeOrder == <<"AcaiaOld", "AcaiaNew", "Generic", "Bookoo", "Decent", "WeighMyBru">>
NeedsHeartbeat(kind) == kind \in {"AcaiaOld", "AcaiaNew"}

(* The protocols whose characteristics the scale has, as they are probed. *)
Probe(offered) == SelectSeq(ProbeOrder, LAMBDA k : k \in offered)

Looking == [at |-> "scanning", kind |-> "", packet |-> 0, beat |-> 0]
Paused(time) == [Looking EXCEPT !.at = "pause", !.beat = time]

Init == /\ task = Looking
        /\ finder = [scanning |-> TRUE, found |-> FALSE]
        /\ connected = FALSE /\ beaten = 0

-----------------------------------------------------------------------------
(* The first advertisement with a supported name ends the search. *)
Advertised == /\ finder.scanning /\ task.at # "ended"
              /\ finder' = [scanning |-> FALSE, found |-> TRUE]
              /\ UNCHANGED <<task, connected, beaten>>

ScanFails == /\ task.at = "scanning"
             /\ task' = Paused(Pause)
             /\ UNCHANGED <<finder, connected, beaten>>
Found == /\ task.at = "scanning" /\ finder.found
         /\ task' = [task EXCEPT !.at = "connecting"]
         /\ finder' = [finder EXCEPT !.found = FALSE]
         /\ UNCHANGED <<connected, beaten>>

(* The session: probe, subscribe, handshake.  Any of it may fail. *)
Connects(offered) ==
  /\ task.at = "connecting" /\ Probe(offered) # <<>>
  /\ task' = [at |-> "session", kind |-> Head(Probe(offered)), packet |-> 0,
              beat |-> HeartbeatPeriod]
  /\ connected' = TRUE /\ beaten' = 0
  /\ UNCHANGED finder
Ends(at) == /\ task.at = at
            /\ task' = Paused(1)
            /\ connected' = FALSE
            /\ UNCHANGED <<finder, beaten>>
ConnectFails == Ends("connecting")
Disconnected == Ends("session")

(* A mutant: a packet puts the heartbeat off, like the timeout. *)
WeighedPutsOff == /\ task.at = "session"
                  /\ task' = [task EXCEPT !.packet = 0, !.beat = HeartbeatPeriod]
                  /\ UNCHANGED <<finder, connected, beaten>>
(* A notification with a weight in it; others change nothing. *)
Weighed == /\ task.at = "session"
           /\ task' = [task EXCEPT !.packet = 0]
           /\ UNCHANGED <<finder, connected, beaten>>

(* The timer of the session, set anew in each round to the earlier of two  *)
(* moments: packets have stopped, or a heartbeat is due.  At that moment   *)
(* packets have not stopped yet; a little later they have.                 *)
Deadline ==
  /\ task.at = "session"
  /\ task.beat = 0 \/ task.packet >= MaxPacketPeriod
  /\ IF task.packet > MaxPacketPeriod
     THEN Ends("session")
     ELSE /\ task' = [task EXCEPT !.beat = HeartbeatPeriod]
          /\ beaten' = IF NeedsHeartbeat(task.kind) THEN 0 ELSE beaten
          /\ UNCHANGED <<finder, connected>>

(* Time passes while no timer is due. *)
Overdue == task.at = "session" /\ (task.beat = 0 \/ task.packet > MaxPacketPeriod)
LooksAgain == /\ task.at = "pause" /\ task.beat = 1
              /\ task' = Looking
              /\ finder' = [finder EXCEPT !.scanning = TRUE]
              /\ UNCHANGED <<connected, beaten>>
Clock == \/ LooksAgain
         \/ /\ task.at = "pause" /\ task.beat > 1
            /\ task' = [task EXCEPT !.beat = @ - 1]
            /\ UNCHANGED <<finder, connected, beaten>>
         \/ /\ task.at = "session" /\ ~Overdue
            /\ task' = [task EXCEPT !.packet = @ + 1, !.beat = @ - 1]
            /\ beaten' = IF NeedsHeartbeat(task.kind) THEN beaten + 1 ELSE 0
            /\ UNCHANGED <<finder, connected>>

(* The Bluetooth runner, raced with the task, returns: nobody looks for    *)
(* scales any more, and a session it ends is not told to be over.          *)
RunnerEnds == /\ task.at # "ended"
              /\ task' = [Looking EXCEPT !.at = "ended"]
              /\ UNCHANGED <<finder, connected, beaten>>
Over == task.at = "ended" /\ UNCHANGED vars

Offers == {{"AcaiaNew", "Bookoo"}, {"AcaiaOld"}, {"Generic", "Decent"}, {"WeighMyBru"}, {}}
Next == \/ Advertised \/ ScanFails \/ Found \/ ConnectFails \/ Disconnected
        \/ Weighed \/ Deadline \/ Clock \/ RunnerEnds \/ Over
        \/ \E offered \in Offers : Connects(offered)

(* Time passes and the timer fires; a found scale is connected to. *)
Fairness == WF_vars(Clock) /\ WF_vars(Deadline) /\ WF_vars(Found)
Spec == Init /\ [][Next]_vars /\ Fairness

-----------------------------------------------------------------------------
TypeOK ==
  /\ task.at \in {"scanning", "connecting", "session", "pause", "ended"}
  /\ task.packet \in 0 .. MaxPacketPeriod + 1
  /\ task.beat \in 0 .. HeartbeatPeriod \cup 0 .. Pause
  /\ finder \in [scanning : BOOLEAN, found : BOOLEAN]
  /\ task.at # "ended" => connected = (task.at = "session")

(* An Acaia scale hangs up without its heartbeat: it comes in time however *)
(* many packets there are between.                                         *)
HeartbeatKept == task.at = "session" => beaten <= HeartbeatPeriod

(* A scale that sends no weight for long is given up, whatever else it     *)
(* sends and though its connection lasts; the wait between looks is short. *)
(* Only when the Bluetooth runner returns does nobody look again.          *)
SilentEnds ==
  task.at \in {"session", "pause"}
    ~> task.at \in {"scanning", "ended"} \/ (task.at = "session" /\ task.packet = 0)

(* While the task looks for a scale, it can be found: advertisements are   *)
(* listened to, or one is noted.                                           *)
CanBeFound == task.at = "scanning" => finder.scanning \/ finder.found
=============================================================================
