-------------------------------- MODULE Wifi --------------------------------
(***************************************************************************)
(* The WiFi task (firmware/src/net/mod.rs): it connects to the home        *)
(* network, opens the fallback access point when that fails for long, and  *)
(* restarts the device to close it when the home network is back.          *)
(*                                                                         *)
(* External: the networks, the driver, phones that join the access point,  *)
(* and the machine, which is busy or not.  Time is in retry periods.  The  *)
(* driver is taken to keep the events of the access point for the task     *)
(* while it waits for them (wait_for_station_retry); in an attempt to      *)
(* connect, and elsewhere, they are missed.                                *)
(***************************************************************************)
EXTENDS Integers, FiniteSets

CONSTANTS Phones,
          FallbackAfter,  \* AP_FALLBACK_AFTER
          Retry,          \* the pause between attempts
          RetryWithAp     \* STATION_RETRY_WITH_AP

VARIABLES wifi,    \* the task: where it is, its timer, how long it has been
                   \* failing, ap_open (or the portal), ap_clients
          home,    \* the station: linked to the home network, has an address
          phones,  \* on the access point
          shown,   \* net.wifi_connected
          busy     \* not Status::idle_for_restart

vars == <<wifi, home, phones, shown, busy>>

WifiConstants == IsFiniteSet(Phones) /\ {FallbackAfter, Retry, RetryWithAp} \subseteq Nat

NoLink == [link |-> FALSE, address |-> FALSE]
Away == UNCHANGED <<home, phones, shown, busy>>
To(at, time) == [wifi EXCEPT !.at = at, !.left = time]

Boot == [at |-> "connecting", left |-> 0, failing |-> 0, ap |-> FALSE, clients |-> 0]

(* Without a network in the settings the access point is open for good.    *)
Init == /\ wifi \in {Boot, [Boot EXCEPT !.at = "portal", !.ap = TRUE]}
        /\ home = NoLink /\ phones = {} /\ shown = FALSE
        /\ busy \in BOOLEAN

-----------------------------------------------------------------------------
Connects == /\ wifi.at = "connecting"
            /\ wifi' = To("address", 0)
            /\ home' = [NoLink EXCEPT !.link = TRUE]
            /\ UNCHANGED <<phones, shown, busy>>

(* Failing for long opens the access point, if the driver takes it.        *)
Waits(ap) == [wifi EXCEPT !.at = IF ap THEN "retry" ELSE "pause", !.ap = ap,
                          !.left = IF ap THEN RetryWithAp ELSE Retry]
TooLong == ~wifi.ap /\ wifi.failing > FallbackAfter
ConnectFails == wifi.at = "connecting" /\ wifi' = Waits(wifi.ap) /\ Away
OpensAp == wifi.at = "connecting" /\ TooLong /\ wifi' = Waits(TRUE) /\ Away

PauseEnds == wifi.at = "pause" /\ wifi.left = 0 /\ wifi' = To("connecting", 0) /\ Away

(* With the access point open: no attempt while a client is on it, which   *)
(* the task knows from the events that come while it waits here.           *)
RetryEnds == /\ wifi.at = "retry" /\ wifi.left = 0
             /\ wifi' = IF wifi.clients = 0 THEN To("connecting", 0) ELSE To("retry", RetryWithAp)
             /\ Away
Listening == wifi.at = "retry"
Joins(p) == /\ wifi.ap /\ p \notin phones
            /\ phones' = phones \cup {p}
            /\ wifi' = IF Listening THEN [wifi EXCEPT !.clients = @ + 1] ELSE wifi
            /\ UNCHANGED <<home, shown, busy>>
(* A mutant: a phone that leaves is not taken off the count. *)
LeavesUncounted(p) == /\ p \in phones
                      /\ phones' = phones \ {p}
                      /\ UNCHANGED <<wifi, home, shown, busy>>
Leaves(p) == /\ p \in phones
             /\ phones' = phones \ {p}
             /\ wifi' = [wifi EXCEPT !.clients = IF Listening /\ @ > 0 THEN @ - 1 ELSE @]
             /\ UNCHANGED <<home, shown, busy>>

(* Connected: the task waits for an address, however long, and then for    *)
(* the link to drop, or for a moment to restart in.                        *)
GotAddress == /\ wifi.at = "address" /\ home.address
              /\ wifi' = To(IF wifi.ap THEN "closing" ELSE "connected", 0)
              /\ shown' = TRUE
              /\ UNCHANGED <<home, phones, busy>>
Disconnects == /\ wifi.at = "connected" /\ ~home.link
               /\ wifi' = [To("connecting", 0) EXCEPT !.failing = 0]
               /\ shown' = FALSE
               /\ UNCHANGED <<home, phones, busy>>
RestartsWhenIdle == /\ wifi.at = "closing" /\ ~busy
                    /\ wifi' = To("restarting", 0)
                    /\ Away

(* The storage task restarts the device. *)
Restarted == /\ wifi.at = "restarting"
             /\ wifi' = Boot
             /\ home' = NoLink /\ phones' = {} /\ shown' = FALSE /\ busy' = FALSE

(* The home network, the machine, and time. *)
Leased == /\ home.link
          /\ home' = [home EXCEPT !.address = TRUE]
          /\ UNCHANGED <<wifi, phones, shown, busy>>
LinkLost == home.link /\ home' = NoLink /\ UNCHANGED <<wifi, phones, shown, busy>>
Works == busy' = ~busy /\ UNCHANGED <<wifi, home, phones, shown>>
Clock == /\ wifi.at \in {"pause", "retry", "connecting"}
         /\ wifi' = [wifi EXCEPT !.left = IF @ = 0 THEN 0 ELSE @ - 1,
                                 !.failing = IF @ > FallbackAfter \/ wifi.ap THEN @ ELSE @ + 1]
         /\ Away

Attempt == Connects \/ ConnectFails \/ OpensAp
Steps == PauseEnds \/ RetryEnds \/ GotAddress \/ Disconnects \/ RestartsWhenIdle \/ Restarted
Task == Attempt \/ Steps
Next == Task \/ Leased \/ LinkLost \/ Works \/ Clock \/ (\E p \in Phones : Joins(p) \/ Leaves(p))

(* An attempt ends; a driver asked again and again to open the access      *)
(* point does it; timers fire; the task goes on when it can.               *)
Fairness == WF_vars(Clock) /\ WF_vars(Steps) /\ WF_vars(Attempt) /\ SF_vars(OpensAp)
Spec == Init /\ [][Next]_vars /\ Fairness

-----------------------------------------------------------------------------
Places == {"portal", "connecting", "address", "connected", "pause", "retry", "closing",
           "restarting"}
TypeOK ==
  /\ wifi \in [at : Places, left : 0 .. Retry + RetryWithAp, failing : 0 .. FallbackAfter + 1,
               ap : BOOLEAN, clients : 0 .. Cardinality(Phones)]
  /\ home \in [link : BOOLEAN, address : BOOLEAN]
  /\ phones \subseteq Phones
  /\ shown \in BOOLEAN /\ busy \in BOOLEAN

(* The task never counts more clients than there are, though it misses the *)
(* events of its attempts: or it would never try the home network again.   *)
NeverOvercounted == wifi.clients <= Cardinality(phones)

(* A device that cannot connect opens the access point, so that its user   *)
(* can reach it, however its attempts end.                                 *)
FallbackOpens == wifi.at \in {"connecting", "pause"} ~> wifi.ap \/ home.link

(* With no phone on the access point the home network is tried again.      *)
HomeRetried == wifi.at = "retry" ~> wifi.at = "connecting" \/ phones # {}

(* The access point, with its printed password, does not stay open beside  *)
(* the home network: the device restarts as soon as the machine is idle.   *)
ApCloses == wifi.at # "portal" /\ wifi.ap /\ home.address ~> ~wifi.ap \/ busy \/ ~home.address
=============================================================================
