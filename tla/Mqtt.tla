-------------------------------- MODULE Mqtt --------------------------------
(***************************************************************************)
(* The MQTT client (firmware/src/net/mqtt.rs, crates/mqtt): it connects,   *)
(* publishes what has changed, sends the discovery, applies messages and   *)
(* keeps the connection alive.                                             *)
(*                                                                         *)
(* External: the broker, which drops a client that is silent for one and a *)
(* half keep-alive intervals and then publishes its will; those who follow *)
(* the topics; and the link.  Of the entities those differ that need       *)
(* different settings.  Time is in units of the shortest period.           *)
(***************************************************************************)
EXTENDS Integers, FiniteSets

CONSTANTS Needs,       \* the entities, by what they need
          Values,      \* what an entity may show
          KeepAlive,   \* KEEP_ALIVE_S
          Interval,    \* INTERVAL_MS
          Discovery,   \* DISCOVERY_INTERVAL_MS
          Retry        \* RETRY

MqttConstants == {KeepAlive, Interval, Discovery, Retry} \subseteq Nat

VARIABLES task,    \* where the task is and its clocks: to the next round of values
                   \* and of discovery, since the last packet, and for the pause
          known,   \* ChangeFilter: what each entity last published, or NotKnown
          value,   \* what each entity shows
          met,     \* the entities that the settings ask for
          broker   \* holds: the client's session; reached: by its packets; silent:
                   \* since the last one; status and state: what it told others

vars == <<task, known, value, met, broker>>

NotKnown == "?"
Nothing == [e \in Needs |-> NotKnown]
Capped(n, limit) == IF n >= limit THEN limit ELSE n + 1
Down(n) == IF n = 0 THEN 0 ELSE n - 1

Off(pause) == [at |-> "off", publish |-> 0, discover |-> 0, sent |-> 0, left |-> pause]

Init == /\ task = Off(0)
        /\ known = Nothing
        /\ value \in [Needs -> Values] /\ met \in SUBSET Needs
        /\ broker = [holds |-> FALSE, reached |-> FALSE, silent |-> 0,
                     status |-> "offline", state |-> Nothing]

-----------------------------------------------------------------------------
(* Connecting may fail: no address, no broker, a refusal.  A session that  *)
(* the broker still holds is taken over, its will published first.         *)
Fails == /\ task.at = "off" /\ task.left = 0
         /\ task' = Off(Retry)
         /\ UNCHANGED <<known, value, met, broker>>
Connects == /\ task.at = "off" /\ task.left = 0
            /\ task' = [Off(0) EXCEPT !.at = "connected"]
            /\ broker' = [broker EXCEPT !.holds = TRUE, !.reached = TRUE, !.silent = 0,
                            !.status = IF broker.holds THEN "offline" ELSE @]
            /\ UNCHANGED <<known, value, met>>

(* A packet counts if it reaches a broker that holds the session. *)
Hears(new) == broker' = IF broker.holds /\ broker.reached THEN [new EXCEPT !.silent = 0] ELSE broker
(* A mutant: the filter lives on from one session to the next. *)
SaysOnlineKnowing == /\ task.at = "connected"
                     /\ task' = [task EXCEPT !.at = "loop"]
                     /\ Hears([broker EXCEPT !.status = "online"])
                     /\ UNCHANGED <<known, value, met>>
(* Online, retained; then the subscription, and the clocks of the session. *)
SaysOnline == /\ task.at = "connected"
              /\ task' = [task EXCEPT !.at = "loop"]
              /\ known' = Nothing
              /\ Hears([broker EXCEPT !.status = "online"])
              /\ UNCHANGED <<value, met>>

(* ChangeFilter::changed, for the entities whose needs are met: those that *)
(* differ from what they last published.                                   *)
Changed == {e \in met : known[e] # value[e]}
PingDue(sent) == sent >= KeepAlive \div 2

(* One pass through the loop, with all of it that is due: values, then     *)
(* discovery, then a ping unless a packet was sent.                        *)
Round == task.publish = 0
Discovers == task.discover = 0
Published == IF Round THEN Changed ELSE {}
Announced(hassio) == IF Discovers /\ hassio THEN met ELSE {}
Pass(hassio, interval) ==
  LET sent == IF Published \cup Announced(hassio) # {} THEN 0 ELSE task.sent
      ping == PingDue(sent)
  IN  /\ task.at = "loop"
      /\ Round \/ Discovers \/ PingDue(task.sent)
      /\ task' = [task EXCEPT !.publish = IF Round THEN interval ELSE @,
                              !.discover = IF Discovers THEN Discovery ELSE @,
                              !.sent = IF ping THEN 0 ELSE sent]
      /\ known' = [e \in Needs |-> IF e \in Published THEN value[e] ELSE known[e]]
      /\ IF Published \cup Announced(hassio) # {} \/ ping
         THEN Hears([broker EXCEPT
                       !.state = [e \in Needs |-> IF e \in Published THEN value[e] ELSE @[e]]])
         ELSE UNCHANGED broker
      /\ UNCHANGED <<value, met>>

(* A message: a parameter, a command, or nothing that the entities take.   *)
(* The new state is to be seen at once.                                    *)
HandleIncoming(e, v) ==
  /\ task.at = "loop"
  /\ value' = IF e \in met THEN [value EXCEPT ![e] = v] ELSE value
  /\ task' = [task EXCEPT !.publish = 0]
  /\ UNCHANGED <<known, met, broker>>

(* Any wait for the connection may end the session; one that is dead does, *)
(* after a while.                                                          *)
Dies == broker.reached /\ broker' = [broker EXCEPT !.reached = FALSE]
        /\ UNCHANGED <<task, known, value, met>>
Ends == /\ task.at \in {"connected", "loop"}
        /\ task' = Off(Retry)
        /\ broker' = [broker EXCEPT !.reached = FALSE]
        /\ UNCHANGED <<known, value, met>>

(* The broker drops a client that is gone or silent, and says so; it then  *)
(* closes the connection.                                                  *)
Drops == /\ broker.holds
         /\ ~broker.reached \/ 2 * broker.silent > 3 * KeepAlive
         /\ broker' = [broker EXCEPT !.holds = FALSE, !.reached = FALSE, !.status = "offline"]
         /\ UNCHANGED <<task, known, value, met>>

(* The machine, its settings, and time; what is due in the loop is done    *)
(* first.                                                                  *)
Shows(e, v) == value' = [value EXCEPT ![e] = v] /\ UNCHANGED <<task, known, met, broker>>
Sets(e) == /\ met' = IF e \in met THEN met \ {e} ELSE met \cup {e}
           /\ UNCHANGED <<task, known, value, broker>>
Due == task.at = "loop" /\ (Round \/ Discovers \/ PingDue(task.sent))
Clock == /\ ~Due
         /\ task' = [task EXCEPT !.publish = Down(@), !.discover = Down(@), !.left = Down(@),
                                 !.sent = IF task.at = "loop" THEN @ + 1 ELSE @]
         /\ broker' = [broker EXCEPT !.silent = IF broker.holds THEN Capped(@, (3 * KeepAlive) \div 2 + 1) ELSE 0]
         /\ UNCHANGED <<known, value, met>>

APass == \E hassio \in BOOLEAN, interval \in {Interval, 2 * Interval} : Pass(hassio, interval)
Next == \/ Fails \/ Connects \/ SaysOnline \/ APass \/ Ends \/ Dies \/ Drops \/ Clock
        \/ \E e \in Needs : Sets(e) \/ \E v \in Values : HandleIncoming(e, v) \/ Shows(e, v)

(* Time passes, the task goes on, the broker notices a client that is      *)
(* lost, and TCP a connection that is dead.                                *)
Fairness == /\ WF_vars(Clock) /\ WF_vars(APass \/ SaysOnline) /\ WF_vars(Drops)
            /\ WF_vars(~broker.reached /\ Ends)
Spec == Init /\ [][Next]_vars /\ Fairness

-----------------------------------------------------------------------------
TypeOK ==
  /\ task.at \in {"off", "connected", "loop"}
  /\ task.sent \in 0 .. KeepAlive
  /\ value \in [Needs -> Values] /\ met \subseteq Needs
  /\ broker.status \in {"online", "offline"}

(* A session that lasts is never dropped for silence, though rounds of     *)
(* unchanged values send nothing.                                          *)
NeverSilent ==
  task.at = "loop" /\ broker.reached /\ broker.holds => 2 * broker.silent <= 3 * KeepAlive

(* What the filter thinks the broker has is what it has: nothing that was  *)
(* lost with an earlier session is held back.                              *)
FilterTrue ==
  task.at = "loop" /\ broker.reached /\ broker.holds =>
    \A e \in Needs : known[e] \in {NotKnown, broker.state[e]}

(* The broker gets to know each value, in a session that lasts.            *)
ValuesArrive ==
  \A e \in Needs : task.at = "loop" /\ e \in met
    ~> ~broker.reached \/ e \notin met \/ broker.state[e] = value[e]

(* The machine is shown as available only while it is.                     *)
OfflineTold == ~broker.reached ~> broker.status = "offline" \/ broker.reached
=============================================================================
