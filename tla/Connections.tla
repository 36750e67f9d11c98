----------------------------- MODULE Connections -----------------------------
(***************************************************************************)
(* The machine's network side: the HTTP workers, the home network, a       *)
(* request to the web API, the MQTT client, and what travels in requests   *)
(* and answers: the config file, an upload, the log, the chart.  They      *)
(* share no state that their modules keep, so that one behaviour takes the *)
(* steps of one of them, `live'; the others stay as they begin.            *)
(***************************************************************************)
EXTENDS HttpPool, Sequences

CONSTANTS Phones, FallbackAfter, Retry, RetryWithAp,
          Names, Levels, Forms,
          Needs, Shown, KeepAlive, Interval, Discovery, Reconnect,
          Keys, Values, Texts, Refused, MaxDepth,
          Characters, Boundary, Uploads, Preambles, ChunkMax, HeadersMax,
          Capacity, Lengths, LineMax, TotalMax,
          Length, Every, Second, Late, SamplesMax

VARIABLES live,
          wifi, home, phones, connected, busy,
          settings, saved, draft, request, restart,
          client, known, value, met, broker,
          file, reader, import, cfg, result,
          sent, input, parser, given,
          ring, logged,
          elapsed, samples, history, answer

Net == INSTANCE Wifi WITH shown <- connected
Web == INSTANCE Api
Mqt == INSTANCE Mqtt WITH Values <- Shown, Retry <- Reconnect, task <- client
Fil == INSTANCE ConfigFile
Upl == INSTANCE Multipart
Log == INSTANCE LogRing
His == INSTANCE History

ASSUME ConnectionConstants ==
  /\ Net!WifiConstants /\ Web!ApiConstants /\ Mqt!MqttConstants
  /\ Upl!UploadConstants /\ Log!LogConstants /\ His!HistoryConstants

netVars == <<wifi, home, phones, connected, busy>>
webVars == <<settings, saved, draft, request, restart>>
mqtVars == <<client, known, value, met, broker>>
fileVars == <<file, reader, import, cfg, result>>
uplVars == <<sent, input, parser, given>>
logVars == <<ring, logged>>
historyVars == <<elapsed, samples, history, answer>>
connectionVars == <<live, vars, netVars, webVars, mqtVars, fileVars, uplVars, logVars,
                    historyVars>>

ConnectionInit ==
  /\ live \in {"pool", "net", "web", "mqtt", "file", "upload", "log", "history"}
  /\ Init
  /\ Net!Init /\ (live # "net" => wifi.at = "portal" /\ ~busy)
  /\ Web!Init /\ (live # "web" => settings = [n \in Names |-> "none"])
  /\ Mqt!Init /\ (live # "mqtt" => met = {} /\ value = [e \in Needs |-> CHOOSE v \in Shown : TRUE])
  /\ Fil!Init /\ (live # "file" => file = [text |-> <<>>, meant |-> <<>>])
  /\ Upl!Init /\ (live # "upload" => /\ sent.parts = (CHOOSE parts \in Uploads : TRUE)
                                      /\ sent.preamble = (CHOOSE preamble \in Preambles : TRUE))
  /\ Log!Init
  /\ His!Init

Idle(part, partVars) == IF live = part THEN TRUE ELSE UNCHANGED partVars
ConnectionNext ==
  /\ UNCHANGED live
  /\ \/ live = "pool" /\ Next
     \/ live = "net" /\ Net!Next
     \/ live = "web" /\ Web!Next
     \/ live = "mqtt" /\ Mqt!Next
     \/ live = "file" /\ Fil!Next
     \/ live = "upload" /\ Upl!Next
     \/ live = "log" /\ Log!Next
     \/ live = "history" /\ His!Next
  /\ Idle("pool", vars) /\ Idle("net", netVars) /\ Idle("web", webVars) /\ Idle("mqtt", mqtVars)
  /\ Idle("file", fileVars) /\ Idle("upload", uplVars) /\ Idle("log", logVars)
  /\ Idle("history", historyVars)

(* The fairness of the parts, for the one that is live. *)
PoolFairness == \A w \in Workers : WF_vars(live = "pool" /\ Goes(w))
NetFairness ==
  /\ WF_netVars(live = "net" /\ Net!Clock)
  /\ WF_netVars(live = "net" /\ Net!Steps)
  /\ WF_netVars(live = "net" /\ Net!Attempt)
  /\ SF_netVars(live = "net" /\ Net!OpensAp)
MqttFairness ==
  /\ WF_mqtVars(live = "mqtt" /\ Mqt!Clock)
  /\ WF_mqtVars(live = "mqtt" /\ (Mqt!APass \/ Mqt!SaysOnline))
  /\ WF_mqtVars(live = "mqtt" /\ Mqt!Drops)
  /\ WF_mqtVars(live = "mqtt" /\ ~broker.reached /\ Mqt!Ends)

ConnectionSpec == /\ ConnectionInit /\ [][ConnectionNext]_connectionVars
                  /\ PoolFairness /\ NetFairness /\ MqttFairness

-----------------------------------------------------------------------------
(* The promises of the parts; each is stated and explained in its module.  *)

(* No phone keeps the device from its home network that is not there.      *)
PhonesCounted == Net!TypeOK /\ Net!NeverOvercounted

(* The device stays reachable: by its home network, or by an access point  *)
(* that closes again; a connection gets a worker; and the broker gets to   *)
(* know what is so, or that the device is gone.                            *)
Reachable == /\ Served
             /\ Net!FallbackOpens /\ Net!HomeRetried /\ Net!ApCloses
             /\ Mqt!ValuesArrive /\ Mqt!OfflineTold

(* Who is refused changes nothing, what is refused has changed nothing, a  *)
(* form is taken whole or not at all, and what is changed is saved.        *)
RequestsChecked ==
  /\ [](Web!TypeOK /\ Web!WrongMethodIsTold /\ Web!ChangesSaved)
  /\ Web!FormsWhole /\ Web!OnlyAuthorized /\ Web!RefusedChangesNothing

(* The broker keeps the session and knows what the client thinks it knows. *)
BrokerTold == Mqt!TypeOK /\ Mqt!NeverSilent /\ Mqt!FilterTrue

(* What is uploaded arrives as it was sent, however it is cut into chunks.  *)
UploadsWhole == Upl!PartsWhole

(* A config file brings all its settings back, or changes none.            *)
FilesRestore == Fil!FileRestores

(* A follower of the log gets all that was logged since, or the lines      *)
(* after the first break that is kept; the arrays of the chart speak of    *)
(* the same, evenly spaced samples.                                        *)
AnswersTrue == Log!AnswersTrue /\ His!TypeOK /\ His!ChartTrue
=============================================================================
