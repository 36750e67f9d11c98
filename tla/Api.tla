-------------------------------- MODULE Api ---------------------------------
(***************************************************************************)
(* A request to the web API (crates/web/src/lib.rs): what is checked, what *)
(* is changed, and what is answered, in which order.                       *)
(*                                                                         *)
(* A request is a method and a path with credentials.  Its handler waits   *)
(* for the body and for the answer to be sent; meanwhile other requests,   *)
(* MQTT and the machine change the settings, the credentials among them.   *)
(* A form of parameters is taken pair by pair, while the settings are      *)
(* locked.  Event streams are in HttpPool, the parts of an upload in Ota,  *)
(* a file of settings in ConfigFile, what a command does in Machine.       *)
(***************************************************************************)
EXTENDS Integers, Sequences

CONSTANTS Names,    \* settings, "auth" for the credentials asked for
          Levels,   \* values they have, "none" if no credentials are
          Forms     \* what may be sent as parameters, pair by pair

VARIABLES settings,  \* the settings in force
          saved,     \* the settings as saving them was last signalled
          draft,     \* the locals of apply_form
          request,   \* the request, where its handler is, and its answer
          restart    \* the restart signalled

vars == <<settings, saved, draft, request, restart>>

(* A value may be left empty; and a pair is bad if it is malformed, of an  *)
(* unknown name, or of a value the parameter cannot have.                  *)
Empty == ""
Bad == "?"
Pairs == [name : Names, value : Levels \cup {Empty, Bad}]
ApiConstants == /\ "auth" \in Names /\ "none" \in Levels /\ Levels \cap {Empty, Bad} = {}
                /\ Forms \subseteq Seq(Pairs)

Settings == [Names -> Levels]
Methods == {"GET", "POST", "PUT", "OPTIONS"}
Kinds == {"Plain", "FactoryReset", "WifiReset"}

-----------------------------------------------------------------------------
(* The handlers.  A heap without room for a copy is busy; a backflush may  *)
(* be rejected, there may be no scale, and a file may be too large.        *)
Reads == {"/api/status", "/api/health", "/api/temperatures", "/api/history", "/api/logs",
          "/api/parameters", "/api/parameter-help", "/api/config", "/api/config/download",
          "/api/ota/status"}
Commands == {"/api/wake", "/api/sleep", "/api/steam", "/api/pid", "/api/backflush",
             "/api/maintenance/reset-backflush-counter", "/api/scale/tare",
             "/api/scale/calibration"}
Bodies == {"/api/setpoint", "/api/parameters", "/api/config/upload", "/api/ota/firmware"}
Restarts == {"/api/restart", "/api/factory-reset", "/api/wifi-reset"}
Gone == {"/api/ota/filesystem", "/api/ota/url"}
(* Pages: files of the user interface, its own routes, and any other path, *)
(* which a phone may ask for to find out whether it is online.             *)
Pages == {"/ui/file.css", "/ui/page", "/other"}

Codes(path) ==
  CASE path \in {"/api/history", "/api/logs"} -> {200, 503}
    [] path = "/api/parameter-help" -> {200, 422, 404}
    [] path = "/ui/file.css" -> {200, 404}
    [] path = "/other" -> {302}
    [] OTHER -> {200}
Refusals(path) ==
  CASE path = "/api/backflush" -> {400}
    [] path \in {"/api/scale/tare", "/api/scale/calibration"} -> {404}
    [] path = "/api/config/upload" -> {413, 503}
    [] path = "/api/ota/firmware" -> {400, 409}
    [] OTHER -> {}
Restart(path) == CASE path = "/api/restart" -> "Plain"
                   [] path = "/api/factory-reset" -> "FactoryReset"
                   [] path = "/api/wifi-reset" -> "WifiReset"

Handled == {"GET"} \X (Reads \cup Pages)
           \cup {"POST"} \X (Commands \cup Bodies \cup Restarts \cup Gone)

(* The table, kept by hand, that tells a wrong method from an unknown path. *)
ROUTES ==
  {"GET"} \X {"/api/status", "/api/health", "/api/temperatures", "/api/history", "/api/logs",
              "/api/parameters", "/api/parameter-help", "/api/config", "/api/config/download",
              "/api/ota/status"}
  \cup
  {"POST"} \X {"/api/parameters", "/api/config/upload", "/api/ota/firmware", "/api/setpoint",
               "/api/wake", "/api/sleep", "/api/steam", "/api/pid", "/api/backflush",
               "/api/maintenance/reset-backflush-counter", "/api/scale/tare",
               "/api/scale/calibration", "/api/restart", "/api/factory-reset", "/api/wifi-reset"}
Listed(path) == \E m \in Methods : <<m, path>> \in ROUTES

Paths == Reads \cup Commands \cup Bodies \cup Restarts \cup Gone \cup Pages \cup {"/api/other"}

-----------------------------------------------------------------------------
None == [at |-> "none", method |-> "GET", path |-> "/other", code |-> 0,
         allowed |-> FALSE, then |-> "none"]
NoDraft == [form |-> <<>>, taken |-> 0, next |-> [n \in Names |-> "none"], changed |-> FALSE]
Init == /\ settings \in Settings /\ saved = settings
        /\ draft = NoDraft /\ request = None /\ restart = "none"

Authorized(credentials) == settings["auth"] = "none" \/ credentials = settings["auth"]

(* Settings change, and saving them is signalled, or they stay.            *)
Changes == settings' \in Settings /\ saved' = settings'
Kept == UNCHANGED <<settings, saved>>

Answer(r, code, then) == request' = [r EXCEPT !.at = "answer", !.code = code, !.then = then]
Tells(r, codes) == Kept /\ \E code \in codes : Answer(r, code, "none")

(* A mutant: the restart follows whatever came of the update. *)
UploadedAny(r, result) ==
  Answer(r, CASE result = "ok" -> 200 [] result = "busy" -> 409 [] OTHER -> 400, "Plain")
Uploaded(r, result) ==
  Answer(r, CASE result = "ok" -> 200 [] result = "busy" -> 409 [] OTHER -> 400,
         IF result = "ok" THEN "Plain" ELSE "none")

(* What comes of a request, up to its body.                                *)
Handle(r) ==
  \/ r.method = "GET" /\ r.path \in Reads \cup Pages /\ Tells(r, Codes(r.path))
  \/ /\ r.method = "POST" /\ r.path \in Commands
     /\ (Changes /\ Answer(r, 200, "none")) \/ Tells(r, Refusals(r.path))
  \/ /\ r.method = "POST" /\ r.path \in Bodies
     /\ (Kept /\ request' = r) \/ Tells(r, Refusals(r.path))
  \/ /\ r.method = "POST" /\ r.path \in Restarts
     /\ Kept /\ Answer(r, 200, Restart(r.path))
  \/ r.method = "POST" /\ r.path \in Gone /\ Tells(r, {410})
  \/ /\ <<r.method, r.path>> \notin Handled
     /\ Tells(r, {IF Listed(r.path) THEN 405 ELSE 404})

(* Credentials first, then what needs no memory, then the handlers; memory *)
(* may be low at any time.                                                 *)
Begin(method, path, credentials, low) ==
  LET r == [at |-> "body", method |-> method, path |-> path, code |-> 0,
            allowed |-> Authorized(credentials), then |-> "none"]
  IN  /\ request.at = "none"
      /\ UNCHANGED <<draft, restart>>
      /\ \/ ~Authorized(credentials) /\ Tells(r, {401})
         \/ Authorized(credentials) /\ method = "OPTIONS" /\ Tells(r, {204})
         \/ /\ Authorized(credentials) /\ method # "OPTIONS"
            /\ IF low /\ path # "/api/health" THEN Tells(r, {503}) ELSE Handle(r)

-----------------------------------------------------------------------------
(* The body arrived, or it was cut off: of a file or an image nothing is   *)
(* applied then, a setpoint or a form is taken as far as it came.          *)
Setpoint ==
  /\ request.at = "body" /\ request.path = "/api/setpoint"
  /\ \/ /\ \E n \in Names \ {"auth"}, v \in Levels : settings' = [settings EXCEPT ![n] = v]
        /\ saved' = settings' /\ Answer(request, 200, "none")
     \/ Tells(request, {400})
  /\ UNCHANGED <<draft, restart>>

ConfigUploaded(whole) ==
  /\ request.at = "body" /\ request.path = "/api/config/upload"
  /\ \/ whole /\ Changes /\ Answer(request, 200, "none")
     \/ Tells(request, {400})
  /\ UNCHANGED <<draft, restart>>

FirmwareUploaded(whole) ==
  /\ request.at = "body" /\ request.path = "/api/ota/firmware"
  /\ \/ whole /\ Uploaded(request, "ok")
     \/ Uploaded(request, "failed")
  /\ Kept /\ UNCHANGED <<draft, restart>>

(* apply_form: the settings are copied, and pairs put into the copy. *)
Clone(form) ==
  /\ request.at = "body" /\ request.path = "/api/parameters"
  /\ request' = [request EXCEPT !.at = "form"]
  /\ draft' = [form |-> form, taken |-> 0, next |-> settings, changed |-> FALSE]
  /\ Kept /\ UNCHANGED restart

(* The pair to take, if there is one left. *)
Taking(values) == /\ request.at = "form" /\ draft.taken < Len(draft.form)
                  /\ draft.form[draft.taken + 1].value \in values
PairSkipped == /\ Taking({Empty})
               /\ draft' = [draft EXCEPT !.taken = @ + 1]
               /\ Kept /\ UNCHANGED <<request, restart>>
PairRefused == /\ Taking({Bad})
               /\ draft' = NoDraft
               /\ Tells(request, {400}) /\ UNCHANGED restart
(* A mutant: the last pair alone says whether anything changed. *)
PairTakenLast ==
  LET pair == draft.form[draft.taken + 1]
  IN  /\ Taking(Levels)
      /\ draft' = [draft EXCEPT !.taken = @ + 1, !.next[pair.name] = pair.value,
                                !.changed = draft.next[pair.name] # pair.value]
      /\ Kept /\ UNCHANGED <<request, restart>>
(* A mutant: the settings themselves are changed, not a copy. *)
PairTakenInPlace ==
  LET pair == draft.form[draft.taken + 1]
  IN  /\ Taking(Levels)
      /\ draft' = [draft EXCEPT !.taken = @ + 1, !.next[pair.name] = pair.value,
                                !.changed = @ \/ draft.next[pair.name] # pair.value]
      /\ settings' = draft'.next
      /\ UNCHANGED <<saved, request, restart>>
PairTaken ==
  LET pair == draft.form[draft.taken + 1]
  IN  /\ Taking(Levels)
      /\ draft' = [draft EXCEPT !.taken = @ + 1, !.next[pair.name] = pair.value,
                                !.changed = @ \/ draft.next[pair.name] # pair.value]
      /\ Kept /\ UNCHANGED <<request, restart>>

(* The copy is put in force; it is saved if anything changed on the way. *)
FormCommitted == /\ request.at = "form" /\ draft.taken = Len(draft.form)
                 /\ settings' = draft.next
                 /\ saved' = IF draft.changed THEN settings' ELSE saved
                 /\ Answer(request, 200, "none")
                 /\ draft' = NoDraft /\ UNCHANGED restart

(* The answer was sent, or was not, and a restart that was asked for       *)
(* follows; none does if what is left of the body cannot be read.          *)
Sent == /\ request.at = "answer"
        /\ request' = None
        /\ restart' \in IF request.then = "none" THEN {restart} ELSE {restart, request.then}
        /\ Kept /\ UNCHANGED draft

(* Others change settings, but not those that a form has locked. *)
Others == request.at # "form" /\ Changes /\ UNCHANGED <<draft, request, restart>>

Next == \/ \E m \in Methods, p \in Paths, c \in Levels, low \in BOOLEAN : Begin(m, p, c, low)
        \/ Setpoint
        \/ (\E whole \in BOOLEAN : ConfigUploaded(whole) \/ FirmwareUploaded(whole))
        \/ (\E form \in Forms : Clone(form))
        \/ PairSkipped \/ PairRefused \/ PairTaken \/ FormCommitted
        \/ Sent \/ Others
Spec == Init /\ [][Next]_vars

-----------------------------------------------------------------------------
TypeOK ==
  /\ settings \in Settings /\ saved \in Settings
  /\ request \in [at : {"none", "body", "form", "answer"}, method : Methods, path : Paths,
                  code : 0 .. 503, allowed : BOOLEAN, then : Kinds \cup {"none"}]
  /\ draft.form \in Forms \cup {<<>>} /\ draft.taken \in 0 .. Len(draft.form)
  /\ draft.next \in Settings /\ draft.changed \in BOOLEAN
  /\ restart \in Kinds \cup {"none"}

(* What a form makes of settings: each name gets the last value that is    *)
(* given for it, and keeps its own if there is none.                       *)
Gives(pair, n) == pair.name = n /\ pair.value # Empty
Result(s, form, t) ==
  \A n \in Names :
    \/ /\ t[n] = s[n]
       /\ \A i \in 1 .. Len(form) : ~Gives(form[i], n)
    \/ \E i \in 1 .. Len(form) :
         /\ Gives(form[i], n) /\ t[n] = form[i].value
         /\ \A j \in i + 1 .. Len(form) : ~Gives(form[j], n)

(* A form is taken whole or not at all: with a bad pair anywhere it leaves *)
(* the settings as they are and is refused; else all its values are in     *)
(* force at once, over settings as they are just then.                     *)
FormsWhole ==
  [][ request.at = "form" /\ (settings' # settings \/ request'.at = "answer")
        => IF \E i \in 1 .. Len(draft.form) : draft.form[i].value = Bad
           THEN settings' = settings /\ request'.code = 400
           ELSE Result(settings, draft.form, settings') /\ request'.code = 200 ]_vars

(* No change of the settings is missed by their saving, though a form      *)
(* finds out pair by pair whether it changes anything.                     *)
ChangesSaved == saved = settings

(* What is refused has changed nothing, nor does an update that failed     *)
(* restart the device.                                                     *)
RefusedChangesNothing ==
  [][/\ request' # request /\ settings' # settings => request'.code = 200
     /\ restart' # restart => request.code = 200]_vars

(* Only who had the credentials that were asked for changes anything or    *)
(* restarts the device, also when others come to be asked for later.       *)
OnlyAuthorized ==
  [][ (request' # request /\ settings' # settings) \/ restart' # restart
        => request.allowed \/ request'.allowed ]_vars

(* A wrong method is told from an unknown path, though the table that says *)
(* so is kept apart from the handlers; only what is gone is not listed.    *)
WrongMethodIsTold ==
  request.at = "answer" /\ request.allowed /\ request.method # "OPTIONS" =>
    /\ <<request.method, request.path>> \notin Handled /\ request.path \notin Gone
       /\ (\E m \in Methods : <<m, request.path>> \in Handled) /\ request.path \notin Pages
         => request.code \in {405, 503}
    /\ <<request.method, request.path>> \in Handled => request.code # 405
=============================================================================
