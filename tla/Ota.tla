-------------------------------- MODULE Ota --------------------------------
(***************************************************************************)
(* Firmware updates: uploads by several HTTP workers into the slot that is *)
(* not running, the interlock that keeps the actuators off meanwhile, and  *)
(* the restart that starts the new image                                   *)
(* (src/firmware/src/ota.rs, src/crates/web/src/lib.rs, storage.rs).       *)
(*                                                                         *)
(* Data comes in units: some make a sector, and an upload is its units in  *)
(* order.  The image a client sends is a good one; what goes wrong is the  *)
(* connection, the form around it, or the flash.                           *)
(***************************************************************************)
EXTENDS Integers, Sequences

CONSTANTS
  Workers,        (* the HTTP workers                                       *)
  None,           (* neither a worker nor a slot nor a session              *)
  Sectors,        (* sectors of a slot                                      *)
  PerSector,      (* units in a sector                                      *)
  MaxRead,        (* units that one read of the body may give               *)
  MaxUnits        (* bound on the units of an upload                        *)

Slot == {0, 1}
Other(slot) == 1 - slot
Unit == Workers \X (1..MaxUnits)
Session == [written : 0..Sectors, sector : Seq(Unit)]
NewSession == [written |-> 0, sector |-> <<>>]

ASSUME OtaAssumption ==
  /\ None \notin Workers /\ None \notin Slot /\ None \notin Session
  /\ Sectors \in Nat /\ PerSector \in Nat \ {0}
  /\ MaxRead \in Nat /\ MaxUnits \in Nat

VARIABLES
  running, active,        (* the slot that was booted, the one otadata says *)
  good,                   (* the slots that hold a complete image           *)
  put,                    (* what the last upload has put into each sector  *)
  target,                 (* TARGET: the slot updates go to                 *)
  status, inProgress,     (* PROGRESS                                       *)
  session, lock,          (* SESSION and who holds its mutex                *)
  otaActive,              (* the interlock, read by every tick              *)
  restart,                (* the signal RESTART                             *)
  storage,                (* where the storage task is                      *)
  pc,                     (* where each worker is                           *)
  left, last, sent        (* of a worker: units of the read not yet taken,  *)
                          (* whether the form ends with it, units so far    *)

slots == <<running, active, good, put>>
progress == <<status, inProgress>>
worker == <<left, last, sent>>
vars == <<slots, target, progress, session, lock, otaActive, restart, storage, pc, worker>>

TypeOK ==
  /\ running \in Slot /\ active \in Slot /\ good \subseteq Slot
  /\ put \in [1..Sectors -> Seq(Unit)]
  /\ target \in Slot \cup {None}
  /\ status \in {"idle", "uploading", "complete", "error"} /\ inProgress \in BOOLEAN
  /\ session \in Session \cup {None} /\ lock \in Workers \cup {None}
  /\ otaActive \in BOOLEAN /\ restart \in BOOLEAN
  /\ storage \in {"wait", "grace", "stopping"}
  /\ pc \in [Workers -> {"idle", "read", "write", "finish", "activate", "reply"}]
  /\ left \in [Workers -> 0..MaxRead] /\ last \in [Workers -> BOOLEAN]
  /\ sent \in [Workers -> 0..MaxUnits]

NothingPut == [i \in 1..Sectors |-> <<>>]
EachWorker(x) == [w \in Workers |-> x]

Init ==
  /\ running \in Slot /\ active = running /\ good = {running} /\ put = NothingPut
  /\ target = Other(running)
  /\ status = "idle" /\ inProgress = FALSE
  /\ session = None /\ lock = None
  /\ otaActive = FALSE /\ restart = FALSE /\ storage = "wait"
  /\ pc = EachWorker("idle")
  /\ left = EachWorker(0) /\ last = EachWorker(FALSE) /\ sent = EachWorker(0)

Goto(w, where) == pc' = [pc EXCEPT ![w] = where]

-----------------------------------------------------------------------------
(* begin and abort *)

\* Mutant: an upload that is refused is aborted like one that fails.
BeginAborts(w) ==
  /\ pc[w] = "idle" /\ target # None /\ lock = None
  /\ IF inProgress
       THEN /\ status' = "error" /\ inProgress' = FALSE
            /\ session' = None /\ otaActive' = FALSE
            /\ UNCHANGED <<put, pc>>
       ELSE /\ status' = "uploading" /\ inProgress' = TRUE
            /\ session' = NewSession /\ otaActive' = TRUE /\ put' = NothingPut
            /\ Goto(w, "read")
  /\ UNCHANGED <<running, active, good, target, lock, restart, storage, left, last, sent>>

(* begin; a worker that finds the update in progress, or no slot for it,   *)
(* answers so and changes nothing.  The mark is set before the session is  *)
(* tried; where the session is locked, the mark stays.                     *)
Begin(w) ==
  /\ pc[w] = "idle" /\ target # None /\ ~inProgress
  /\ status' = "uploading" /\ inProgress' = TRUE
  /\ IF lock = None
       THEN /\ session' = NewSession /\ otaActive' = TRUE /\ put' = NothingPut
            /\ Goto(w, "read")
       ELSE UNCHANGED <<session, otaActive, put, pc>>
  /\ UNCHANGED <<running, active, good, target, lock, restart, storage, left, last, sent>>

(* The caller has dropped its guard, then abort: it empties the session    *)
(* unless that is locked.                                                  *)
Abort(w) ==
  /\ session' = (IF lock \in {w, None} THEN None ELSE session)
  /\ lock' = (IF lock = w THEN None ELSE lock)
  /\ status' = "error" /\ inProgress' = FALSE
  /\ otaActive' = FALSE
  /\ Goto(w, "idle")
  /\ left' = [left EXCEPT ![w] = 0] /\ last' = [last EXCEPT ![w] = FALSE]
  /\ sent' = [sent EXCEPT ![w] = 0]

-----------------------------------------------------------------------------
(* ota_upload: the body of the request *)

(* A read that fails, the deadline of the upload, a form that is malformed *)
(* or ends early, data that is not an image.                               *)
ReadFails(w) ==
  /\ pc[w] = "read"
  /\ Abort(w)
  /\ UNCHANGED <<slots, target, restart, storage>>

(* A read gives n units of the image, perhaps the last ones, and write     *)
(* takes the session; or the form ends.                                    *)
Read(w, n, ends) ==
  /\ pc[w] = "read" /\ sent[w] + n <= MaxUnits
  /\ \/ /\ n > 0 /\ lock = None /\ session # None
        /\ lock' = w /\ Goto(w, "write")
        /\ left' = [left EXCEPT ![w] = n] /\ last' = [last EXCEPT ![w] = ends]
        /\ sent' = [sent EXCEPT ![w] = @ + n]
     \/ /\ n = 0 /\ ends
        /\ Goto(w, "finish")
        /\ UNCHANGED <<lock, left, last, sent>>
  /\ UNCHANGED <<slots, target, progress, session, otaActive, restart, storage>>

(* flush_sector with this sector: it is erased and written.                *)
FlushDone(sector) ==
  /\ session.written < Sectors
  /\ put' = [put EXCEPT ![session.written + 1] = sector]

(* There is no room, or the flash fails, before or after it has changed.   *)
FlushFails(sector) ==
  /\ \/ UNCHANGED <<good, put>>
     \/ /\ session.written < Sectors
        /\ good' = good \ {target}
        /\ put' \in {put, [put EXCEPT ![session.written + 1] = sector]}
  /\ UNCHANGED <<running, active>>

(* What a turn of the loop in write puts into the sector being filled.     *)
Take(w) ==
  LET room == PerSector - Len(session.sector)
      n == IF left[w] < room THEN left[w] ELSE room
      first == sent[w] - left[w]
  IN  [i \in 1..n |-> <<w, first + i>>]

(* One turn of the loop; when the sector is full it is flushed.            *)
WriteSome(w) ==
  LET taken == Take(w)
      sector == session.sector \o taken
  IN
  /\ pc[w] = "write" /\ left[w] > 0
  /\ \/ /\ Len(sector) < PerSector
        /\ session' = [session EXCEPT !.sector = sector]
        /\ UNCHANGED slots
     \/ /\ Len(sector) = PerSector
        /\ FlushDone(sector)
        /\ session' = [written |-> session.written + 1, sector |-> <<>>]
        /\ good' = good \ {target}
        /\ UNCHANGED <<running, active>>
  /\ left' = [left EXCEPT ![w] = @ - Len(taken)]
  /\ UNCHANGED <<target, progress, lock, otaActive, restart, storage, pc, last, sent>>

WriteFails(w) ==
  LET sector == session.sector \o Take(w)
  IN
  /\ pc[w] = "write" /\ left[w] > 0 /\ Len(sector) = PerSector
  /\ FlushFails(sector)
  /\ Abort(w)
  /\ UNCHANGED <<target, restart, storage>>

(* write is over and gives the session back.                               *)
WriteDone(w) ==
  /\ pc[w] = "write" /\ left[w] = 0
  /\ lock' = None
  /\ Goto(w, IF last[w] THEN "finish" ELSE "read")
  /\ UNCHANGED <<slots, target, progress, session, otaActive, restart, storage, worker>>

-----------------------------------------------------------------------------
(* finish *)

(* The units sent lie in the sectors in order, each sector full before the *)
(* next, up to the last unit.                                              *)
Whole(w, sectors) ==
  /\ sent[w] <= Sectors * PerSector
  /\ \A i \in 1..Sectors, j \in 1..PerSector :
       LET k == (i - 1) * PerSector + j
       IN  k <= sent[w] => j \in DOMAIN sectors[i] /\ sectors[i][j] = <<w, k>>

Empty == session.written = 0 /\ session.sector = <<>>

\* Mutants: the last sector is not written; the lock is given back when the
\* session has been taken.
FinishWithoutTail(w) ==
  /\ pc[w] = "finish" /\ lock = None /\ session # None /\ ~Empty
  /\ UNCHANGED <<good, put>>
  /\ session' = None /\ lock' = w
  /\ Goto(w, "activate")
  /\ UNCHANGED <<running, active, target, progress, otaActive, restart, storage, worker>>

FinishUnlocked(w) ==
  /\ pc[w] = "finish" /\ lock = None /\ session # None /\ ~Empty
  /\ IF session.sector = <<>> THEN UNCHANGED put ELSE FlushDone(session.sector)
  /\ good' = (IF Whole(w, put') THEN good \cup {target} ELSE good \ {target})
  /\ session' = None /\ lock' = None
  /\ Goto(w, "activate")
  /\ UNCHANGED <<running, active, target, progress, otaActive, restart, storage, worker>>

(* The session is taken and its last sector flushed; finish keeps the lock.*)
(* That write and finish find a session is SessionOwned below.             *)
Finish(w) ==
  /\ pc[w] = "finish" /\ lock = None /\ session # None /\ ~Empty
  /\ IF session.sector = <<>> THEN UNCHANGED put ELSE FlushDone(session.sector)
  /\ good' = (IF Whole(w, put') THEN good \cup {target} ELSE good \ {target})
  /\ session' = None /\ lock' = w
  /\ Goto(w, "activate")
  /\ UNCHANGED <<running, active, target, progress, otaActive, restart, storage, worker>>

(* Nothing was sent, or the flush of the last sector fails.                *)
FinishFails(w) ==
  /\ pc[w] = "finish" /\ lock = None /\ session # None
  /\ \/ Empty /\ UNCHANGED slots
     \/ ~Empty /\ session.sector # <<>> /\ FlushFails(session.sector)
  /\ Abort(w)
  /\ UNCHANGED <<target, restart, storage>>

(* otadata names the slot just written, and the upload is over.            *)
Activate(w) ==
  /\ pc[w] = "activate"
  /\ active' = target
  /\ status' = "complete" /\ inProgress' = FALSE
  /\ lock' = None
  /\ Goto(w, "reply")
  /\ UNCHANGED <<running, good, put, target, session, otaActive, restart, storage, worker>>

\* Mutant: an error of the bootloader's data is passed on without an abort.
ActivateReturns(w) ==
  /\ pc[w] = "activate"
  /\ active' \in {active, target}
  /\ lock' = None
  /\ Goto(w, "idle")
  /\ UNCHANGED <<running, good, put, target, progress, session, otaActive, restart, storage,
                 worker>>

(* Of the two writes to otadata the first may have been done.              *)
ActivateFails(w) ==
  /\ pc[w] = "activate"
  /\ active' \in {active, target}
  /\ Abort(w)
  /\ UNCHANGED <<running, good, put, target, restart, storage>>

(* The answer.  What is left of the request is read first, and an error in *)
(* that ends the handler before the restart.                               *)
Reply(w) ==
  /\ pc[w] = "reply"
  /\ restart' \in {restart, TRUE}
  /\ Goto(w, "idle")
  /\ left' = [left EXCEPT ![w] = 0] /\ last' = [last EXCEPT ![w] = FALSE]
  /\ sent' = [sent EXCEPT ![w] = 0]
  /\ UNCHANGED <<slots, target, progress, session, lock, otaActive, storage>>

-----------------------------------------------------------------------------
(* Restarts *)

(* A restart asked for by another request, the power switch or the WiFi.   *)
AskRestart ==
  /\ restart' = TRUE
  /\ UNCHANGED <<slots, target, progress, session, lock, otaActive, storage, pc, worker>>

TakeRestart ==
  /\ storage = "wait" /\ restart
  /\ storage' = "grace" /\ restart' = FALSE
  /\ UNCHANGED <<slots, target, progress, session, lock, otaActive, pc, worker>>

(* After 500 ms the actuators go off, for the last save and the reset.     *)
StopActuators ==
  /\ storage = "grace"
  /\ storage' = "stopping" /\ otaActive' = TRUE
  /\ UNCHANGED <<slots, target, progress, session, lock, restart, pc, worker>>

(* The bootloader starts the slot otadata names, the other one if that     *)
(* holds no complete image.                                                *)
Bootable == IF active \in good THEN active ELSE Other(active)

\* Mutant: updates go to the slot otadata does not name.
NextSlotByData(booted) == Other(active)

(* The slot the bootloader library gives for an update: never the one that *)
(* runs.                                                                   *)
NextSlot(booted) == Other(booted)

(* What is in RAM is gone; init finds the slot for updates, or none.       *)
Boot ==
  /\ running' = Bootable
  /\ target' \in {NextSlot(running'), None}
  /\ put' = NothingPut
  /\ status' = "idle" /\ inProgress' = FALSE
  /\ session' = None /\ lock' = None
  /\ otaActive' = FALSE /\ restart' = FALSE /\ storage' = "wait"
  /\ pc' = EachWorker("idle")
  /\ left' = EachWorker(0) /\ last' = EachWorker(FALSE) /\ sent' = EachWorker(0)
  /\ UNCHANGED <<active, good>>

SoftwareReset == storage = "stopping" /\ Boot

PowerCut == Boot

-----------------------------------------------------------------------------

(* What a worker does for an upload once it has begun.                     *)
Upload(w) ==
  \/ \E n \in 0..MaxRead, ends \in BOOLEAN : Read(w, n, ends)
  \/ ReadFails(w)
  \/ WriteSome(w) \/ WriteFails(w) \/ WriteDone(w)
  \/ Finish(w) \/ FinishFails(w)
  \/ Activate(w) \/ ActivateFails(w)
  \/ Reply(w)

StorageTask == TakeRestart \/ StopActuators \/ SoftwareReset

Next == \/ \E w \in Workers : Begin(w) \/ Upload(w)
        \/ StorageTask
        \/ AskRestart
        \/ PowerCut

(* The executor polls every task that can go on; a client that sends       *)
(* nothing is met by the deadline of the upload, which is a failed read.   *)
Spec == /\ Init /\ [][Next]_vars
        /\ WF_vars(StorageTask)
        /\ \A w \in Workers : WF_vars(Upload(w))

-----------------------------------------------------------------------------
(* Properties. *)

Uploading(w) == pc[w] \in {"read", "write", "finish", "activate"}

(* ota.rs: only the HTTP task that began the update touches the session.   *)
(* Two workers are never in an upload at the same time, although nobody    *)
(* holds the session's lock between two reads.                             *)
OneUpload == \A v, w \in Workers : Uploading(v) /\ Uploading(w) => v = w

(* ota.rs: heater, pump and valve stay off while an image is written: no   *)
(* refused, failed or second upload releases the interlock under one that  *)
(* is still writing.                                                       *)
InterlockHeld == \A w \in Workers : Uploading(w) => otaActive

(* The machine is not left halted: the interlock is up only for an upload, *)
(* after a complete one, or for a restart under way.                       *)
HaltedForAReason == otaActive => inProgress \/ status = "complete" \/ storage = "stopping"

(* One flag for all of them is up when it has to be, and only then.        *)
InterlockRight == InterlockHeld /\ HaltedForAReason

(* An image that is activated is in the slot whole: every unit the client  *)
(* has sent, in order, the last partial sector included, and none of       *)
(* another upload.                                                         *)
ActivatedIsWhole == [][\A w \in Workers : Activate(w) => Whole(w, put)]_vars

(* Whatever fails and whenever the power is cut, the slot that runs stays  *)
(* complete, so that the device can always boot.                           *)
RunsComplete == running \in good

(* The update as a whole keeps what module Update promises.                *)
U == INSTANCE Update WITH running <- running, active <- active, good <- good
ImplementsUpdate == U!Spec

(* No upload lasts for ever: not for a silent client, a failing flash, or  *)
(* a form that does not end; and none leaves the mark behind that makes    *)
(* every later one answer "busy".                                          *)
UploadEnds == inProgress ~> ~inProgress

(* What the documentation says and the code does not keep:                 *)
(* docs/api.md: an upload streams into the slot, and the device restarts.  *)
CompleteRestarts == status = "complete" ~> status # "complete"

-----------------------------------------------------------------------------
(* The inductive invariant.                                                *)

(* The mark always has an owner, so it is always taken back.               *)
MarkOwned == inProgress <=> \E w \in Workers : Uploading(w)

(* The session is there from begin until finish takes it.                  *)
SessionOwned == session # None <=> \E w \in Workers : pc[w] \in {"read", "write", "finish"}

(* The lock is held where write and finish hold it, and nowhere else.      *)
LockOwned == \A w \in Workers : lock = w <=> pc[w] \in {"write", "activate"}

(* The sector being filled has room for a unit, and no more is left of a   *)
(* read than was sent.                                                     *)
Bookkeeping == /\ session # None => Len(session.sector) < PerSector
               /\ \A w \in Workers : left[w] <= sent[w]

Ownership == OneUpload /\ MarkOwned /\ SessionOwned /\ LockOwned

(* The slot uploads go to is not the one that runs.                        *)
TargetApart == /\ target # running
               /\ \A w \in Workers : Uploading(w) => target # None

(* The units taken so far: full sectors in flash, then the one in RAM.     *)
Placed(w) ==
  /\ sent[w] - left[w] = session.written * PerSector + Len(session.sector)
  /\ \A i \in 1..session.written :
       /\ Len(put[i]) = PerSector
       /\ \A j \in 1..PerSector : put[i][j] = <<w, (i - 1) * PerSector + j>>
  /\ \A j \in 1..Len(session.sector) :
       session.sector[j] = <<w, session.written * PerSector + j>>

InOrder ==
  \A w \in Workers :
    /\ pc[w] = "idle" => sent[w] = 0
    /\ pc[w] # "write" => left[w] = 0
    /\ pc[w] \in {"read", "write", "finish"} => Placed(w)
    /\ pc[w] = "activate" => Whole(w, put) /\ target \in good

Inductive == /\ TypeOK /\ Bookkeeping /\ Ownership
             /\ InterlockHeld /\ HaltedForAReason
             /\ TargetApart /\ RunsComplete
             /\ InOrder

=============================================================================
