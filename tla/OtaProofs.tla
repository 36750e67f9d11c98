------------------------------ MODULE OtaProofs ------------------------------
(***************************************************************************)
(* Proofs about Ota, for any number of workers and any size of slots: one  *)
(* upload at a time, the interlock held throughout and released after, and *)
(* a complete image that always remains.                                   *)
(***************************************************************************)
EXTENDS Ota, TLAPS

USE OtaAssumption

(* What a turn of write takes: units of this worker, no more than the read *)
(* has left or the sector has room for.                                    *)
LEMMA TakeType ==
  ASSUME TypeOK, Bookkeeping, NEW w \in Workers, session # None
  PROVE  /\ Take(w) \in Seq(Unit)
         /\ Len(Take(w)) \in 0..left[w]
         /\ session.sector \o Take(w) \in Seq(Unit)
         /\ Len(session.sector \o Take(w)) <= PerSector
         /\ \A j \in 1..Len(Take(w)) : Take(w)[j] = <<w, sent[w] - left[w] + j>>
<1> DEFINE room == PerSector - Len(session.sector)
           n == IF left[w] < room THEN left[w] ELSE room
           first == sent[w] - left[w]
<1>1. session.sector \in Seq(Unit) /\ Len(session.sector) \in Nat
  BY DEF TypeOK, Session
<1>2. left[w] \in Nat /\ sent[w] \in 0..MaxUnits /\ left[w] <= sent[w]
  BY DEF TypeOK, Bookkeeping
<1>3. room \in Nat /\ n \in 0..left[w] /\ n <= room
  BY <1>1, <1>2 DEF Bookkeeping
<1>4. Take(w) = [i \in 1..n |-> <<w, first + i>>]
  BY DEF Take
<1>5. ASSUME NEW i \in 1..n PROVE <<w, first + i>> \in Unit
  BY <1>2, <1>3 DEF Unit
<1>6. Take(w) \in Seq(Unit) /\ Len(Take(w)) = n
  BY <1>3, <1>4, <1>5
<1>7. session.sector \o Take(w) \in Seq(Unit)
      /\ Len(session.sector \o Take(w)) = Len(session.sector) + n
  BY SMTT(30), <1>1, <1>6
<1>8. \A j \in 1..n : Take(w)[j] = <<w, sent[w] - left[w] + j>>
  BY <1>4
<1> QED BY <1>1, <1>3, <1>6, <1>7, <1>8

(* What begin starts with has its type.                                    *)
LEMMA NewTypes == NewSession \in Session /\ NothingPut \in [1..Sectors -> Seq(Unit)]
<1>1. <<>> \in Seq(Unit)
  OBVIOUS
<1>2. NewSession \in Session
  BY <1>1 DEF NewSession, Session
<1>3. NothingPut \in [1..Sectors -> Seq(Unit)]
  BY <1>1 DEF NothingPut
<1> QED BY <1>2, <1>3

(* A sector written keeps the types.                                       *)
LEMMA FlushType ==
  ASSUME TypeOK, NEW sector \in Seq(Unit), session # None, session.written < Sectors
  PROVE  /\ [put EXCEPT ![session.written + 1] = sector] \in [1..Sectors -> Seq(Unit)]
         /\ session.written + 1 \in 0..Sectors
BY SMTT(30) DEF TypeOK, Session

(* Abort is part of four actions.                                          *)
LEMMA AbortType ==
  ASSUME TypeOK, NEW w \in Workers, Abort(w)
  PROVE  /\ status' \in {"idle", "uploading", "complete", "error"} /\ inProgress' \in BOOLEAN
         /\ session' \in Session \cup {None} /\ lock' \in Workers \cup {None}
         /\ otaActive' \in BOOLEAN
         /\ pc' \in [Workers -> {"idle", "read", "write", "finish", "activate", "reply"}]
         /\ left' \in [Workers -> 0..MaxRead] /\ last' \in [Workers -> BOOLEAN]
         /\ sent' \in [Workers -> 0..MaxUnits]
<1> USE DEF TypeOK, Abort, Goto
<1>1. status' \in {"idle", "uploading", "complete", "error"} /\ inProgress' \in BOOLEAN
  BY Zenon
<1>2. session' \in Session \cup {None} /\ lock' \in Workers \cup {None} /\ otaActive' \in BOOLEAN
  OBVIOUS
<1>3. pc' \in [Workers -> {"idle", "read", "write", "finish", "activate", "reply"}]
  OBVIOUS
<1>4. left' \in [Workers -> 0..MaxRead] /\ last' \in [Workers -> BOOLEAN]
  OBVIOUS
<1>5. sent' \in [Workers -> 0..MaxUnits]
  OBVIOUS
<1> QED BY <1>1, <1>2, <1>3, <1>4, <1>5

(* So does a flush that fails.                                             *)
LEMMA FlushFailsType ==
  ASSUME TypeOK, NEW sector \in Seq(Unit), session # None, FlushFails(sector)
  PROVE  /\ running' \in Slot /\ active' \in Slot /\ good' \subseteq Slot
         /\ put' \in [1..Sectors -> Seq(Unit)]
<1>1. put' \in [1..Sectors -> Seq(Unit)]
  BY FlushType DEF TypeOK, FlushFails
<1> QED BY <1>1 DEF TypeOK, FlushFails

(* A turn of write keeps a session.                                        *)
LEMMA WriteSomeType ==
  ASSUME TypeOK, Bookkeeping, SessionOwned, NEW w \in Workers, WriteSome(w)
  PROVE  /\ left' \in [Workers -> 0..MaxRead] /\ \A v \in Workers : left'[v] <= left[v]
         /\ session' \in Session /\ Len(session'.sector) < PerSector
         /\ put' \in [1..Sectors -> Seq(Unit)]
         /\ running' \in Slot /\ active' \in Slot /\ good' \subseteq Slot
<1> DEFINE sector == session.sector \o Take(w)
<1>1. session # None /\ session \in Session
  BY DEF WriteSome, SessionOwned, TypeOK
<1>2. sector \in Seq(Unit) /\ Len(Take(w)) \in 0..left[w] /\ Len(sector) <= PerSector
  BY <1>1, TakeType
<1>3. left' \in [Workers -> 0..MaxRead] /\ \A v \in Workers : left'[v] <= left[v]
  <2>1. left' = [left EXCEPT ![w] = @ - Len(Take(w))]
    BY DEF WriteSome
  <2> QED BY SMTT(30), <1>2, <2>1 DEF TypeOK
<1>4. CASE Len(sector) < PerSector
  <2>1. session' = [session EXCEPT !.sector = sector] /\ UNCHANGED slots
    BY <1>4 DEF WriteSome
  <2>2. session' = [written |-> session.written, sector |-> sector]
    BY <1>1, <2>1 DEF Session
  <2>3. session' \in Session /\ Len(session'.sector) < PerSector
    BY <1>1, <1>2, <1>4, <2>2 DEF Session
  <2> QED BY <1>3, <2>1, <2>3 DEF TypeOK, slots
<1>5. CASE Len(sector) = PerSector
  <2>1. /\ FlushDone(sector) /\ good' = good \ {target} /\ UNCHANGED <<running, active>>
        /\ session' = [written |-> session.written + 1, sector |-> <<>>]
    BY <1>5 DEF WriteSome
  <2>2. session.written + 1 \in 0..Sectors /\ put' \in [1..Sectors -> Seq(Unit)]
    BY <1>1, <1>2, <2>1, FlushType DEF FlushDone
  <2>3. session' \in Session /\ Len(session'.sector) < PerSector
    <3>1. <<>> \in Seq(Unit) /\ Len(<<>>) = 0
      OBVIOUS
    <3> QED BY <2>1, <2>2, <3>1 DEF Session
  <2> QED BY <1>3, <2>1, <2>2, <2>3 DEF TypeOK
<1> QED BY <1>2, <1>4, <1>5

(* The types, action by action.                                            *)
LEMMA TypeStep == TypeOK /\ Bookkeeping /\ SessionOwned /\ TargetApart /\ [Next]_vars => TypeOK'
<1> SUFFICES ASSUME TypeOK, Bookkeeping, SessionOwned, TargetApart, [Next]_vars PROVE TypeOK'
  OBVIOUS
<1> USE DEF slots, progress, worker
<1>1. ASSUME NEW w \in Workers, Begin(w) PROVE TypeOK'
  <2>0. NewSession \in Session /\ NothingPut \in [1..Sectors -> Seq(Unit)]
    BY NewTypes
  <2>1. session' \in Session \cup {None} /\ put' \in [1..Sectors -> Seq(Unit)]
    BY <1>1, <2>0 DEF Begin, TypeOK
  <2>2. pc' \in [Workers -> {"idle", "read", "write", "finish", "activate", "reply"}]
    BY <1>1 DEF Begin, TypeOK, Goto
  <2> QED BY <1>1, <2>1, <2>2 DEF Begin, TypeOK
<1>2. ASSUME NEW w \in Workers, ReadFails(w) PROVE TypeOK'
  BY <1>2, AbortType DEF ReadFails, TypeOK
<1>3. ASSUME NEW w \in Workers, NEW n \in 0..MaxRead, NEW ends \in BOOLEAN, Read(w, n, ends)
      PROVE TypeOK'
  <2>1. left' \in [Workers -> 0..MaxRead]
    BY <1>3 DEF Read, TypeOK
  <2>3. last' \in [Workers -> BOOLEAN]
    BY <1>3 DEF Read, TypeOK
  <2>4. sent' \in [Workers -> 0..MaxUnits]
    <3>1. sent[w] + n \in 0..MaxUnits
      BY <1>3 DEF Read, TypeOK
    <3> QED BY <1>3, <3>1 DEF Read, TypeOK
  <2>2. pc' \in [Workers -> {"idle", "read", "write", "finish", "activate", "reply"}]
    BY <1>3 DEF Read, TypeOK, Goto
  <2> QED BY <1>3, <2>1, <2>2, <2>3, <2>4 DEF Read, TypeOK
<1>4. ASSUME NEW w \in Workers, WriteSome(w) PROVE TypeOK'
  <2>1. UNCHANGED <<target, progress, lock, otaActive, restart, storage, pc, last, sent>>
    BY <1>4 DEF WriteSome
  <2> QED BY <1>4, <2>1, WriteSomeType DEF progress, TypeOK
<1>5. ASSUME NEW w \in Workers, WriteFails(w) PROVE TypeOK'
  <2>1. session # None
    BY <1>5 DEF WriteFails, SessionOwned
  <2>2. session.sector \o Take(w) \in Seq(Unit)
    BY <2>1, TakeType
  <2> QED BY <1>5, <2>1, <2>2, AbortType, FlushFailsType DEF WriteFails, TypeOK
<1>6. ASSUME NEW w \in Workers, WriteDone(w) PROVE TypeOK'
  BY <1>6 DEF WriteDone, TypeOK, Goto
<1>7. ASSUME NEW w \in Workers, Finish(w) PROVE TypeOK'
  <2>1. session # None /\ target \in Slot
    BY <1>7 DEF Finish, TargetApart, Uploading, TypeOK
  <2>2. put' \in [1..Sectors -> Seq(Unit)]
    BY <1>7, <2>1, FlushType DEF Finish, FlushDone, TypeOK, Session
  <2> QED BY <1>7, <2>1, <2>2 DEF Finish, TypeOK, Goto
<1>8. ASSUME NEW w \in Workers, FinishFails(w) PROVE TypeOK'
  <2>1. session # None /\ session.sector \in Seq(Unit)
    BY <1>8 DEF FinishFails, TypeOK, Session
  <2> QED BY <1>8, <2>1, AbortType, FlushFailsType DEF FinishFails, TypeOK
<1>9. ASSUME NEW w \in Workers, Activate(w) PROVE TypeOK'
  BY <1>9 DEF Activate, TypeOK, Goto, TargetApart, Uploading
<1>10. ASSUME NEW w \in Workers, ActivateFails(w) PROVE TypeOK'
  <2>1. active' \in Slot
    BY <1>10 DEF ActivateFails, TargetApart, Uploading, TypeOK
  <2> QED BY <1>10, <2>1, AbortType DEF ActivateFails, TypeOK
<1>11. ASSUME NEW w \in Workers, Reply(w) PROVE TypeOK'
  <2>1. left' \in [Workers -> 0..MaxRead] /\ last' \in [Workers -> BOOLEAN]
    BY <1>11 DEF Reply, TypeOK
  <2>2. sent' \in [Workers -> 0..MaxUnits]
    BY <1>11 DEF Reply, TypeOK
  <2>3. pc' \in [Workers -> {"idle", "read", "write", "finish", "activate", "reply"}]
    BY <1>11 DEF Reply, TypeOK, Goto
  <2>4. restart' \in BOOLEAN
    BY <1>11 DEF Reply, TypeOK
  <2> QED BY <1>11, <2>1, <2>2, <2>3, <2>4 DEF Reply, TypeOK
<1>12. CASE AskRestart \/ TakeRestart \/ StopActuators
  BY <1>12 DEF AskRestart, TakeRestart, StopActuators, TypeOK
<1>13. CASE SoftwareReset \/ PowerCut
  <2>1. Boot
    BY <1>13 DEF SoftwareReset, PowerCut
  <2>2. running' \in Slot /\ target' \in Slot \cup {None}
    BY <2>1 DEF Boot, Bootable, NextSlot, Other, Slot, TypeOK
  <2>3. put' \in [1..Sectors -> Seq(Unit)]
    BY <2>1 DEF Boot, NothingPut
  <2>4. /\ pc' \in [Workers -> {"idle", "read", "write", "finish", "activate", "reply"}]
        /\ left' \in [Workers -> 0..MaxRead] /\ last' \in [Workers -> BOOLEAN]
        /\ sent' \in [Workers -> 0..MaxUnits]
    BY <2>1 DEF Boot, EachWorker
  <2> QED BY <2>1, <2>2, <2>3, <2>4 DEF Boot, TypeOK
<1>14. CASE UNCHANGED vars
  BY <1>14 DEF vars, TypeOK
<1> QED BY <1>1, <1>2, <1>3, <1>4, <1>5, <1>6, <1>7, <1>8, <1>9, <1>10, <1>11, <1>12, <1>13, <1>14
        DEF Next, Upload, StorageTask

-----------------------------------------------------------------------------
(* Who owns the upload.                                                    *)

(* A worker that takes a step leaves the others where they are.            *)
LEMMA GotoOne ==
  ASSUME TypeOK, NEW w \in Workers, NEW where, Goto(w, where)
  PROVE  \A v \in Workers : pc'[v] = IF v = w THEN where ELSE pc[v]
BY DEF TypeOK, Goto

(* An upload that ends leaves nothing behind.                              *)
LEMMA AbortOwnership ==
  ASSUME TypeOK, Ownership, NEW w \in Workers, Uploading(w), Abort(w)
  PROVE  Ownership'
<1>1. \A v \in Workers : pc'[v] = IF v = w THEN "idle" ELSE pc[v]
  BY GotoOne DEF Abort
<1>2. \A v \in Workers : ~Uploading(v)'
  BY <1>1 DEF Ownership, OneUpload, Uploading
<1>3. lock \in {w, None}
  BY DEF Ownership, OneUpload, LockOwned, Uploading, TypeOK
<1>4. session' = None /\ lock' = None /\ inProgress' = FALSE
  BY <1>3 DEF Abort
<1>5. OneUpload' /\ MarkOwned'
  BY <1>2, <1>4 DEF OneUpload, MarkOwned
<1>6. SessionOwned' /\ LockOwned'
  BY <1>2, <1>4 DEF SessionOwned, LockOwned, Uploading
<1> QED BY <1>5, <1>6 DEF Ownership

(* Ownership, action by action.                                            *)
LEMMA OwnershipStep ==
  ASSUME TypeOK, TypeOK', Bookkeeping, Ownership, [Next]_vars
  PROVE  Ownership'
<1> USE DEF slots, progress, worker
<1>0. NewSession # None
  BY NewTypes
<1>1. ASSUME NEW w \in Workers, Begin(w) PROVE Ownership'
  <2>1. \A v \in Workers : ~Uploading(v)
    BY <1>1 DEF Begin, Ownership, MarkOwned
  <2>2. lock = None
    BY <2>1 DEF Ownership, LockOwned, Uploading, TypeOK
  <2>3. \A v \in Workers : pc'[v] = IF v = w THEN "read" ELSE pc[v]
    BY <1>1, <2>2, GotoOne DEF Begin
  <2>4. session' # None /\ lock' = None /\ inProgress'
    BY <1>0, <1>1, <2>2 DEF Begin
  <2>5. OneUpload' /\ MarkOwned'
    BY <2>1, <2>3, <2>4 DEF OneUpload, MarkOwned, Uploading
  <2>6. SessionOwned' /\ LockOwned'
    BY <2>1, <2>3, <2>4 DEF SessionOwned, LockOwned, Uploading
  <2> QED BY <2>5, <2>6 DEF Ownership
<1>2. ASSUME NEW w \in Workers, ReadFails(w) PROVE Ownership'
  BY <1>2, AbortOwnership DEF ReadFails, Uploading
<1>3. ASSUME NEW w \in Workers, NEW n \in 0..MaxRead, NEW ends \in BOOLEAN, Read(w, n, ends)
      PROVE Ownership'
  <2>1. pc[w] = "read" /\ session' = session /\ inProgress' = inProgress
    BY <1>3 DEF Read
  <2>2. lock = None
    BY <2>1 DEF Ownership, OneUpload, LockOwned, Uploading, TypeOK
  <2>3. CASE lock' = w /\ Goto(w, "write")
    <3>1. \A v \in Workers : pc'[v] = IF v = w THEN "write" ELSE pc[v]
      BY <2>3, GotoOne
    <3> QED BY <2>1, <2>2, <2>3, <3>1
            DEF Ownership, OneUpload, MarkOwned, SessionOwned, LockOwned, Uploading
  <2>4. CASE lock' = lock /\ Goto(w, "finish")
    <3>1. \A v \in Workers : pc'[v] = IF v = w THEN "finish" ELSE pc[v]
      BY <2>4, GotoOne
    <3> QED BY <2>1, <2>2, <2>4, <3>1
            DEF Ownership, OneUpload, MarkOwned, SessionOwned, LockOwned, Uploading
  <2> QED BY <1>3, <2>3, <2>4 DEF Read
<1>4. ASSUME NEW w \in Workers, WriteSome(w) PROVE Ownership'
  <2>1. pc' = pc /\ lock' = lock /\ inProgress' = inProgress
    BY <1>4 DEF WriteSome
  <2>2. session # None /\ session' # None
    BY <1>4, WriteSomeType DEF WriteSome, Ownership, SessionOwned
  <2> QED BY <2>1, <2>2 DEF Ownership, OneUpload, MarkOwned, SessionOwned, LockOwned, Uploading
<1>5. ASSUME NEW w \in Workers, WriteFails(w) PROVE Ownership'
  BY <1>5, AbortOwnership DEF WriteFails, Uploading
<1>6. ASSUME NEW w \in Workers, WriteDone(w) PROVE Ownership'
  <2>1. /\ pc[w] = "write" /\ lock' = None
        /\ session' = session /\ inProgress' = inProgress
    BY <1>6 DEF WriteDone
  <2>2. PICK where \in {"read", "finish"} : Goto(w, where)
    BY <1>6 DEF WriteDone
  <2>3. \A v \in Workers : pc'[v] = IF v = w THEN where ELSE pc[v]
    BY <2>2, GotoOne
  <2> QED BY <2>1, <2>2, <2>3
          DEF Ownership, OneUpload, MarkOwned, SessionOwned, LockOwned, Uploading
<1>7. ASSUME NEW w \in Workers, Finish(w) PROVE Ownership'
  <2>1. /\ pc[w] = "finish" /\ lock = None /\ lock' = w
        /\ session' = None /\ inProgress' = inProgress
    BY <1>7 DEF Finish
  <2>2. \A v \in Workers : pc'[v] = IF v = w THEN "activate" ELSE pc[v]
    BY <1>7, GotoOne DEF Finish
  <2> QED BY <2>1, <2>2
          DEF Ownership, OneUpload, MarkOwned, SessionOwned, LockOwned, Uploading
<1>8. ASSUME NEW w \in Workers, FinishFails(w) PROVE Ownership'
  BY <1>8, AbortOwnership DEF FinishFails, Uploading
<1>9. ASSUME NEW w \in Workers, Activate(w) PROVE Ownership'
  <2>1. /\ pc[w] = "activate" /\ lock' = None
        /\ session' = session /\ inProgress' = FALSE
    BY <1>9 DEF Activate
  <2>2. \A v \in Workers : pc'[v] = IF v = w THEN "reply" ELSE pc[v]
    BY <1>9, GotoOne DEF Activate
  <2> QED BY <2>1, <2>2
          DEF Ownership, OneUpload, MarkOwned, SessionOwned, LockOwned, Uploading
<1>10. ASSUME NEW w \in Workers, ActivateFails(w) PROVE Ownership'
  BY <1>10, AbortOwnership DEF ActivateFails, Uploading
<1>11. ASSUME NEW w \in Workers, Reply(w) PROVE Ownership'
  <2>1. pc[w] = "reply" /\ UNCHANGED <<session, lock, inProgress>>
    BY <1>11 DEF Reply
  <2>2. \A v \in Workers : pc'[v] = IF v = w THEN "idle" ELSE pc[v]
    BY <1>11, GotoOne DEF Reply
  <2> QED BY <2>1, <2>2
          DEF Ownership, OneUpload, MarkOwned, SessionOwned, LockOwned, Uploading
<1>12. CASE AskRestart \/ TakeRestart \/ StopActuators \/ UNCHANGED vars
  <2>1. UNCHANGED <<pc, session, lock, inProgress>>
    BY <1>12 DEF AskRestart, TakeRestart, StopActuators, vars
  <2> QED BY <2>1 DEF Ownership, OneUpload, MarkOwned, SessionOwned, LockOwned, Uploading
<1>13. CASE SoftwareReset \/ PowerCut
  <2>1. pc' = EachWorker("idle") /\ session' = None /\ lock' = None /\ inProgress' = FALSE
    BY <1>13 DEF SoftwareReset, PowerCut, Boot
  <2> QED BY <2>1
          DEF EachWorker, Ownership, OneUpload, MarkOwned, SessionOwned, LockOwned, Uploading
<1> QED BY <1>1, <1>2, <1>3, <1>4, <1>5, <1>6, <1>7, <1>8, <1>9, <1>10, <1>11, <1>12, <1>13
        DEF Next, Upload, StorageTask

-----------------------------------------------------------------------------
(* The sector being filled and the units of a read.                        *)

(* An abort leaves no session and no units.                                *)
LEMMA AbortBookkeeping ==
  ASSUME TypeOK, Bookkeeping, Ownership, NEW w \in Workers, Uploading(w), Abort(w)
  PROVE  Bookkeeping'
<1>1. session' = None
  BY DEF Abort, Ownership, OneUpload, LockOwned, Uploading, TypeOK
<1>2. \A v \in Workers : left'[v] <= sent'[v]
  BY DEF Abort, Bookkeeping, TypeOK
<1> QED BY <1>1, <1>2 DEF Bookkeeping

(* Room in the sector and units left, action by action.                    *)
LEMMA BookkeepingStep ==
  ASSUME TypeOK, Bookkeeping, Ownership, [Next]_vars
  PROVE  Bookkeeping'
<1> USE DEF slots, progress, worker
<1>1. ASSUME NEW w \in Workers, Begin(w) PROVE Bookkeeping'
  <2>1. Len(NewSession.sector) < PerSector
    BY DEF NewSession
  <2> QED BY <1>1, <2>1 DEF Begin, Bookkeeping
<1>2. ASSUME NEW w \in Workers, ReadFails(w) PROVE Bookkeeping'
  BY <1>2, AbortBookkeeping DEF ReadFails, Uploading
<1>3. ASSUME NEW w \in Workers, NEW n \in 0..MaxRead, NEW ends \in BOOLEAN, Read(w, n, ends)
      PROVE Bookkeeping'
  <2>1. session' = session
    BY <1>3 DEF Read
  <2>2. ASSUME NEW v \in Workers PROVE left'[v] <= sent'[v]
    <3>1. left[v] <= sent[v] /\ left[v] \in Nat /\ sent[v] \in Nat
      BY DEF Bookkeeping, TypeOK
    <3>2. CASE left' = [left EXCEPT ![w] = n] /\ sent' = [sent EXCEPT ![w] = @ + n]
      BY <3>1, <3>2 DEF TypeOK
    <3>3. CASE left' = left /\ sent' = sent
      BY <3>1, <3>3
    <3> QED BY <1>3, <3>2, <3>3 DEF Read
  <2> QED BY <2>1, <2>2 DEF Bookkeeping
<1>4. ASSUME NEW w \in Workers, WriteSome(w) PROVE Bookkeeping'
  <2>1. Len(session'.sector) < PerSector /\ \A v \in Workers : left'[v] <= left[v]
    BY <1>4, WriteSomeType DEF Ownership
  <2>2. left' \in [Workers -> 0..MaxRead] /\ sent' = sent
    BY <1>4, WriteSomeType DEF WriteSome, Ownership
  <2>3. ASSUME NEW v \in Workers PROVE left'[v] <= sent'[v]
    BY <2>1, <2>2 DEF Bookkeeping, TypeOK
  <2> QED BY <2>1, <2>3 DEF Bookkeeping
<1>5. ASSUME NEW w \in Workers, WriteFails(w) PROVE Bookkeeping'
  BY <1>5, AbortBookkeeping DEF WriteFails, Uploading
<1>6. ASSUME NEW w \in Workers, WriteDone(w) PROVE Bookkeeping'
  BY <1>6 DEF WriteDone, Bookkeeping
<1>7. ASSUME NEW w \in Workers, Finish(w) PROVE Bookkeeping'
  BY <1>7 DEF Finish, Bookkeeping
<1>8. ASSUME NEW w \in Workers, FinishFails(w) PROVE Bookkeeping'
  BY <1>8, AbortBookkeeping DEF FinishFails, Uploading
<1>9. ASSUME NEW w \in Workers, Activate(w) PROVE Bookkeeping'
  BY <1>9 DEF Activate, Bookkeeping
<1>10. ASSUME NEW w \in Workers, ActivateFails(w) PROVE Bookkeeping'
  BY <1>10, AbortBookkeeping DEF ActivateFails, Uploading
<1>11. ASSUME NEW w \in Workers, Reply(w) PROVE Bookkeeping'
  BY <1>11 DEF Reply, Bookkeeping, TypeOK
<1>12. CASE AskRestart \/ TakeRestart \/ StopActuators \/ UNCHANGED vars
  BY <1>12 DEF AskRestart, TakeRestart, StopActuators, vars, Bookkeeping
<1>13. CASE SoftwareReset \/ PowerCut
  BY <1>13 DEF SoftwareReset, PowerCut, Boot, EachWorker, Bookkeeping
<1> QED BY <1>1, <1>2, <1>3, <1>4, <1>5, <1>6, <1>7, <1>8, <1>9, <1>10, <1>11, <1>12, <1>13
        DEF Next, Upload, StorageTask

-----------------------------------------------------------------------------
(* The interlock.  Only begin, abort, the storage task and a boot write it;*)
(* an abort is the upload's own.                                           *)

(* An abort releases the interlock of its own upload only.                 *)
LEMMA AbortInterlock ==
  ASSUME TypeOK, Ownership, NEW w \in Workers, Uploading(w), Abort(w)
  PROVE  InterlockHeld' /\ HaltedForAReason'
<1>1. \A v \in Workers : pc'[v] = IF v = w THEN "idle" ELSE pc[v]
  BY GotoOne DEF Abort
<1>2. \A v \in Workers : ~Uploading(v)'
  BY <1>1 DEF Ownership, OneUpload, Uploading
<1> QED BY <1>2 DEF Abort, InterlockHeld, HaltedForAReason

(* The interlock, action by action.                                        *)
LEMMA InterlockStep ==
  ASSUME TypeOK, Ownership, InterlockHeld, HaltedForAReason, [Next]_vars
  PROVE  InterlockHeld' /\ HaltedForAReason'
<1> USE DEF slots, progress, worker
<1>1. ASSUME NEW w \in Workers, Begin(w) PROVE InterlockHeld' /\ HaltedForAReason'
  <2>1. lock = None
    BY <1>1 DEF Begin, Ownership, MarkOwned, LockOwned, Uploading, TypeOK
  <2> QED BY <1>1, <2>1 DEF Begin, InterlockHeld, HaltedForAReason
<1>2. ASSUME NEW w \in Workers,
             ReadFails(w) \/ WriteFails(w) \/ FinishFails(w) \/ ActivateFails(w)
      PROVE InterlockHeld' /\ HaltedForAReason'
  BY <1>2, AbortInterlock DEF ReadFails, WriteFails, FinishFails, ActivateFails, Uploading
<1>3. ASSUME NEW w \in Workers, NEW n \in 0..MaxRead, NEW ends \in BOOLEAN, Read(w, n, ends)
      PROVE InterlockHeld' /\ HaltedForAReason'
  <2>1. pc[w] = "read" /\ UNCHANGED <<otaActive, status, inProgress, storage>>
    BY <1>3 DEF Read
  <2>2. otaActive
    BY <2>1 DEF InterlockHeld, Uploading
  <2> QED BY <2>1, <2>2 DEF InterlockHeld, HaltedForAReason
<1>4. ASSUME NEW w \in Workers, WriteSome(w) \/ WriteDone(w) \/ Finish(w)
      PROVE InterlockHeld' /\ HaltedForAReason'
  <2>1. pc[w] \in {"write", "finish"} /\ UNCHANGED <<otaActive, status, inProgress, storage>>
    BY <1>4 DEF WriteSome, WriteDone, Finish
  <2>2. otaActive
    BY <2>1 DEF InterlockHeld, Uploading
  <2> QED BY <2>1, <2>2 DEF InterlockHeld, HaltedForAReason
<1>5. ASSUME NEW w \in Workers, Activate(w) PROVE InterlockHeld' /\ HaltedForAReason'
  <2>1. otaActive
    BY <1>5 DEF Activate, InterlockHeld, Uploading
  <2> QED BY <1>5, <2>1 DEF Activate, InterlockHeld, HaltedForAReason
<1>6. ASSUME NEW w \in Workers, Reply(w) PROVE InterlockHeld' /\ HaltedForAReason'
  <2>1. \A v \in Workers : pc'[v] = IF v = w THEN "idle" ELSE pc[v]
    BY <1>6, GotoOne DEF Reply
  <2> QED BY <1>6, <2>1 DEF Reply, InterlockHeld, HaltedForAReason, Uploading
<1>7. CASE AskRestart \/ TakeRestart \/ UNCHANGED vars
  BY <1>7 DEF AskRestart, TakeRestart, vars, InterlockHeld, HaltedForAReason, Uploading
<1>8. CASE StopActuators
  BY <1>8 DEF StopActuators, InterlockHeld, HaltedForAReason
<1>9. CASE SoftwareReset \/ PowerCut
  BY <1>9 DEF SoftwareReset, PowerCut, Boot, EachWorker, InterlockHeld, HaltedForAReason, Uploading
<1> QED BY <1>1, <1>2, <1>3, <1>4, <1>5, <1>6, <1>7, <1>8, <1>9
        DEF Next, Upload, StorageTask

-----------------------------------------------------------------------------
(* The slots.  Writes go to the target, which is never the one that runs.  *)

(* The slots, action by action.                                            *)
LEMMA SlotsStep ==
  ASSUME TypeOK, Ownership, TargetApart, RunsComplete, [Next]_vars
  PROVE  TargetApart' /\ RunsComplete'
<1> USE DEF slots, progress, worker
<1>1. ASSUME NEW w \in Workers, Begin(w) PROVE TargetApart' /\ RunsComplete'
  BY <1>1 DEF Begin, TargetApart, RunsComplete
<1>2. ASSUME NEW w \in Workers, Upload(w) PROVE TargetApart' /\ RunsComplete'
  <2>1. UNCHANGED <<running, target>> /\ good \ {target} \subseteq good'
    BY <1>2 DEF Upload, Read, ReadFails, WriteSome, WriteFails, FlushFails, WriteDone,
                Finish, FinishFails, Activate, ActivateFails, Reply
  <2>2. ASSUME NEW v \in Workers, Uploading(v)' PROVE Uploading(v) \/ Uploading(w)
    BY <1>2, <2>2 DEF Upload, Read, ReadFails, WriteSome, WriteFails, WriteDone,
                Finish, FinishFails, Activate, ActivateFails, Reply, Abort, Goto, Uploading, TypeOK
  <2> QED BY <2>1, <2>2 DEF TargetApart, RunsComplete
<1>3. CASE AskRestart \/ TakeRestart \/ StopActuators \/ UNCHANGED vars
  BY <1>3 DEF AskRestart, TakeRestart, StopActuators, vars, TargetApart, RunsComplete, Uploading
<1>4. CASE SoftwareReset \/ PowerCut
  <2>1. Boot
    BY <1>4 DEF SoftwareReset, PowerCut
  <2>2. running' = Bootable /\ good' = good /\ target' \in {Other(running'), None}
        /\ pc' = EachWorker("idle")
    BY <2>1 DEF Boot, NextSlot
  <2>3. Bootable \in good /\ Bootable \in Slot
    BY DEF Bootable, RunsComplete, Other, Slot, TypeOK
  <2>4. target' # running'
    BY <2>2, <2>3 DEF Other, Slot
  <2> QED BY <2>2, <2>3, <2>4 DEF TargetApart, RunsComplete, EachWorker, Uploading
<1> QED BY <1>1, <1>2, <1>3, <1>4 DEF Next, StorageTask

-----------------------------------------------------------------------------
(* The order of the units.                                                 *)

(* A unit further on lies in the same sector or a later one.               *)
LEMMA Rows ==
  ASSUME NEW P \in Nat \ {0}, NEW a \in Nat, NEW b \in Nat
  PROVE  /\ (a + 1) * P = a * P + P
         /\ a * P \in Nat
         /\ b > a => b * P >= a * P + P
<1>1. (a + 1) * P = a * P + P /\ a * P \in Nat
  OBVIOUS
<1>2. ASSUME b > a PROVE b * P >= a * P + P
  <2>1. PICK d \in Nat : b = a + 1 + d
    <3>1. b - (a + 1) \in Nat /\ b = a + 1 + (b - (a + 1))
      BY <1>2
    <3> QED BY <3>1
  <2>2. b * P = a * P + P + d * P /\ d * P \in Nat
    BY <2>1
  <2> QED BY <1>1, <2>2
<1> QED BY <1>1, <1>2

(* Taking t of the l units that are left.                                  *)
LEMMA Taken ==
  ASSUME NEW s \in Int, NEW l \in Int, NEW b \in Int, NEW f \in Int, NEW t \in Int, s - l = b + f
  PROVE  s - (l - t) = b + (f + t)
OBVIOUS

(* A sector not yet begun holds none of the units so far.                  *)
LEMMA Beyond ==
  ASSUME NEW before \in Nat, NEW full \in Nat, NEW f \in Nat, NEW j \in Nat \ {0},
         f < PerSector, before >= full + PerSector
  PROVE  ~(before + j <= full + f)
OBVIOUS

(* The other workers are not in an upload.                                 *)
LEMMA OrderAlone ==
  ASSUME TypeOK, TypeOK', OneUpload, InOrder, NEW w \in Workers, Uploading(w),
         \A v \in Workers \ {w} :
           pc'[v] = pc[v] /\ left'[v] = left[v] /\ sent'[v] = sent[v],
         pc'[w] = "idle" => sent'[w] = 0,
         pc'[w] # "write" => left'[w] = 0,
         pc'[w] \in {"read", "write", "finish"} => Placed(w)',
         pc'[w] = "activate" => Whole(w, put)' /\ target' \in good'
  PROVE  InOrder'
<1>1. ASSUME NEW v \in Workers \ {w} PROVE pc[v] \notin {"read", "write", "finish", "activate"}
  BY DEF OneUpload, Uploading
<1> QED BY <1>1 DEF InOrder

(* After an abort there is nothing to be in order.                         *)
LEMMA AbortOrder ==
  ASSUME TypeOK, TypeOK', OneUpload, InOrder, NEW w \in Workers, Uploading(w), Abort(w)
  PROVE  InOrder'
<1>1. pc'[w] = "idle" /\ sent'[w] = 0 /\ left'[w] = 0
  BY DEF Abort, Goto, TypeOK
<1>2. \A v \in Workers \ {w} : pc'[v] = pc[v] /\ left'[v] = left[v] /\ sent'[v] = sent[v]
  BY DEF Abort, Goto, TypeOK
<1> QED BY <1>1, <1>2, OrderAlone

(* A turn of write.                                                        *)
LEMMA WriteOrder ==
  ASSUME TypeOK, TypeOK', Bookkeeping, Ownership, InOrder, NEW w \in Workers, WriteSome(w)
  PROVE  InOrder'
<1> DEFINE taken == Take(w)
           sector == session.sector \o taken
           W == session.written
<1>1. session # None /\ session \in Session /\ pc[w] = "write" /\ Placed(w)
  BY DEF WriteSome, Ownership, SessionOwned, TypeOK, InOrder
<1>2. /\ W \in Nat /\ session.sector \in Seq(Unit) /\ Len(session.sector) \in Nat
      /\ W * PerSector \in Nat
  BY <1>1 DEF Session
<1>3. /\ taken \in Seq(Unit) /\ Len(taken) \in 0..left[w]
      /\ Len(sector) = Len(session.sector) + Len(taken)
  BY <1>1, <1>2, TakeType
<1>4. \A j \in 1..Len(taken) : taken[j] = <<w, sent[w] - left[w] + j>>
  BY <1>1, TakeType
<1>5. \A j \in 1..Len(sector) : sector[j] = <<w, W * PerSector + j>>
  <2> SUFFICES ASSUME NEW j \in 1..Len(sector) PROVE sector[j] = <<w, W * PerSector + j>>
    OBVIOUS
  <2>1. CASE j <= Len(session.sector)
    <3>1. sector[j] = session.sector[j]
      BY <1>2, <1>3, <2>1
    <3> QED BY <1>1, <1>2, <2>1, <3>1 DEF Placed
  <2>2. CASE j > Len(session.sector)
    <3>1. j - Len(session.sector) \in 1..Len(taken)
      BY <1>2, <1>3, <2>2
    <3>2. sector[j] = taken[j - Len(session.sector)]
      BY <1>2, <1>3, <2>2, <3>1
    <3>3. sent[w] - left[w] = W * PerSector + Len(session.sector)
      BY <1>1 DEF Placed
    <3>4. sent[w] - left[w] + (j - Len(session.sector)) = W * PerSector + j
      BY <1>2, <3>3
    <3> QED BY <1>4, <3>1, <3>2, <3>4
  <2> QED BY SMTT(30), <1>2, <1>3, <2>1, <2>2
<1>6. /\ pc' = pc /\ sent' = sent
      /\ left'[w] = left[w] - Len(taken)
      /\ \A v \in Workers \ {w} : left'[v] = left[v]
  BY DEF WriteSome, TypeOK
<1>7. sent'[w] - left'[w] = W * PerSector + Len(sector)
  <2> DEFINE base == W * PerSector
  <2>1. sent[w] \in Nat /\ left[w] \in Nat /\ base \in Nat
    BY <1>2 DEF TypeOK
  <2>2. sent[w] - left[w] = base + Len(session.sector)
    BY <1>1 DEF Placed
  <2>3. sent'[w] = sent[w] /\ Len(taken) \in Nat
    BY <1>3, <1>6, <2>1
  <2> HIDE DEF base, taken, sector
  <2>4. Len(session.sector) \in Nat /\ Len(sector) = Len(session.sector) + Len(taken)
    BY <1>2, <1>3
  <2>5. left'[w] = left[w] - Len(taken)
    BY <1>6
  <2>6. sent[w] - (left[w] - Len(taken)) = base + (Len(session.sector) + Len(taken))
    BY <2>1, <2>2, <2>3, <2>4, Taken
  <2>7. sent'[w] - left'[w] = base + (Len(session.sector) + Len(taken))
    BY <2>3, <2>5, <2>6
  <2> QED BY <2>4, <2>7 DEF base
<1>8. Placed(w)'
  <2>1. CASE Len(sector) < PerSector
    <3>1. session' = [session EXCEPT !.sector = sector] /\ put' = put
      BY <2>1 DEF WriteSome, slots
    <3>2. session'.written = W /\ session'.sector = sector
      BY <1>1, <3>1 DEF Session
    <3> QED BY <1>1, <1>5, <1>7, <3>1, <3>2 DEF Placed
  <2>2. CASE Len(sector) = PerSector
    <3>1. /\ session' = [written |-> W + 1, sector |-> <<>>]
          /\ W < Sectors /\ put' = [put EXCEPT ![W + 1] = sector]
      BY <2>2 DEF WriteSome, FlushDone
    <3>2. session'.written = W + 1 /\ session'.sector = <<>>
      BY <3>1
    <3>3. W + 1 \in 1..Sectors /\ DOMAIN put = 1..Sectors
      BY <1>2, <3>1 DEF TypeOK
    <3>4. sent'[w] - left'[w] = (W + 1) * PerSector + Len(<<>>)
      <4>1. (W + 1) * PerSector = W * PerSector + PerSector
        BY <1>2, Rows
      <4> QED BY <1>2, <1>7, <2>2, <4>1
    <3>5. ASSUME NEW i \in 1..(W + 1)
          PROVE  /\ Len(put'[i]) = PerSector
                 /\ \A j \in 1..PerSector : put'[i][j] = <<w, (i - 1) * PerSector + j>>
      <4>1. CASE i = W + 1
        <5>1. put'[i] = sector /\ i - 1 = W
          BY SMTT(30), <1>2, <3>1, <3>3, <4>1
        <5> QED BY <1>5, <2>2, <5>1
      <4>2. CASE i # W + 1
        <5>1. put'[i] = put[i] /\ i \in 1..W
          BY <1>2, <3>1, <3>3, <4>2
        <5> QED BY <1>1, <5>1 DEF Placed
      <4> QED BY <4>1, <4>2
    <3>6. \A j \in 1..Len(<<>>) : <<>>[j] = <<w, (W + 1) * PerSector + j>>
      OBVIOUS
    <3> QED BY <3>2, <3>4, <3>5, <3>6 DEF Placed
  <2> QED BY <2>1, <2>2 DEF WriteSome
<1> QED BY <1>1, <1>6, <1>8, OrderAlone DEF Uploading, Ownership

(* What finish leaves in the slot is the image.                            *)
LEMMA FinishOrder ==
  ASSUME TypeOK, TypeOK', Bookkeeping, Ownership, InOrder, NEW w \in Workers, Finish(w)
  PROVE  InOrder'
<1> DEFINE W == session.written
           L == Len(session.sector)
<1>1. /\ session # None /\ session \in Session /\ pc[w] = "finish"
      /\ Placed(w) /\ left[w] = 0 /\ L < PerSector
  BY DEF Finish, TypeOK, InOrder, Bookkeeping
<1>2. W \in 0..Sectors /\ L \in Nat /\ session.sector \in Seq(Unit) /\ W * PerSector \in Nat
  BY <1>1 DEF Session
<1>3. sent[w] = W * PerSector + L
  BY <1>1 DEF Placed, TypeOK
<1>4. sent' = sent /\ left' = left /\ pc' = [pc EXCEPT ![w] = "activate"]
  BY DEF Finish, worker, Goto
<1>5. /\ \A i \in 1..W : put'[i] = put[i]
      /\ L > 0 => W < Sectors /\ put'[W + 1] = session.sector
  <2>1. CASE session.sector = <<>>
    <3>1. L = 0 /\ put' = put
      BY <2>1 DEF Finish
    <3> QED BY <3>1
  <2>2. CASE session.sector # <<>>
    <3>1. W < Sectors /\ put' = [put EXCEPT ![W + 1] = session.sector]
      BY <2>2 DEF Finish, FlushDone
    <3>2. W + 1 \in DOMAIN put /\ \A i \in 1..W : i # W + 1
      BY SMTT(30), <1>2, <3>1 DEF TypeOK
    <3> QED BY <3>1, <3>2
  <2> QED BY <2>1, <2>2
<1>6. sent[w] <= Sectors * PerSector
  <2>1. CASE L = 0
    <3>1. W = Sectors \/ Sectors * PerSector >= W * PerSector + PerSector
      BY <1>2, Rows
    <3> QED BY <1>2, <1>3, <2>1, <3>1
  <2>2. CASE L > 0
    <3>0. Sectors > W /\ W \in Nat
      BY <1>2, <1>5, <2>2
    <3>1. Sectors * PerSector >= W * PerSector + PerSector
      BY <3>0, Rows
    <3> QED BY <1>1, <1>2, <1>3, <3>1
  <2> QED BY <1>2, <2>1, <2>2
<1>7. ASSUME NEW i \in 1..Sectors, NEW j \in 1..PerSector,
             (i - 1) * PerSector + j <= sent[w]
      PROVE  j \in DOMAIN put'[i] /\ put'[i][j] = <<w, (i - 1) * PerSector + j>>
  <2>1. CASE i <= W
    <3>1. Len(put[i]) = PerSector /\ put[i][j] = <<w, (i - 1) * PerSector + j>> /\ put'[i] = put[i]
      BY SMTT(30), <1>1, <1>2, <1>5, <2>1 DEF Placed
    <3>2. put[i] \in Seq(Unit)
      BY DEF TypeOK
    <3> QED BY <3>1, <3>2
  <2>2. CASE i = W + 1
    <3>0. i - 1 = W
      BY <1>2, <2>2
    <3>1. i - 1 = W /\ j <= L
      BY <1>2, <1>3, <1>7, <3>0
    <3>2. put'[i] = session.sector /\ j \in 1..L
      BY <1>2, <1>5, <2>2, <3>1
    <3>3. session.sector[j] = <<w, W * PerSector + j>>
      BY <1>1, <3>2 DEF Placed
    <3>4. j \in DOMAIN session.sector
      BY <1>2, <3>2
    <3> QED BY <3>0, <3>2, <3>3, <3>4
  <2>3. CASE i > W + 1
    <3>0. i - 1 \in Nat /\ W \in Nat /\ i - 1 > W
      BY <1>2, <2>3
    <3>1. (i - 1) * PerSector >= W * PerSector + PerSector /\ (i - 1) * PerSector \in Nat
      BY <3>0, Rows
    <3> DEFINE before == (i - 1) * PerSector
               full == W * PerSector
    <3>2. before \in Nat /\ full \in Nat /\ before >= full + PerSector
      BY <1>2, <3>1
    <3>3. before + j <= full + L
      BY <1>3, <1>7
    <3>4. L \in Nat /\ j \in Nat \ {0} /\ L < PerSector
      BY <1>1, <1>2
    <3> HIDE DEF before, full, L
    <3>5. ~(before + j <= full + L)
      BY <3>2, <3>4, Beyond
    <3> QED BY <3>3, <3>5
  <2> QED BY SMTT(30), <1>2, <2>1, <2>2, <2>3
<1>8. Whole(w, put)' /\ target' \in good'
  <2>1. Whole(w, put')
    BY <1>6, <1>7 DEF Whole
  <2>2. target' = target /\ good' = good \cup {target}
    BY <2>1 DEF Finish
  <2> QED BY <1>4, <2>1, <2>2 DEF Whole
<1> QED BY <1>1, <1>4, <1>8, OrderAlone DEF Uploading, Ownership, TypeOK

(* The order of the units, action by action.                               *)
LEMMA OrderStep ==
  ASSUME TypeOK, TypeOK', Bookkeeping, Ownership, InOrder, [Next]_vars
  PROVE  InOrder'
<1> USE DEF slots, progress, worker
<1>1. ASSUME NEW w \in Workers, Begin(w) PROVE InOrder'
  <2>1. \A v \in Workers : ~Uploading(v)
    BY <1>1 DEF Begin, Ownership, MarkOwned
  <2>2. lock = None
    BY <2>1 DEF Ownership, LockOwned, Uploading, TypeOK
  <2>3. \A v \in Workers : pc'[v] = IF v = w THEN "read" ELSE pc[v]
    BY <1>1, <2>2, GotoOne DEF Begin
  <2>4. session' = NewSession /\ left' = left /\ sent' = sent /\ pc[w] = "idle"
    BY <1>1, <2>2 DEF Begin
  <2>5. sent[w] = 0 /\ left[w] = 0
    BY <2>4 DEF InOrder
  <2>6. Placed(w)'
    <3>1. Len(<<>>) = 0 /\ 0 * PerSector = 0
      OBVIOUS
    <3> QED BY <2>4, <2>5, <3>1 DEF Placed, NewSession
  <2> QED BY <2>1, <2>3, <2>4, <2>5, <2>6 DEF InOrder, Uploading
<1>2. ASSUME NEW w \in Workers,
             ReadFails(w) \/ WriteFails(w) \/ FinishFails(w) \/ ActivateFails(w)
      PROVE InOrder'
  BY <1>2, AbortOrder
     DEF ReadFails, WriteFails, FinishFails, ActivateFails, Uploading, Ownership
<1>3. ASSUME NEW w \in Workers, NEW n \in 0..MaxRead, NEW ends \in BOOLEAN, Read(w, n, ends)
      PROVE InOrder'
  <2>1. pc[w] = "read" /\ Placed(w) /\ left[w] = 0 /\ session' = session /\ put' = put
    BY <1>3 DEF Read, InOrder
  <2>2. CASE /\ Goto(w, "write") /\ left' = [left EXCEPT ![w] = n]
             /\ sent' = [sent EXCEPT ![w] = @ + n]
    <3>1. pc'[w] = "write" /\ sent'[w] - left'[w] = sent[w] - left[w]
      BY <2>1, <2>2 DEF Goto, TypeOK
    <3>2. Placed(w)'
      BY <2>1, <3>1 DEF Placed
    <3> QED BY <2>1, <2>2, <3>1, <3>2, OrderAlone DEF Goto, Uploading, Ownership, TypeOK
  <2>3. CASE Goto(w, "finish") /\ left' = left /\ sent' = sent
    <3>1. pc'[w] = "finish"
      BY <2>3 DEF Goto, TypeOK
    <3>2. Placed(w)'
      BY <2>1, <2>3 DEF Placed
    <3> QED BY <2>1, <2>3, <3>1, <3>2, OrderAlone DEF Goto, Uploading, Ownership, TypeOK
  <2> QED BY <1>3, <2>2, <2>3 DEF Read
<1>4. ASSUME NEW w \in Workers, WriteSome(w) PROVE InOrder'
  BY <1>4, WriteOrder
<1>5. ASSUME NEW w \in Workers, WriteDone(w) PROVE InOrder'
  <2>1. /\ pc[w] = "write" /\ left[w] = 0 /\ Placed(w)
        /\ UNCHANGED <<session, put, left, sent>>
    BY <1>5 DEF WriteDone, InOrder
  <2>2. PICK where \in {"read", "finish"} : pc' = [pc EXCEPT ![w] = where]
    BY <1>5 DEF WriteDone, Goto
  <2>3. pc'[w] \in {"read", "finish"} /\ Placed(w)'
    <3>1. pc'[w] = where
      BY <2>2 DEF TypeOK
    <3>2. session'.written = session.written /\ session'.sector = session.sector
      BY <2>1
    <3> QED BY <2>1, <3>1, <3>2 DEF Placed
  <2> QED BY <2>1, <2>2, <2>3, OrderAlone DEF Uploading, Ownership, TypeOK
<1>6. ASSUME NEW w \in Workers, Finish(w) PROVE InOrder'
  BY <1>6, FinishOrder
<1>7. ASSUME NEW w \in Workers, Activate(w) PROVE InOrder'
  <2>1. pc[w] = "activate" /\ left[w] = 0 /\ UNCHANGED <<left, sent>>
    BY <1>7 DEF Activate, InOrder
  <2>2. pc' = [pc EXCEPT ![w] = "reply"]
    BY <1>7 DEF Activate, Goto
  <2> QED BY <2>1, <2>2, OrderAlone DEF Uploading, Ownership, TypeOK
<1>8. ASSUME NEW w \in Workers, Reply(w) PROVE InOrder'
  <2>1. \A v \in Workers : pc'[v] = IF v = w THEN "idle" ELSE pc[v]
    BY <1>8, GotoOne DEF Reply
  <2>2. \A v \in Workers : /\ left'[v] = IF v = w THEN 0 ELSE left[v]
                          /\ sent'[v] = IF v = w THEN 0 ELSE sent[v]
    BY <1>8 DEF Reply, TypeOK
  <2>3. UNCHANGED <<put, session, target, good>>
    BY <1>8 DEF Reply
  <2> QED BY <2>1, <2>2, <2>3 DEF InOrder, Placed, Whole
<1>9. CASE AskRestart \/ TakeRestart \/ StopActuators \/ UNCHANGED vars
  <2>1. UNCHANGED <<pc, left, sent, session, put, target, good>>
    BY <1>9 DEF AskRestart, TakeRestart, StopActuators, vars
  <2> QED BY <2>1 DEF InOrder, Placed, Whole
<1>10. CASE SoftwareReset \/ PowerCut
  BY <1>10 DEF SoftwareReset, PowerCut, Boot, EachWorker, InOrder
<1> QED BY <1>1, <1>2, <1>3, <1>4, <1>5, <1>6, <1>7, <1>8, <1>9, <1>10
        DEF Next, Upload, StorageTask

-----------------------------------------------------------------------------

(* The inductive invariant holds at the start,                             *)
LEMMA InductiveInit == Init => Inductive
<1> SUFFICES ASSUME Init PROVE Inductive
  OBVIOUS
<1>1. TypeOK
  <2>1. /\ running \in Slot /\ active \in Slot /\ good \subseteq Slot
        /\ target \in Slot \cup {None}
    BY DEF Init, Other, Slot
  <2>2. put \in [1..Sectors -> Seq(Unit)]
    BY NewTypes DEF Init
  <2>3. /\ pc \in [Workers -> {"idle", "read", "write", "finish", "activate", "reply"}]
        /\ left \in [Workers -> 0..MaxRead] /\ last \in [Workers -> BOOLEAN]
        /\ sent \in [Workers -> 0..MaxUnits]
    BY DEF Init, EachWorker
  <2>4. /\ status = "idle" /\ inProgress = FALSE /\ session = None /\ lock = None
        /\ otaActive = FALSE /\ restart = FALSE /\ storage = "wait"
    BY DEF Init
  <2> QED BY <2>1, <2>2, <2>3, <2>4 DEF TypeOK
<1>2. Bookkeeping /\ Ownership
  BY DEF Init, EachWorker, Bookkeeping, Ownership, OneUpload, MarkOwned, SessionOwned, LockOwned,
         Uploading
<1>3. InterlockHeld /\ HaltedForAReason /\ TargetApart /\ RunsComplete
  BY DEF Init, EachWorker, InterlockHeld, HaltedForAReason, TargetApart, RunsComplete, Uploading,
         Other, Slot
<1>4. InOrder
  BY DEF Init, EachWorker, InOrder
<1> QED BY <1>1, <1>2, <1>3, <1>4 DEF Inductive

(* and every step keeps it.                                                *)
LEMMA InductiveStep == Inductive /\ [Next]_vars => Inductive'
<1> SUFFICES ASSUME Inductive, [Next]_vars PROVE Inductive'
  OBVIOUS
<1>1. TypeOK'
  BY TypeStep DEF Inductive, Ownership
<1> QED BY <1>1, BookkeepingStep, OwnershipStep, InterlockStep, SlotsStep, OrderStep DEF Inductive

(* The inductive invariant, types included.                                *)
THEOREM OtaInductive == Spec => []Inductive
<1> QED BY InductiveInit, InductiveStep, PTL DEF Spec

(* Two workers are never in an upload at the same time.                    *)
THEOREM OneUploadAtATime == Spec => []OneUpload
<1>1. Inductive => OneUpload
  BY DEF Inductive, Ownership
<1> QED BY <1>1, OtaInductive, PTL

(* The actuators stay off while an image is written, and no failed or      *)
(* refused upload leaves them so (ota_active in begin and abort).          *)
THEOREM InterlockAlwaysRight == Spec => []InterlockRight
<1>1. Inductive => InterlockRight
  BY DEF Inductive, InterlockRight
<1> QED BY <1>1, OtaInductive, PTL

(* The slot that runs holds a complete image, at every step and for every  *)
(* failure of an update.                                                   *)
THEOREM AlwaysBoots == Spec => []RunsComplete
<1>1. Inductive => RunsComplete
  BY DEF Inductive
<1> QED BY <1>1, OtaInductive, PTL

(* An image that is activated is whole and in order.                       *)
THEOREM ActivatedAlwaysWhole == Spec => ActivatedIsWhole
<1>1. Inductive /\ [Next]_vars => [\A w \in Workers : Activate(w) => Whole(w, put)]_vars
  BY DEF Inductive, InOrder, Activate
<1> QED BY <1>1, OtaInductive, PTL DEF Spec, ActivatedIsWhole

-----------------------------------------------------------------------------
(* Ota implements Update.                                                  *)

(* In an upload the target is the slot that does not run.                  *)
LEMMA TargetIsOther ==
  ASSUME Inductive, NEW w \in Workers, Uploading(w)
  PROVE  target = U!Other(running)
BY DEF Inductive, TypeOK, TargetApart, Slot, U!Other

(* Every step writes the other slot, activates it, boots, or does nothing  *)
(* that can be seen of the slots.                                          *)
LEMMA UpdateStep ==
  ASSUME Inductive, Inductive', [Next]_vars
  PROVE  [U!Next]_(U!vars)
<1> USE DEF slots, progress, worker
<1>1. ASSUME NEW w \in Workers, Uploading(w), UNCHANGED <<running, active>>,
             good' \in {good, good \ {target}, good \cup {target}}
      PROVE  [U!Next]_(U!vars)
  BY <1>1, TargetIsOther DEF U!Next, U!Write, U!vars
<1>2. ASSUME NEW w \in Workers, Uploading(w), active' \in {active, target},
             UNCHANGED <<running, good>>, target \in good
      PROVE  [U!Next]_(U!vars)
  BY <1>2, TargetIsOther DEF U!Next, U!Activate, U!vars
<1>3. ASSUME NEW w \in Workers, Upload(w), Uploading(w) PROVE [U!Next]_(U!vars)
  <2>1. CASE Activate(w) \/ ActivateFails(w)
    <3>1. pc[w] = "activate"
      BY <2>1 DEF Activate, ActivateFails
    <3>2. target \in good
      BY <3>1 DEF Inductive, InOrder
    <3>3. UNCHANGED <<running, good>> /\ active' \in {active, target}
      BY <2>1 DEF Activate, ActivateFails
    <3> QED BY <1>2, <1>3, <3>2, <3>3
  <2>2. CASE ~(Activate(w) \/ ActivateFails(w))
    <3>1. UNCHANGED <<running, active>> /\ good' \in {good, good \ {target}, good \cup {target}}
      BY <1>3, <2>2 DEF Upload, Read, ReadFails, WriteSome, WriteFails, FlushFails, WriteDone,
                        Finish, FinishFails, Reply
    <3> QED BY <1>1, <1>3, <3>1
  <2> QED BY <2>1, <2>2
<1>4. ASSUME NEW w \in Workers, Upload(w), ~Uploading(w) PROVE [U!Next]_(U!vars)
  BY <1>4 DEF Upload, Uploading, Read, ReadFails, WriteSome, WriteFails, WriteDone, Finish,
              FinishFails, Activate, ActivateFails, Reply, U!vars
<1>5. ASSUME NEW w \in Workers, Begin(w) PROVE [U!Next]_(U!vars)
  BY <1>5 DEF Begin, U!vars
<1>6. CASE AskRestart \/ TakeRestart \/ StopActuators \/ UNCHANGED vars
  BY <1>6 DEF AskRestart, TakeRestart, StopActuators, vars, U!vars
<1>7. CASE SoftwareReset \/ PowerCut
  <2>1. running' = Bootable /\ UNCHANGED <<active, good>>
    BY <1>7 DEF SoftwareReset, PowerCut, Boot
  <2>2. running' \in good
    BY <2>1 DEF Inductive, RunsComplete
  <2> QED BY <2>1, <2>2 DEF U!Next, U!Boot, U!Other, Bootable, Other
<1> QED BY <1>3, <1>4, <1>5, <1>6, <1>7 DEF Next, StorageTask

(* Whatever uploads, failures and power cuts do, an image replaces the     *)
(* other at once or not at all.                                            *)
THEOREM OtaImplementsUpdate == Spec => ImplementsUpdate
<1>1. Init => U!Init
  BY DEF Init, U!Init, Slot, U!Slot
<1> QED BY <1>1, InductiveInit, InductiveStep, UpdateStep, PTL DEF Spec, ImplementsUpdate, U!Spec

=============================================================================
