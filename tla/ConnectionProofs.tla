--------------------------- MODULE ConnectionProofs ---------------------------
(***************************************************************************)
(* Proofs about the machine's network side, for any number of workers and  *)
(* phones, any times, and any size of the log and of the chart.            *)
(***************************************************************************)
EXTENDS Connections, FiniteSetTheorems, SequenceTheorems, TLAPS

(* Each part takes steps of its own, or stays as it is. *)
LEMMA PartsStart ==
  ConnectionInit =>
    Init /\ Net!Init /\ Web!Init /\ Mqt!Init /\ Fil!Init /\ Upl!Init /\ Log!Init /\ His!Init
PROOF
<1> QED BY DEF ConnectionInit

LEMMA PartsStep ==
  [ConnectionNext]_connectionVars =>
    [Next]_vars /\ [Net!Next]_netVars /\ [Web!Next]_webVars /\ [Mqt!Next]_mqtVars
    /\ [Fil!Next]_fileVars /\ [Upl!Next]_uplVars /\ [Log!Next]_logVars /\ [His!Next]_historyVars
PROOF
<1> SUFFICES ASSUME [ConnectionNext]_connectionVars
             PROVE  [Next]_vars /\ [Net!Next]_netVars /\ [Web!Next]_webVars /\ [Mqt!Next]_mqtVars
                    /\ [Fil!Next]_fileVars /\ [Upl!Next]_uplVars /\ [Log!Next]_logVars
                    /\ [His!Next]_historyVars
  OBVIOUS
<1>1. CASE UNCHANGED connectionVars
  BY <1>1 DEF connectionVars
<1>2. CASE ConnectionNext
  <2>1. /\ live = "pool" \/ UNCHANGED vars
        /\ live = "net" \/ UNCHANGED netVars
        /\ live = "web" \/ UNCHANGED webVars
        /\ live = "mqtt" \/ UNCHANGED mqtVars
        /\ live = "file" \/ UNCHANGED fileVars
        /\ live = "upload" \/ UNCHANGED uplVars
        /\ live = "log" \/ UNCHANGED logVars
        /\ live = "history" \/ UNCHANGED historyVars
    BY <1>2 DEF ConnectionNext, Idle
  <2>2. \/ live = "pool" /\ Next
        \/ live = "net" /\ Net!Next
        \/ live = "web" /\ Web!Next
        \/ live = "mqtt" /\ Mqt!Next
        \/ live = "upload" /\ Upl!Next
        \/ live = "file" /\ Fil!Next
        \/ live = "log" /\ Log!Next
        \/ live = "history" /\ His!Next
    BY <1>2 DEF ConnectionNext
  <2> QED BY <2>1, <2>2
<1> QED BY <1>1, <1>2

-----------------------------------------------------------------------------
(* The slots of the event streams.                                         *)
Held == At("stream") \cup At("refused")
PoolInv == TypeOK /\ SlotsKept

(* A set of workers is finite, and its size a number. *)
LEMMA SomeWorkers ==
  ASSUME NEW S, S \subseteq Workers
  PROVE  IsFiniteSet(S) /\ Cardinality(S) \in Nat
PROOF
<1> QED BY WorkersFinite, FS_Subset, FS_CardinalityType

LEMMA HeldFinite ==
  /\ IsFiniteSet(Held) /\ Cardinality(Held) \in Nat
  /\ IsFiniteSet(At("stream")) /\ Cardinality(At("stream")) \in Nat
  /\ Cardinality(At("stream")) <= Cardinality(Held)
  /\ MaxStreams \in Nat
PROOF
<1>1. At("stream") \subseteq Workers /\ Held \subseteq Workers /\ At("stream") \subseteq Held
  BY DEF At, Held
<1>2. IsFiniteSet(Held) /\ Cardinality(Held) \in Nat /\ IsFiniteSet(At("stream"))
      /\ Cardinality(At("stream")) \in Nat
  BY <1>1, SomeWorkers
<1>3. Cardinality(At("stream")) <= Cardinality(Held)
  BY <1>1, <1>2, FS_Subset
<1>4. Cardinality(Workers) \in Nat
  BY WorkersFinite, FS_CardinalityType
<1> QED BY <1>2, <1>3, <1>4 DEF MaxStreams

(* Where a worker that moves is afterwards, and the others are. *)
LEMMA Moved ==
  ASSUME TypeOK, NEW w \in Workers, NEW p,
         worker' \in [Workers -> [at : {"pick", "accept", "serve", "stream", "refused", "answer"},
                                  on : Networks]],
         worker'[w].at = p, \A v \in Workers \ {w} : worker'[v] = worker[v]
  PROVE  /\ p = "stream" => At("stream")' = At("stream") \cup {w}
         /\ p # "stream" => At("stream")' = At("stream") \ {w}
         /\ p \in {"stream", "refused"} => Held' = Held \cup {w}
         /\ p \notin {"stream", "refused"} => Held' = Held \ {w}
PROOF
<1> QED BY DEF At, Held

LEMMA PoolStarts == Init => PoolInv
PROOF
<1> SUFFICES ASSUME Init PROVE PoolInv
  OBVIOUS
<1>1. Held = {} /\ At("stream") = {}
  BY DEF Init, At, Held
<1>2. TypeOK
  BY DEF Init, TypeOK, Networks
<1> QED BY <1>1, <1>2, HeldFinite, FS_EmptySet
        DEF Init, PoolInv, SlotsKept, SlotCount, HalfForPages, Held

(* A worker that neither takes nor gives back a slot changes nothing here. *)
LEMMA OthersMove ==
  ASSUME PoolInv, TypeOK', NEW w \in Workers, open' = open,
         worker[w].at \notin {"stream", "refused"}, worker'[w].at \notin {"stream", "refused"},
         \A v \in Workers \ {w} : worker'[v] = worker[v]
  PROVE  SlotsKept'
PROOF
<1>1. worker' \in [Workers -> [at : {"pick", "accept", "serve", "stream", "refused", "answer"},
                                on : Networks]]
  BY DEF TypeOK
<1>2. At("stream")' = At("stream") /\ Held' = Held
  BY <1>1 DEF At, Held, PoolInv, TypeOK
<1> QED BY <1>2 DEF PoolInv, SlotsKept, SlotCount, HalfForPages, Held, MaxStreams

LEMMA PoolSteps == PoolInv /\ [Next]_vars => PoolInv'
PROOF
<1> SUFFICES ASSUME PoolInv, [Next]_vars PROVE PoolInv'
  OBVIOUS
<1> USE DEF PoolInv
<1>i. SlotCount /\ HalfForPages /\ open = Cardinality(Held)
  BY DEF SlotsKept, SlotCount, Held
<1>m. MaxStreams' = MaxStreams
  BY DEF MaxStreams
<1>s. ASSUME open' = open, At("stream")' = At("stream"), Held' = Held PROVE SlotsKept'
  BY <1>i, <1>m, <1>s DEF SlotsKept, SlotCount, HalfForPages, Held
<1>1. CASE UNCHANGED vars
  BY <1>1, <1>s DEF vars, TypeOK, At, Held
<1>2. CASE Outside
  <2>1. TypeOK' /\ UNCHANGED <<worker, open>>
    BY <1>2 DEF Outside, Connect, LinkUp, LinkLost, TypeOK
  <2> QED BY <2>1, <1>s DEF At, Held
<1>3. ASSUME NEW w \in Workers, Work(w) PROVE PoolInv'
  <2>t. worker[w] \in [at : {"pick", "accept", "serve", "stream", "refused", "answer"}, on : Networks]
    BY DEF TypeOK
  <2>1. CASE Pick(w) \/ Accept(w) \/ HandshakeFails(w) \/ LinkDown(w) \/ ServeEnds(w)
    <3>1. TypeOK'
      BY <2>1, <2>t DEF Pick, Accept, HandshakeFails, LinkDown, ServeEnds, To, TypeOK, Networks
    <3>2. /\ open' = open
          /\ worker[w].at \notin {"stream", "refused"} /\ worker'[w].at \notin {"stream", "refused"}
          /\ \A v \in Workers \ {w} : worker'[v] = worker[v]
      BY <2>1, <2>t DEF Pick, Accept, HandshakeFails, LinkDown, ServeEnds, To, TypeOK
    <3> QED BY <3>1, <3>2, OthersMove
  <2>2. CASE Take(w)
    <3> DEFINE p == IF open < MaxStreams THEN "stream" ELSE "refused"
    <3>1. TypeOK'
      BY <2>2, <2>t DEF Take, To, TypeOK, Networks
    <3>2. /\ open' = open + 1 /\ worker[w].at = "serve" /\ worker'[w].at = p
          /\ \A v \in Workers \ {w} : worker'[v] = worker[v]
      BY <2>2, <2>t DEF Take, To, TypeOK
    <3>3. Held' = Held \cup {w} /\ w \notin Held /\ w \notin At("stream")
      BY <3>1, <3>2, Moved DEF At, Held, TypeOK
    <3>4. Cardinality(Held') = Cardinality(Held) + 1
      BY <3>3, HeldFinite, FS_AddElement
    <3>5. SlotCount'
      BY <3>2, <3>4, <1>i DEF SlotCount, Held
    <3>6. CASE open < MaxStreams
      <4>1. At("stream")' = At("stream") \cup {w}
        BY <3>1, <3>2, <3>6, Moved DEF TypeOK
      <4>2. Cardinality(At("stream")') = Cardinality(At("stream")) + 1
        BY <4>1, <3>3, HeldFinite, FS_AddElement
      <4> QED BY <4>2, <3>1, <3>5, <3>6, <1>i, <1>m, HeldFinite DEF SlotsKept, HalfForPages
    <3>7. CASE ~(open < MaxStreams)
      <4>1. At("stream")' = At("stream") \ {w}
        BY <3>1, <3>2, <3>7, Moved DEF TypeOK
      <4> QED BY <4>1, <3>1, <3>3, <3>5, <1>i, <1>m DEF SlotsKept, HalfForPages
    <3> QED BY <3>6, <3>7
  <2>3. CASE Refuse(w) \/ StreamEnds(w)
    <3>1. w \in Held
      BY <2>3 DEF Refuse, StreamEnds, At, Held
    <3>2. open \in Nat \ {0}
      <4>1. Cardinality(Held) # 0
        BY <3>1, HeldFinite, FS_EmptySet
      <4> QED BY <4>1, <1>i, HeldFinite
    <3>3. TypeOK'
      BY <2>3, <2>t, <3>2 DEF Refuse, StreamEnds, To, TypeOK, Networks
    <3>4. /\ open' = open - 1 /\ worker'[w].at \notin {"stream", "refused"}
          /\ \A v \in Workers \ {w} : worker'[v] = worker[v]
      BY <2>3, <2>t DEF Refuse, StreamEnds, To, TypeOK
    <3>5. Held' = Held \ {w} /\ At("stream")' = At("stream") \ {w}
      BY <3>3, <3>4, Moved DEF TypeOK
    <3>6. Cardinality(Held') = Cardinality(Held) - 1
      BY <3>1, <3>5, HeldFinite, FS_RemoveElement
    <3>7. Cardinality(At("stream")') <= Cardinality(At("stream"))
      BY <3>5, HeldFinite, FS_Subset
    <3>8. Cardinality(At("stream")') \in Nat
      BY <3>5, HeldFinite, FS_Subset, FS_CardinalityType
    <3> QED BY <3>3, <3>4, <3>6, <3>7, <3>8, <1>i, <1>m, HeldFinite
            DEF SlotsKept, SlotCount, HalfForPages, Held
  <2> QED BY <1>3, <2>1, <2>2, <2>3 DEF Work
<1> QED BY <1>1, <1>2, <1>3 DEF Next

(* No slot is lost or leaked, and half of the workers stay free of streams *)
(* (StreamSlots::take and StreamSlot::drop), for any number of workers.    *)
THEOREM SlotsAlwaysKept == ConnectionSpec => []SlotsKept
PROOF
<1>1. ConnectionInit => PoolInv
  BY PartsStart, PoolStarts
<1>2. PoolInv /\ [ConnectionNext]_connectionVars => PoolInv'
  BY PartsStep, PoolSteps
<1>3. PoolInv => SlotsKept
  BY DEF PoolInv
<1> QED BY <1>1, <1>2, <1>3, PTL DEF ConnectionSpec

-----------------------------------------------------------------------------
(* The task counts while it waits between two attempts, and leaves that    *)
(* wait only with none: what it misses elsewhere cannot make it count more *)
(* phones than there are.                                                  *)
CountedWhereHeard == wifi.at # "retry" => wifi.clients = 0
WifiInv == Net!TypeOK /\ Net!NeverOvercounted /\ CountedWhereHeard

WifiRecord == [at : Net!Places, left : 0 .. Retry + RetryWithAp, failing : 0 .. FallbackAfter + 1,
          ap : BOOLEAN, clients : 0 .. Cardinality(Phones)]

(* The module's own copies of what a size is, and finite.                  *)
LEMMA SameSize ==
  \A S : Net!Cardinality(S) = Cardinality(S) /\ (Net!IsFiniteSet(S) <=> IsFiniteSet(S))
PROOF
<1>1. \A S : Net!Cardinality(S) = Cardinality(S)
  BY Zenon DEF Net!Cardinality, Cardinality
<1>2. \A S : Net!IsFiniteSet(S) <=> IsFiniteSet(S)
  BY Zenon DEF Net!IsFiniteSet, IsFiniteSet
<1> QED BY <1>1, <1>2

LEMMA PhonesFinite ==
  ASSUME Net!WifiConstants, NEW S, S \subseteq Phones
  PROVE  /\ IsFiniteSet(S) /\ Cardinality(S) \in Nat
         /\ Cardinality(S) <= Cardinality(Phones) /\ Cardinality(Phones) \in Nat
PROOF
<1> QED BY SameSize, FS_Subset, FS_CardinalityType DEF Net!WifiConstants

LEMMA PlacesAre ==
  /\ "portal" \in Net!Places /\ "connecting" \in Net!Places /\ "address" \in Net!Places
  /\ "connected" \in Net!Places /\ "pause" \in Net!Places /\ "retry" \in Net!Places
  /\ "closing" \in Net!Places /\ "restarting" \in Net!Places
PROOF
<1> QED BY DEF Net!Places

LEMMA WifiStarts == ASSUME Net!WifiConstants, Net!Init PROVE WifiInv
PROOF
<1>1. Cardinality(phones) = 0 /\ Cardinality(Phones) \in Nat
  BY FS_EmptySet, PhonesFinite DEF Net!Init
<1>2. Retry \in Nat /\ RetryWithAp \in Nat /\ FallbackAfter \in Nat
  BY DEF Net!WifiConstants
<1>3. Net!Boot \in WifiRecord /\ Net!Boot.clients = 0
  BY <1>1, <1>2, PlacesAre DEF Net!Boot, WifiRecord
<1>4. wifi \in WifiRecord /\ wifi.clients = 0
  <2>1. CASE wifi = Net!Boot
    BY <2>1, <1>3
  <2>2. CASE wifi = [Net!Boot EXCEPT !.at = "portal", !.ap = TRUE]
    BY <2>2, <1>3, PlacesAre DEF WifiRecord
  <2> QED BY <2>1, <2>2 DEF Net!Init
<1>5. /\ home \in [link : BOOLEAN, address : BOOLEAN] /\ phones = {}
      /\ connected \in BOOLEAN /\ busy \in BOOLEAN
  BY DEF Net!Init, Net!NoLink
<1> QED BY <1>1, <1>4, <1>5, SameSize DEF Net!TypeOK, WifiRecord, WifiInv, Net!NeverOvercounted, CountedWhereHeard

(* The steps of the task, of time and of the home network: the phones stay *)
(* where they are, or all are gone after a restart.                        *)
LEMMA TaskKeepsCount ==
  ASSUME Net!WifiConstants, WifiInv, Net!Task \/ Net!Leased \/ Net!LinkLost \/ Net!Works \/ Net!Clock
  PROVE  WifiInv'
PROOF
<1>1. /\ Cardinality(phones) \in Nat /\ Cardinality(Phones) \in Nat
      /\ Retry \in Nat /\ RetryWithAp \in Nat /\ FallbackAfter \in Nat
  BY PhonesFinite DEF WifiInv, Net!TypeOK, Net!WifiConstants
<1>2. Cardinality({}) = 0
  BY FS_EmptySet
<1>3. /\ wifi \in WifiRecord /\ (wifi.at # "retry" => wifi.clients = 0)
      /\ wifi.clients <= Cardinality(phones)
  BY SameSize DEF WifiInv, Net!TypeOK, WifiRecord, CountedWhereHeard, Net!NeverOvercounted
<1>4. /\ wifi' \in WifiRecord
      /\ wifi'.clients = wifi.clients \/ wifi'.clients = 0
      /\ wifi'.at # "retry" => wifi'.clients = 0
      /\ Net!Restarted => wifi'.clients = 0
  <2>1. CASE Net!Connects \/ Net!PauseEnds \/ Net!RetryEnds \/ Net!GotAddress \/ Net!RestartsWhenIdle
    <3>1. PICK a \in Net!Places, l \in {0, RetryWithAp} :
            wifi' = [wifi EXCEPT !.at = a, !.left = l] /\ (a = "retry" \/ wifi.clients = 0)
      BY <2>1, <1>3, PlacesAre
         DEF Net!Connects, Net!PauseEnds, Net!RetryEnds, Net!GotAddress, Net!RestartsWhenIdle, Net!To
    <3>2. l \in 0 .. Retry + RetryWithAp
      BY <1>1, <3>1
    <3>3. wifi' \in WifiRecord /\ wifi'.clients = wifi.clients /\ wifi'.at = a
      BY <1>3, <3>1, <3>2 DEF WifiRecord
    <3>4. ~Net!Restarted
      BY <2>1 DEF Net!Restarted, Net!Connects, Net!PauseEnds, Net!RetryEnds, Net!GotAddress, Net!RestartsWhenIdle
    <3> QED BY <3>1, <3>3, <3>4
  <2>2. CASE Net!Disconnects
    <3>1. wifi' = [wifi EXCEPT !.at = "connecting", !.left = 0, !.failing = 0]
      BY <1>3, <2>2 DEF Net!Disconnects, Net!To, WifiRecord
    <3>2. 0 \in 0 .. Retry + RetryWithAp /\ 0 \in 0 .. FallbackAfter + 1
      BY <1>1
    <3>3. wifi' \in WifiRecord /\ wifi'.clients = wifi.clients
      BY <1>3, <3>1, <3>2, PlacesAre DEF WifiRecord
    <3>4. wifi.clients = 0 /\ ~Net!Restarted
      BY <1>3, <2>2 DEF Net!Restarted, Net!Disconnects
    <3> QED BY <3>3, <3>4
  <2>3. CASE Net!ConnectFails \/ Net!OpensAp
    <3>1. PICK p \in BOOLEAN : wifi' = Net!Waits(p) /\ wifi.at = "connecting"
      BY <1>3, <2>3 DEF Net!ConnectFails, Net!OpensAp, WifiRecord
    <3> DEFINE a == IF p THEN "retry" ELSE "pause"
               l == IF p THEN RetryWithAp ELSE Retry
    <3>2. a \in Net!Places /\ l \in 0 .. Retry + RetryWithAp
      BY <1>1, PlacesAre
    <3>3. wifi' = [wifi EXCEPT !.at = a, !.ap = p, !.left = l]
      BY <3>1 DEF Net!Waits
    <3>4. wifi.clients = 0 /\ ~Net!Restarted
      BY <1>3, <3>1 DEF Net!Restarted
    <3> HIDE DEF a, l
    <3>5. wifi' \in WifiRecord /\ wifi'.clients = wifi.clients
      BY <1>3, <3>2, <3>3 DEF WifiRecord
    <3> QED BY <3>4, <3>5
  <2>4. CASE Net!Restarted
    <3>1. Net!Boot \in WifiRecord /\ Net!Boot.clients = 0
      BY <1>1, PlacesAre DEF Net!Boot, WifiRecord
    <3> QED BY <2>4, <3>1 DEF Net!Restarted
  <2>5. CASE wifi' = wifi /\ ~Net!Restarted
    BY <1>3, <2>5
  <2>6. CASE Net!Clock
    <3>1. /\ (IF wifi.left = 0 THEN 0 ELSE wifi.left - 1) \in 0 .. Retry + RetryWithAp
          /\ (IF wifi.failing > FallbackAfter \/ wifi.ap THEN wifi.failing
              ELSE wifi.failing + 1) \in 0 .. FallbackAfter + 1
      BY <1>1, <1>3 DEF WifiRecord
    <3> QED BY <1>3, <2>6, <3>1 DEF Net!Clock, WifiRecord, Net!Restarted
  <2>7. Net!Leased \/ Net!LinkLost \/ Net!Works => wifi' = wifi
    BY DEF Net!Leased, Net!LinkLost, Net!Works
  <2> QED BY <2>1, <2>2, <2>3, <2>4, <2>5, <2>6, <2>7 DEF Net!Task, Net!Attempt, Net!Steps
<1>5. home' \in [link : BOOLEAN, address : BOOLEAN] /\ connected' \in BOOLEAN /\ busy' \in BOOLEAN
  <2>1. home \in [link : BOOLEAN, address : BOOLEAN] /\ connected \in BOOLEAN /\ busy \in BOOLEAN
    BY DEF WifiInv, Net!TypeOK
  <2>2. \/ home' = home \/ home' = Net!NoLink
        \/ home' = [Net!NoLink EXCEPT !.link = TRUE] \/ home' = [home EXCEPT !.address = TRUE]
    BY DEF Net!Task, Net!Attempt, Net!Steps, Net!Connects, Net!ConnectFails, Net!OpensAp, Net!PauseEnds, Net!RetryEnds, Net!GotAddress,
           Net!Disconnects, Net!RestartsWhenIdle, Net!Restarted, Net!Leased, Net!LinkLost, Net!Works, Net!Clock, Net!Away
  <2>3. home' \in [link : BOOLEAN, address : BOOLEAN]
    <3>1. /\ Net!NoLink \in [link : BOOLEAN, address : BOOLEAN]
          /\ [Net!NoLink EXCEPT !.link = TRUE] \in [link : BOOLEAN, address : BOOLEAN]
      BY DEF Net!NoLink
    <3>2. [home EXCEPT !.address = TRUE] \in [link : BOOLEAN, address : BOOLEAN]
      BY <2>1
    <3> QED BY <2>1, <2>2, <3>1, <3>2
  <2>4. connected' = connected \/ connected' \in BOOLEAN
    BY DEF Net!Task, Net!Attempt, Net!Steps, Net!Connects, Net!ConnectFails, Net!OpensAp, Net!PauseEnds, Net!RetryEnds, Net!GotAddress,
           Net!Disconnects, Net!RestartsWhenIdle, Net!Restarted, Net!Leased, Net!LinkLost, Net!Works, Net!Clock, Net!Away
  <2>5. busy' = busy \/ busy' \in BOOLEAN
    BY DEF Net!Task, Net!Attempt, Net!Steps, Net!Connects, Net!ConnectFails, Net!OpensAp, Net!PauseEnds, Net!RetryEnds, Net!GotAddress,
           Net!Disconnects, Net!RestartsWhenIdle, Net!Restarted, Net!Leased, Net!LinkLost, Net!Works, Net!Clock, Net!Away
  <2> QED BY <2>1, <2>3, <2>4, <2>5
<1>6. phones' = phones \/ (phones' = {} /\ Net!Restarted)
  BY DEF Net!Task, Net!Attempt, Net!Steps, Net!Connects, Net!ConnectFails, Net!OpensAp, Net!PauseEnds, Net!RetryEnds, Net!GotAddress,
         Net!Disconnects, Net!RestartsWhenIdle, Net!Restarted, Net!Leased, Net!LinkLost, Net!Works, Net!Clock, Net!Away
<1>7. phones' \subseteq Phones /\ wifi'.clients <= Cardinality(phones')
  BY <1>1, <1>2, <1>3, <1>4, <1>6 DEF WifiInv, Net!TypeOK, WifiRecord
<1> QED BY <1>4, <1>5, <1>7, SameSize DEF WifiInv, Net!TypeOK, WifiRecord, Net!NeverOvercounted, CountedWhereHeard

LEMMA JoinsKeepsCount ==
  ASSUME Net!WifiConstants, WifiInv, NEW p \in Phones, Net!Joins(p)
  PROVE  WifiInv'
PROOF
<1> USE DEF WifiInv, Net!TypeOK, Net!NeverOvercounted, CountedWhereHeard, Net!Joins, Net!Listening
<1>1. phones' \subseteq Phones
  OBVIOUS
<1>2. Cardinality(phones') = Cardinality(phones) + 1
  BY PhonesFinite, FS_AddElement
<1>3. Cardinality(phones) \in Nat /\ Cardinality(phones') <= Cardinality(Phones)
      /\ Cardinality(Phones) \in Nat
  BY <1>1, PhonesFinite
<1> QED BY <1>1, <1>2, <1>3, SameSize

(* A phone that leaves was there, so that one that is counted goes with it. *)
LEMMA LeavesKeepsCount ==
  ASSUME Net!WifiConstants, WifiInv, NEW p \in Phones, Net!Leaves(p)
  PROVE  WifiInv'
PROOF
<1> USE DEF WifiInv, Net!TypeOK, Net!NeverOvercounted, CountedWhereHeard, Net!Leaves, Net!Listening
<1>1. phones' \subseteq Phones
  OBVIOUS
<1>2. Cardinality(phones') = Cardinality(phones) - 1
  BY PhonesFinite, FS_RemoveElement
<1>3. Cardinality(phones) \in Nat /\ Cardinality(phones') \in Nat /\ Cardinality(Phones) \in Nat
  BY <1>1, PhonesFinite
<1> QED BY <1>1, <1>2, <1>3, SameSize

LEMMA WifiSteps ==
  ASSUME Net!WifiConstants, WifiInv, [Net!Next]_netVars
  PROVE  WifiInv'
PROOF
<1>1. CASE UNCHANGED netVars
  BY <1>1 DEF WifiInv, Net!TypeOK, Net!NeverOvercounted, CountedWhereHeard, netVars
<1>2. CASE Net!Next
  BY <1>2, TaskKeepsCount, JoinsKeepsCount, LeavesKeepsCount DEF Net!Next
<1> QED BY <1>1, <1>2

(* The task's count of the phones on the access point is never too high,   *)
(* for any number of phones and any times: a count that stays would keep   *)
(* the device from its home network for good.                              *)
THEOREM WifiNeverOvercounts == ConnectionSpec => []PhonesCounted
PROOF
<1>1. ConnectionInit => WifiInv
  BY PartsStart, ConnectionConstants, WifiStarts
<1>2. WifiInv /\ [ConnectionNext]_connectionVars => WifiInv'
  BY PartsStep, ConnectionConstants, WifiSteps
<1>3. WifiInv => PhonesCounted
  BY DEF WifiInv, PhonesCounted
<1> QED BY <1>1, <1>2, <1>3, PTL DEF ConnectionSpec

-----------------------------------------------------------------------------
(* The MQTT session.  The broker has heard of the client since its last    *)
(* packet, which is never longer ago than half of what it promised; and    *)
(* what the filter knows the broker was told in this session.              *)
Half == KeepAlive \div 2
Heard == client.at = "loop" /\ broker.reached /\ broker.holds
Session ==
  /\ client \in [at : {"off", "connected", "loop"}, publish : Nat, discover : Nat,
                 sent : 0 .. Half, left : Nat]
  /\ broker \in [holds : BOOLEAN, reached : BOOLEAN, silent : Nat,
                 status : {"online", "offline"}, state : [Needs -> Shown \cup {Mqt!NotKnown}]]
  /\ known \in [Needs -> Shown \cup {Mqt!NotKnown}]
  /\ value \in [Needs -> Shown] /\ met \subseteq Needs
MqttInv ==
  /\ Session
  /\ client.at # "loop" => client.sent = 0
  /\ Heard => broker.silent <= client.sent
  /\ Mqt!FilterTrue

LEMMA HalfIs ==
  ASSUME Mqt!MqttConstants
  PROVE  /\ Half \in Nat /\ Half <= KeepAlive /\ 2 * Half <= 3 * KeepAlive
         /\ {KeepAlive, Interval, Discovery, Reconnect} \subseteq Nat
PROOF
<1> QED BY DEF Mqt!MqttConstants, Half

LEMMA MqttStarts == ASSUME Mqt!MqttConstants, Mqt!Init PROVE MqttInv
PROOF
<1>1. /\ client.at = "off" /\ client.sent = 0
      /\ client \in [at : {"off", "connected", "loop"}, publish : Nat, discover : Nat,
                     sent : 0 .. Half, left : Nat]
  BY HalfIs DEF Mqt!Init, Mqt!Off
<1>2. /\ Mqt!Nothing \in [Needs -> Shown \cup {Mqt!NotKnown}]
      /\ value \in [Needs -> Shown] /\ met \subseteq Needs
  BY DEF Mqt!Nothing, Mqt!Init
<1>3. /\ broker \in [holds : BOOLEAN, reached : BOOLEAN, silent : Nat,
                     status : {"online", "offline"}, state : [Needs -> Shown \cup {Mqt!NotKnown}]]
      /\ known = Mqt!Nothing
  BY <1>2 DEF Mqt!Init
<1> QED BY <1>1, <1>2, <1>3 DEF MqttInv, Session, Heard, Mqt!FilterTrue

(* A pass through the loop tells the broker what the filter then knows.    *)
LEMMA PassKeeps ==
  ASSUME Mqt!MqttConstants, MqttInv, NEW hassio \in BOOLEAN,
         NEW interval \in Nat, Mqt!Pass(hassio, interval)
  PROVE  MqttInv'
PROOF
<1> DEFINE P == Mqt!Published
           packet == Mqt!Published \cup Mqt!Announced(hassio) # {}
           since == IF packet THEN 0 ELSE client.sent
           ping == Mqt!PingDue(since)
           told == [e \in Needs |-> IF e \in P THEN value[e] ELSE broker.state[e]]
<1>1. /\ client.at = "loop"
      /\ client' = [client EXCEPT !.publish = IF Mqt!Round THEN interval ELSE client.publish,
                                  !.discover = IF Mqt!Discovers THEN Discovery ELSE client.discover,
                                  !.sent = IF ping THEN 0 ELSE since]
      /\ known' = [e \in Needs |-> IF e \in P THEN value[e] ELSE known[e]]
      /\ UNCHANGED <<value, met>>
  BY DEF Mqt!Pass
<1>2. /\ packet \/ ping => Mqt!Hears([broker EXCEPT !.state = told])
      /\ ~(packet \/ ping) => UNCHANGED broker
  BY DEF Mqt!Pass
<1>3. Session /\ client.sent \in 0 .. Half /\ (P # {} => packet)
  BY DEF MqttInv, Session
<1> HIDE DEF P, packet, ping
<1>4. since \in 0 .. Half /\ (packet => since = 0) /\ (~packet => since = client.sent)
  BY <1>3, HalfIs
<1> HIDE DEF since
<1>5. /\ client' \in [at : {"off", "connected", "loop"}, publish : Nat, discover : Nat,
                      sent : 0 .. Half, left : Nat]
      /\ client'.at = "loop" /\ client'.sent = (IF ping THEN 0 ELSE since)
  <2> DEFINE p == IF Mqt!Round THEN interval ELSE client.publish
             d == IF Mqt!Discovers THEN Discovery ELSE client.discover
             s == IF ping THEN 0 ELSE since
  <2>1. p \in Nat /\ d \in Nat /\ s \in 0 .. Half
    BY <1>3, <1>4, HalfIs DEF Session
  <2>2. client' = [client EXCEPT !.publish = p, !.discover = d, !.sent = s]
    BY <1>1
  <2> HIDE DEF p, d, s
  <2>3. /\ client' \in [at : {"off", "connected", "loop"}, publish : Nat, discover : Nat,
                        sent : 0 .. Half, left : Nat]
        /\ client'.at = "loop" /\ client'.sent = s
    BY <1>1, <1>3, <2>1, <2>2 DEF Session
  <2> QED BY <2>3 DEF s
<1>6. told \in [Needs -> Shown \cup {Mqt!NotKnown}]
      /\ known' \in [Needs -> Shown \cup {Mqt!NotKnown}]
  BY <1>1, <1>3 DEF Session
<1>6a. \A e \in Needs : /\ known'[e] = IF e \in P THEN value[e] ELSE known[e]
                        /\ told[e] = IF e \in P THEN value[e] ELSE broker.state[e]
  BY <1>1
<1> HIDE DEF told
<1>7. CASE (packet \/ ping) /\ broker.holds /\ broker.reached
  <2>1. broker' = [broker EXCEPT !.state = told, !.silent = 0]
    BY <1>2, <1>7 DEF Mqt!Hears
  <2>2. /\ broker' \in [holds : BOOLEAN, reached : BOOLEAN, silent : Nat,
                        status : {"online", "offline"}, state : [Needs -> Shown \cup {Mqt!NotKnown}]]
        /\ broker'.silent = 0 /\ broker'.state = told
    BY <1>3, <1>6, <2>1 DEF Session
  <2>3. Mqt!FilterTrue'
    BY <1>1, <1>6a, <1>7, <2>2 DEF MqttInv, Mqt!FilterTrue
  <2>4. Session'
    BY <1>1, <1>3, <1>5, <1>6, <2>2 DEF Session
  <2>5. broker'.silent <= client'.sent
    BY <1>5, <2>2
  <2> QED BY <1>5, <2>3, <2>4, <2>5 DEF MqttInv
<1>8. CASE (packet \/ ping) /\ ~(broker.holds /\ broker.reached)
  <2>1. broker' = broker
    BY <1>2, <1>8 DEF Mqt!Hears
  <2>2. Session'
    BY <1>1, <1>3, <1>5, <1>6, <2>1 DEF Session
  <2>3. ~Heard' /\ Mqt!FilterTrue'
    BY <1>8, <2>1 DEF Heard, Mqt!FilterTrue
  <2> QED BY <1>5, <2>2, <2>3 DEF MqttInv
<1>9. CASE ~(packet \/ ping)
  <2>1. broker' = broker /\ client'.sent = client.sent /\ P = {}
    BY <1>2, <1>3, <1>4, <1>5, <1>9
  <2>2. known' = known
    BY <1>1, <1>3, <2>1 DEF Session
  <2> QED BY <1>1, <1>3, <1>5, <2>1, <2>2 DEF MqttInv, Session, Heard, Mqt!FilterTrue
<1> QED BY <1>7, <1>8, <1>9

LEMMA MqttSteps ==
  ASSUME Mqt!MqttConstants, MqttInv, [Mqt!Next]_mqtVars
  PROVE  MqttInv'
PROOF
<1>0. /\ Session /\ (client.at # "loop" => client.sent = 0)
      /\ (Heard => broker.silent <= client.sent) /\ Mqt!FilterTrue
  BY DEF MqttInv
<1>1. CASE UNCHANGED mqtVars
  BY <1>1 DEF MqttInv, Session, Heard, Mqt!FilterTrue, mqtVars
<1>2. CASE Mqt!Fails \/ Mqt!Ends
  <2>1. client' = Mqt!Off(Reconnect) /\ UNCHANGED <<known, value, met>>
    BY <1>2 DEF Mqt!Fails, Mqt!Ends
  <2>2. broker' = broker \/ broker' = [broker EXCEPT !.reached = FALSE]
    BY <1>2 DEF Mqt!Fails, Mqt!Ends
  <2>3. /\ client' \in [at : {"off", "connected", "loop"}, publish : Nat, discover : Nat,
                        sent : 0 .. Half, left : Nat]
        /\ client'.at = "off" /\ client'.sent = 0
    BY <2>1, HalfIs DEF Mqt!Off
  <2>4. Session'
    BY <1>0, <2>1, <2>2, <2>3 DEF Session
  <2> QED BY <2>3, <2>4 DEF MqttInv, Heard, Mqt!FilterTrue
<1>3. CASE Mqt!Connects
  <2>1. /\ client' = [Mqt!Off(0) EXCEPT !.at = "connected"] /\ UNCHANGED <<known, value, met>>
        /\ broker' = [broker EXCEPT !.holds = TRUE, !.reached = TRUE, !.silent = 0,
                        !.status = IF broker.holds THEN "offline" ELSE broker.status]
    BY <1>3 DEF Mqt!Connects
  <2>2. /\ client' \in [at : {"off", "connected", "loop"}, publish : Nat, discover : Nat,
                        sent : 0 .. Half, left : Nat]
        /\ client'.at = "connected" /\ client'.sent = 0
    BY <2>1, HalfIs DEF Mqt!Off
  <2>3. (IF broker.holds THEN "offline" ELSE broker.status) \in {"online", "offline"}
    BY <1>0 DEF Session
  <2>4. Session'
    BY <1>0, <2>1, <2>2, <2>3 DEF Session
  <2> QED BY <2>2, <2>4 DEF MqttInv, Heard, Mqt!FilterTrue
<1>4. CASE Mqt!SaysOnline
  <2>1. /\ client.at = "connected" /\ client' = [client EXCEPT !.at = "loop"]
        /\ known' = Mqt!Nothing /\ UNCHANGED <<value, met>>
        /\ Mqt!Hears([broker EXCEPT !.status = "online"])
    BY <1>4 DEF Mqt!SaysOnline
  <2>2. known' \in [Needs -> Shown \cup {Mqt!NotKnown}] /\ \A e \in Needs : known'[e] = Mqt!NotKnown
    BY <2>1 DEF Mqt!Nothing
  <2>3. /\ client' \in [at : {"off", "connected", "loop"}, publish : Nat, discover : Nat,
                        sent : 0 .. Half, left : Nat]
        /\ client'.at = "loop" /\ client'.sent = 0
    BY <1>0, <2>1 DEF Session
  <2>4. /\ broker' \in [holds : BOOLEAN, reached : BOOLEAN, silent : Nat,
                        status : {"online", "offline"}, state : [Needs -> Shown \cup {Mqt!NotKnown}]]
        /\ broker'.holds /\ broker'.reached => broker'.silent = 0
    <3>1. CASE broker.holds /\ broker.reached
      BY <1>0, <2>1, <3>1 DEF Session, Mqt!Hears
    <3>2. CASE ~(broker.holds /\ broker.reached)
      BY <1>0, <2>1, <3>2 DEF Session, Mqt!Hears
    <3> QED BY <3>1, <3>2
  <2>5. Session'
    BY <1>0, <2>1, <2>2, <2>3, <2>4 DEF Session
  <2>6. (Heard => broker.silent <= client.sent)'
    BY <2>3, <2>4 DEF Heard
  <2> QED BY <2>2, <2>3, <2>5, <2>6 DEF MqttInv, Mqt!FilterTrue
<1>5. CASE Mqt!APass
  <2>1. PICK hassio \in BOOLEAN, interval \in {Interval, 2 * Interval} : Mqt!Pass(hassio, interval)
    BY <1>5 DEF Mqt!APass
  <2>2. interval \in Nat
    BY HalfIs
  <2> QED BY <2>1, <2>2, PassKeeps
<1>6. CASE Mqt!Dies \/ Mqt!Drops
  <2>1. /\ UNCHANGED <<client, known, value, met>>
        /\ \/ broker' = [broker EXCEPT !.reached = FALSE]
           \/ broker' = [broker EXCEPT !.holds = FALSE, !.reached = FALSE, !.status = "offline"]
    BY <1>6 DEF Mqt!Dies, Mqt!Drops
  <2>2. Session' /\ ~broker'.reached
    BY <1>0, <2>1 DEF Session
  <2> QED BY <1>0, <2>1, <2>2 DEF MqttInv, Heard, Mqt!FilterTrue
<1>7. CASE Mqt!Clock
  <2> DEFINE loop == client.at = "loop"
             p == Mqt!Down(client.publish)
             d == Mqt!Down(client.discover)
             l == Mqt!Down(client.left)
             s == IF loop THEN client.sent + 1 ELSE client.sent
             q == IF broker.holds THEN Mqt!Capped(broker.silent, (3 * KeepAlive) \div 2 + 1) ELSE 0
  <2>1. /\ client' = [client EXCEPT !.publish = p, !.discover = d, !.left = l, !.sent = s]
        /\ broker' = [broker EXCEPT !.silent = q]
        /\ UNCHANGED <<known, value, met>>
    BY <1>7 DEF Mqt!Clock
  <2>2. loop => ~(client.sent >= Half)
    BY <1>7 DEF Mqt!Clock, Mqt!Due, Mqt!PingDue, Half
  <2>3. p \in Nat /\ d \in Nat /\ l \in Nat
    BY <1>0 DEF Session, Mqt!Down
  <2>4. s \in 0 .. Half /\ (loop => s = client.sent + 1) /\ (~loop => s = client.sent)
    BY <1>0, <2>2, HalfIs DEF Session
  <2>5. q \in Nat /\ (broker.holds => q <= broker.silent + 1)
    <3>1. broker.silent \in Nat /\ (3 * KeepAlive) \div 2 + 1 \in Nat
      BY <1>0, HalfIs DEF Session
    <3> QED BY <3>1 DEF Mqt!Capped
  <2> HIDE DEF p, d, l, s, q
  <2>6. /\ client' \in [at : {"off", "connected", "loop"}, publish : Nat, discover : Nat,
                        sent : 0 .. Half, left : Nat]
        /\ client'.at = client.at /\ client'.sent = s
    BY <1>0, <2>1, <2>3, <2>4 DEF Session
  <2>7. /\ broker' \in [holds : BOOLEAN, reached : BOOLEAN, silent : Nat,
                        status : {"online", "offline"}, state : [Needs -> Shown \cup {Mqt!NotKnown}]]
        /\ broker'.silent = q /\ broker'.holds = broker.holds /\ broker'.reached = broker.reached
        /\ broker'.state = broker.state
    BY <1>0, <2>1, <2>5 DEF Session
  <2>8. Session'
    BY <1>0, <2>1, <2>6, <2>7 DEF Session
  <2>9. (Heard => broker.silent <= client.sent)'
    <3> SUFFICES ASSUME Heard' PROVE q <= s
      BY <2>6, <2>7
    <3>1. Heard /\ loop /\ broker.holds
      BY <2>6, <2>7 DEF Heard
    <3> QED BY <1>0, <2>4, <2>5, <3>1 DEF Session
  <2>10. Mqt!FilterTrue'
    BY <1>0, <2>1, <2>6, <2>7 DEF Mqt!FilterTrue
  <2> QED BY <1>0, <2>4, <2>6, <2>8, <2>9, <2>10 DEF MqttInv
<1>8. ASSUME NEW e \in Needs, NEW v \in Shown,
             Mqt!Sets(e) \/ Mqt!HandleIncoming(e, v) \/ Mqt!Shows(e, v)
      PROVE  MqttInv'
  <2>1. /\ UNCHANGED <<known, broker>>
        /\ value' = value \/ value' = [value EXCEPT ![e] = v]
        /\ met' = met \/ met' = met \ {e} \/ met' = met \cup {e}
        /\ client' = client \/ client' = [client EXCEPT !.publish = 0]
    BY <1>8 DEF Mqt!Sets, Mqt!HandleIncoming, Mqt!Shows
  <2>2. /\ client' \in [at : {"off", "connected", "loop"}, publish : Nat, discover : Nat,
                        sent : 0 .. Half, left : Nat]
        /\ client'.at = client.at /\ client'.sent = client.sent
    BY <1>0, <2>1 DEF Session
  <2>3. value' \in [Needs -> Shown] /\ met' \subseteq Needs
    BY <1>0, <2>1 DEF Session
  <2>4. Session'
    BY <1>0, <2>1, <2>2, <2>3 DEF Session
  <2> QED BY <1>0, <2>1, <2>2, <2>4 DEF MqttInv, Heard, Mqt!FilterTrue
<1>9. CASE Mqt!Next /\ \E e \in Needs : Mqt!Sets(e) \/ \E v \in Shown :
                          Mqt!HandleIncoming(e, v) \/ Mqt!Shows(e, v)
  <2>1. PICK e \in Needs : Mqt!Sets(e) \/ \E v \in Shown :
                          Mqt!HandleIncoming(e, v) \/ Mqt!Shows(e, v)
    BY <1>9
  <2>2. value[e] \in Shown
    BY <1>0 DEF Session
  <2> QED BY <1>8, <2>1, <2>2
<1> QED BY <1>1, <1>2, <1>3, <1>4, <1>5, <1>6, <1>7, <1>9 DEF Mqt!Next

(* A session that lasts is never dropped for silence, and the filter holds *)
(* nothing back that the broker has not got (ChangeFilter, the keep-alive  *)
(* and the reconnection of net/mqtt.rs), for any periods and any entities. *)
THEOREM BrokerIsTold == ConnectionSpec => []BrokerTold
PROOF
<1>1. ConnectionInit => MqttInv
  BY PartsStart, ConnectionConstants, MqttStarts
<1>2. MqttInv /\ [ConnectionNext]_connectionVars => MqttInv'
  BY PartsStep, ConnectionConstants, MqttSteps
<1>3. MqttInv => BrokerTold
  <2> SUFFICES ASSUME MqttInv PROVE Mqt!TypeOK /\ Mqt!NeverSilent /\ Mqt!FilterTrue
    BY DEF BrokerTold
  <2>1. Session /\ (Heard => broker.silent <= client.sent) /\ Mqt!FilterTrue
    BY DEF MqttInv
  <2>2. Mqt!TypeOK
    BY <2>1, ConnectionConstants, HalfIs DEF Session, Mqt!TypeOK
  <2>3. Mqt!NeverSilent
    BY <2>1, ConnectionConstants, HalfIs DEF Session, Heard, Mqt!NeverSilent
  <2> QED BY <2>1, <2>2, <2>3
<1> QED BY <1>1, <1>2, <1>3, PTL DEF ConnectionSpec

-----------------------------------------------------------------------------
(* The upload's own proofs, of the definitions it shares with this module. *)
Mul == INSTANCE MultipartProofs

LEMMA SameUploads ==
  /\ Upl!UploadConstants <=> Mul!UploadConstants
  /\ Upl!Init <=> Mul!Init
  /\ [Upl!Next]_uplVars <=> [Mul!Next]_(Mul!partVars)
  /\ Upl!PartsWhole <=> Mul!PartsWhole
PROOF
<1>1. Upl!CR = Mul!CR /\ Upl!LF = Mul!LF /\ Upl!Dash = Mul!Dash
  BY Zenon DEF Upl!CR, Mul!CR, Upl!LF, Mul!LF, Upl!Dash, Mul!Dash
<1>2. Upl!Line = Mul!Line /\ Upl!Delim = Mul!Delim
  BY <1>1, Zenon DEF Upl!Line, Mul!Line, Upl!Delim, Mul!Delim
<1>3. Upl!UploadConstants <=> Mul!UploadConstants
  <2>1. \A text : Upl!Holds(text) <=> Mul!Holds(text)
    BY <1>2, Zenon DEF Upl!Holds, Mul!Holds
  <2> QED BY <1>1, <1>2, <2>1, Zenon DEF Upl!UploadConstants, Mul!UploadConstants
<1>4. Upl!Init <=> Mul!Init
  BY <1>2, Zenon DEF Upl!Init, Mul!Init
<1>5. \A upload, k : Upl!Item(upload, k) = Mul!Item(upload, k)
  BY <1>1, <1>2, Zenon DEF Upl!Item, Mul!Item
<1>6. Upl!AllSent <=> Mul!AllSent
  BY Zenon DEF Upl!AllSent, Mul!AllSent
<1>7. Upl!Char = Mul!Char /\ (Upl!Take <=> Mul!Take)
  BY <1>5, <1>6, Zenon DEF Upl!Char, Mul!Char, Upl!Take, Mul!Take
<1>8. \A data, ended : Upl!Gives(data, ended) <=> Mul!Gives(data, ended)
  BY Zenon DEF Upl!Gives, Mul!Gives
<1>9. \A s, t : Upl!IsPrefix(s, t) <=> Mul!IsPrefix(s, t)
  BY Zenon DEF Upl!IsPrefix, Mul!IsPrefix
<1>10. \A s, t : Upl!IsSuffix(s, t) <=> Mul!IsSuffix(s, t)
  BY Zenon DEF Upl!IsSuffix, Mul!IsSuffix, Upl!IsPrefix, Mul!IsPrefix, Upl!Reverse, Mul!Reverse
<1>11. Upl!Next <=> Mul!Next
  <2>1. \A n : Upl!Feed(n) <=> Mul!Feed(n)
    BY <1>6, Zenon DEF Upl!Feed, Mul!Feed
  <2>2. Upl!Match <=> Mul!Match
    BY <1>2, <1>7, <1>8, Zenon DEF Upl!Match, Mul!Match
  <2>3. Upl!Mismatch <=> Mul!Mismatch
    BY <1>2, <1>7, <1>8, Zenon DEF Upl!Mismatch, Mul!Mismatch, Upl!Gave, Mul!Gave
  <2>4. Upl!AfterBoundary <=> Mul!AfterBoundary
    BY <1>1, <1>7, Zenon DEF Upl!AfterBoundary, Mul!AfterBoundary
  <2>5. Upl!Headers <=> Mul!Headers
    BY <1>1, <1>7, <1>10, Zenon DEF Upl!Headers, Mul!Headers
  <2>6. Upl!Ignore <=> Mul!Ignore
    BY <1>7, Zenon DEF Upl!Ignore, Mul!Ignore
  <2> QED BY <2>1, <2>2, <2>3, <2>4, <2>5, <2>6, Zenon DEF Upl!Next, Mul!Next
<1>12. [Upl!Next]_uplVars <=> [Mul!Next]_(Mul!partVars)
  BY <1>11, Zenon DEF uplVars, Mul!partVars
<1>13. Upl!PartsWhole <=> Mul!PartsWhole
  BY <1>2, <1>6, <1>9, Zenon DEF Upl!PartsWhole, Mul!PartsWhole
<1> QED BY <1>3, <1>4, <1>12, <1>13

(* However a body is cut into chunks, and whatever its parts hold that is  *)
(* not the delimiter, the parser gives each part once, with the data it    *)
(* was sent with, and a chunk never gives more than the buffer holds       *)
(* (MultipartParser of multipart.rs), for any boundary and any upload.     *)
THEOREM UploadsAlwaysWhole == ConnectionSpec => []UploadsWhole
PROOF
<1>1. Mul!UploadConstants
  BY ConnectionConstants, SameUploads
<1>2. ConnectionInit => Mul!UploadInv
  BY <1>1, PartsStart, SameUploads, Mul!UploadInvInit
<1>3. Mul!UploadInv /\ [ConnectionNext]_connectionVars => Mul!UploadInv'
  BY <1>1, PartsStep, SameUploads, Mul!UploadInvKept
<1>4. Mul!UploadInv => UploadsWhole
  BY <1>1, SameUploads, Mul!UploadInvImplies DEF UploadsWhole
<1> QED BY <1>2, <1>3, <1>4, PTL DEF ConnectionSpec

-----------------------------------------------------------------------------
(* Config files.  The reader's stack of open objects and the importer's    *)
(* path keep in step, whatever the text is.                                *)
Nestings == [object : BOOLEAN, key : BOOLEAN]
Readers == [pos : Nat, stack : Seq(Nestings), started : BOOLEAN]
SameObjects(s, t, n) == \A i \in 1 .. n : s[i].object = t[i].object

LEMMA StackIs ==
  ASSUME NEW s \in Seq(Nestings)
  PROVE  /\ Len(s) \in Nat
         /\ \A o \in BOOLEAN :
              LET t == Append(s, [object |-> o, key |-> o])
              IN  /\ t \in Seq(Nestings) /\ Len(t) = Len(s) + 1 /\ t[Len(t)].object = o
                  /\ SameObjects(t, s, Len(s))
         /\ s # <<>> =>
              /\ Fil!Last(s) = s[Len(s)] /\ Fil!Last(s) \in Nestings /\ Len(s) > 0
              /\ LET t == Fil!Front(s)
                 IN  t \in Seq(Nestings) /\ Len(t) = Len(s) - 1 /\ SameObjects(t, s, Len(t))
              /\ \A k \in BOOLEAN :
                   LET t == [s EXCEPT ![Len(s)] = [@ EXCEPT !.key = k]]
                   IN  t \in Seq(Nestings) /\ Len(t) = Len(s) /\ SameObjects(t, s, Len(s))
PROOF
<1>1. Len(s) \in Nat
  OBVIOUS
<1>2. ASSUME NEW o \in BOOLEAN
      PROVE  LET t == Append(s, [object |-> o, key |-> o])
             IN  /\ t \in Seq(Nestings) /\ Len(t) = Len(s) + 1 /\ t[Len(t)].object = o
                 /\ SameObjects(t, s, Len(s))
  <2> DEFINE level == [object |-> o, key |-> o]
  <2>1. level \in Nestings /\ level.object = o
    BY DEF Nestings
  <2> HIDE DEF level
  <2>2. /\ Append(s, level) \in Seq(Nestings) /\ Len(Append(s, level)) = Len(s) + 1
        /\ \A i \in 1 .. Len(s) : Append(s, level)[i] = s[i]
        /\ Append(s, level)[Len(s) + 1] = level
    BY <2>1, AppendProperties
  <2>3. /\ Append(s, level)[Len(Append(s, level))].object = o
        /\ SameObjects(Append(s, level), s, Len(s))
    BY <2>1, <2>2 DEF SameObjects
  <2> QED BY <2>2, <2>3 DEF level
<1>3. ASSUME s # <<>>
      PROVE  /\ Fil!Last(s) = s[Len(s)] /\ Fil!Last(s) \in Nestings /\ Len(s) > 0
             /\ LET t == Fil!Front(s)
                IN  t \in Seq(Nestings) /\ Len(t) = Len(s) - 1 /\ SameObjects(t, s, Len(t))
             /\ \A k \in BOOLEAN :
                  LET t == [s EXCEPT ![Len(s)] = [@ EXCEPT !.key = k]]
                  IN  t \in Seq(Nestings) /\ Len(t) = Len(s) /\ SameObjects(t, s, Len(s))
  <2>1. Len(s) > 0 /\ Len(s) \in 1 .. Len(s)
    BY <1>1, <1>3, EmptySeq
  <2>2. Fil!Last(s) = s[Len(s)] /\ s[Len(s)] \in Nestings
    BY <2>1, ElementOfSeq DEF Fil!Last
  <2>3. PICK t : t = SubSeq(s, 1, Len(s) - 1)
    OBVIOUS
  <2>4. Fil!Front(s) = t
    BY <2>3 DEF Fil!Front
  <2>5. t \in Seq(Nestings) /\ Len(t) = Len(s) - 1 /\ \A i \in 1 .. Len(t) : t[i] = s[i]
    <3>1. \A i \in 1 .. Len(s) - 1 : s[i] \in Nestings
      BY <1>1, ElementOfSeq
    <3>2. /\ t \in Seq(Nestings) /\ Len(t) = (IF 1 <= Len(s) - 1 THEN Len(s) - 1 - 1 + 1 ELSE 0)
          /\ \A i \in 1 .. Len(s) - 1 - 1 + 1 : t[i] = s[1 + i - 1]
      BY <1>1, <2>3, <3>1, SubSeqProperties
    <3>3. Len(t) = Len(s) - 1
      <4>1. Len(t) = IF 1 <= Len(s) - 1 THEN Len(s) - 1 - 1 + 1 ELSE 0
        BY <3>2
      <4>2. PICK n \in Nat : n = Len(s)
        BY <1>1
      <4>3. (IF 1 <= n - 1 THEN n - 1 - 1 + 1 ELSE 0) = n - 1
        BY ONLY <4>2, <2>1
      <4> QED BY <4>1, <4>2, <4>3
    <3>4. ASSUME NEW i \in 1 .. Len(t) PROVE t[i] = s[i]
      <4>1. i \in 1 .. Len(s) - 1 - 1 + 1 /\ 1 + i - 1 = i
        BY <1>1, <3>3
      <4> QED BY <4>1, <3>2
    <3> QED BY <3>2, <3>3, <3>4
  <2>6. ASSUME NEW k \in BOOLEAN
        PROVE  LET new == [s EXCEPT ![Len(s)] = [@ EXCEPT !.key = k]]
               IN  new \in Seq(Nestings) /\ Len(new) = Len(s) /\ SameObjects(new, s, Len(s))
    <3> DEFINE level == [s[Len(s)] EXCEPT !.key = k]
    <3>1. level \in Nestings /\ level.object = s[Len(s)].object
      BY <2>2 DEF Nestings
    <3>2. [s EXCEPT ![Len(s)] = [@ EXCEPT !.key = k]] = [s EXCEPT ![Len(s)] = level]
      BY Zenon
    <3> HIDE DEF level
    <3>3. PICK new : new = [s EXCEPT ![Len(s)] = level]
      OBVIOUS
    <3>4. /\ new \in Seq(Nestings) /\ Len(new) = Len(s)
          /\ \A j \in 1 .. Len(s) : new[j] = IF j = Len(s) THEN level ELSE s[j]
      BY <2>1, <3>1, <3>3, ExceptSeq
    <3>5. SameObjects(new, s, Len(s))
      BY <3>1, <3>4 DEF SameObjects
    <3> QED BY <3>2, <3>3, <3>4, <3>5
  <2> QED BY <2>1, <2>2, <2>4, <2>5, <2>6 DEF SameObjects
<1> QED BY <1>1, <1>2, <1>3

LEMMA PushIs ==
  ASSUME NEW r \in Readers, NEW o \in BOOLEAN
  PROVE  LET new == Fil!Push(r, o)
         IN  /\ new \in Readers /\ new.started = r.started
             /\ Len(new.stack) = Len(r.stack) + 1 /\ new.stack[Len(new.stack)].object = o
             /\ SameObjects(new.stack, r.stack, Len(r.stack))
PROOF
<1>1. PICK stack : stack = Append(r.stack, [object |-> o, key |-> o])
  OBVIOUS
<1>2. /\ stack \in Seq(Nestings) /\ Len(stack) = Len(r.stack) + 1 /\ stack[Len(stack)].object = o
      /\ SameObjects(stack, r.stack, Len(r.stack))
  BY <1>1, StackIs DEF Readers
<1>3. PICK pos \in Nat : pos = r.pos + 1
  BY DEF Readers
<1>4. Fil!Push(r, o) = [r EXCEPT !.pos = pos, !.stack = stack]
  BY <1>1, <1>3 DEF Fil!Push
<1> QED BY <1>2, <1>4 DEF Readers

LEMMA KeySet ==
  ASSUME NEW r \in Readers, r.stack # <<>>, NEW k \in BOOLEAN
  PROVE  LET new == [r EXCEPT !.stack[Len(r.stack)].key = k]
         IN  /\ new \in Readers /\ new.started = r.started
             /\ Len(new.stack) = Len(r.stack) /\ SameObjects(new.stack, r.stack, Len(r.stack))
PROOF
<1>1. PICK stack : stack = [r.stack EXCEPT ![Len(r.stack)] = [@ EXCEPT !.key = k]]
  OBVIOUS
<1>2. /\ stack \in Seq(Nestings) /\ Len(stack) = Len(r.stack)
      /\ SameObjects(stack, r.stack, Len(r.stack))
  BY <1>1, StackIs DEF Readers
<1>3. [r EXCEPT !.stack[Len(r.stack)].key = k] = [r EXCEPT !.stack = stack]
  BY <1>1, Zenon
<1> QED BY <1>2, <1>3 DEF Readers

LEMMA AfterValueIs ==
  ASSUME NEW r \in Readers
  PROVE  LET new == Fil!AfterValue(r)
         IN  /\ new \in Readers /\ new.started = r.started
             /\ Len(new.stack) = Len(r.stack) /\ SameObjects(new.stack, r.stack, Len(r.stack))
PROOF
<1>1. CASE r.stack = <<>>
  BY <1>1 DEF Fil!AfterValue, SameObjects
<1>2. CASE r.stack # <<>>
  <2>1. r.stack[Len(r.stack)] \in Nestings
    BY <1>2, StackIs DEF Readers
  <2>2. PICK k \in BOOLEAN : k = (r.stack[Len(r.stack)].key \/ r.stack[Len(r.stack)].object)
    BY <2>1 DEF Nestings
  <2>3. Fil!AfterValue(r) = [r EXCEPT !.stack[Len(r.stack)].key = k]
    BY <1>2, <2>2, Zenon DEF Fil!AfterValue
  <2> QED BY <1>2, <2>3, KeySet
<1> QED BY <1>1, <1>2

(* What a token does to the objects that are open.                         *)
Restacked(r, kind, new) ==
  /\ new \in Readers /\ new.started = TRUE
  /\ \/ kind \in {"{", "["} /\ Len(new.stack) = Len(r.stack) + 1
        /\ new.stack[Len(new.stack)].object = (kind = "{")
        /\ SameObjects(new.stack, r.stack, Len(r.stack))
     \/ kind \in {"}", "]"} /\ Len(new.stack) = Len(r.stack) - 1
        /\ r.stack # <<>> /\ r.stack[Len(r.stack)].object = (kind = "}")
        /\ SameObjects(new.stack, r.stack, Len(new.stack))
     \/ kind \in {"key", "string", "word"} /\ Len(new.stack) = Len(r.stack)
        /\ SameObjects(new.stack, r.stack, Len(r.stack))
TokenOf(r, t) == t[2] \in Readers /\ (t[1].is \in {"error", "panic"} \/ Restacked(r, t[1].is, t[2]))

LEMMA ErrorIs ==
  ASSUME NEW r \in Readers
  PROVE  TokenOf(r, Fil!Bad(r))
PROOF
<1> QED BY DEF Fil!Bad, Fil!Token, TokenOf

LEMMA TokenIs ==
  ASSUME NEW r, NEW kind, NEW of, NEW new, Restacked(r, kind, new)
  PROVE  TokenOf(r, <<Fil!Token(kind, of), new>>)
PROOF
<1>1. new \in Readers
  BY DEF Restacked
<1>2. Fil!Token(kind, of).is = kind
  BY DEF Fil!Token
<1> QED BY <1>1, <1>2 DEF TokenOf

LEMMA ValueIs ==
  ASSUME NEW text, NEW r \in Readers, r.started = TRUE
  PROVE  TokenOf(r, Fil!Value(text, r))
PROOF
<1> DEFINE x == text[r.pos]
<1>1. CASE x.is = "{"
  <2>1. Fil!Value(text, r) = <<Fil!Token("{", <<>>), Fil!Push(r, TRUE)>>
    BY <1>1 DEF Fil!Value
  <2>2. Restacked(r, "{", Fil!Push(r, TRUE))
    BY PushIs DEF Restacked
  <2> QED BY <2>1, <2>2, TokenIs
<1>2. CASE x.is = "["
  <2>1. Fil!Value(text, r) = <<Fil!Token("[", <<>>), Fil!Push(r, FALSE)>>
    BY <1>2 DEF Fil!Value
  <2>2. Restacked(r, "[", Fil!Push(r, FALSE))
    BY PushIs DEF Restacked
  <2> QED BY <2>1, <2>2, TokenIs
<1>3. CASE x.is \in {"string", "word"}
  <2>1. PICK pos \in Nat : pos = r.pos + 1
    BY DEF Readers
  <2>2. PICK on : on = [r EXCEPT !.pos = pos]
    OBVIOUS
  <2>3. on \in Readers /\ on.stack = r.stack /\ on.started = r.started
    BY <2>2 DEF Readers
  <2>4. Fil!Value(text, r) = <<Fil!Token(x.is, x.of), Fil!AfterValue(on)>>
    BY <1>3, <2>1, <2>2 DEF Fil!Value
  <2>5. Restacked(r, x.is, Fil!AfterValue(on))
    BY <1>3, <2>3, AfterValueIs DEF Restacked
  <2> QED BY <2>4, <2>5, TokenIs
<1>4. CASE x.is \notin {"{", "[", "string", "word"}
  <2>1. Fil!Value(text, r) = Fil!Bad(r)
    BY <1>4 DEF Fil!Value
  <2> QED BY <2>1, ErrorIs
<1> QED BY <1>1, <1>2, <1>3, <1>4

LEMMA KeyTokenIs ==
  ASSUME NEW text, NEW r \in Readers, r.started = TRUE, r.stack # <<>>
  PROVE  TokenOf(r, Fil!KeyToken(text, r))
PROOF
<1>1. PICK key : key <=> /\ r.pos < Len(text) /\ text[r.pos].is = "string" /\ text[r.pos + 1].is = ":"
  OBVIOUS
<1>2. CASE key
  <2>1. PICK pos \in Nat : pos = r.pos + 2
    BY DEF Readers
  <2>2. PICK on : on = [r EXCEPT !.pos = pos]
    OBVIOUS
  <2>3. on \in Readers /\ on.stack = r.stack /\ on.started = r.started
    BY <2>2 DEF Readers
  <2>4. PICK new : new = [on EXCEPT !.stack[Len(on.stack)].key = FALSE]
    OBVIOUS
  <2>5. Fil!KeyToken(text, r) = <<Fil!Token("key", text[r.pos].of), new>>
    BY <1>1, <1>2, <2>1, <2>2, <2>3, <2>4 DEF Fil!KeyToken, Readers
  <2>6. Restacked(r, "key", new)
    BY <2>3, <2>4, KeySet DEF Restacked
  <2> QED BY <2>5, <2>6, TokenIs
<1>3. CASE ~key
  <2>1. Fil!KeyToken(text, r) = Fil!Bad(r)
    BY <1>1, <1>3 DEF Fil!KeyToken
  <2> QED BY <2>1, ErrorIs
<1> QED BY <1>2, <1>3

LEMMA NextTokenIs ==
  ASSUME NEW text, NEW r \in Readers, r.started = (r.stack # <<>>)
  PROVE  TokenOf(r, Fil!NextToken(text, r))
PROOF
<1>1. PICK next : next = [Fil!Comma(text, r) EXCEPT !.started = TRUE]
  OBVIOUS
<1>2. next \in Readers /\ next.stack = r.stack /\ next.started = TRUE
  <2>1. PICK pos \in Nat : pos = r.pos + 1
    BY DEF Readers
  <2>2. Fil!Comma(text, r) = r \/ Fil!Comma(text, r) = [r EXCEPT !.pos = pos]
    BY <2>1 DEF Fil!Comma
  <2> QED BY <1>1, <2>2 DEF Readers
<1>3. CASE r.pos > Len(text)
  <2>1. Fil!NextToken(text, r) = Fil!Bad(r)
    BY <1>3 DEF Fil!NextToken
  <2> QED BY <2>1, ErrorIs
<1>4. CASE ~(r.pos > Len(text)) /\ Fil!Closes(r, text[r.pos].is)
  <2>1. PICK kind : kind = text[r.pos].is
    OBVIOUS
  <2>2. /\ r.stack # <<>> /\ r.stack[Len(r.stack)] \in Nestings
        /\ kind = (IF r.stack[Len(r.stack)].object THEN "}" ELSE "]")
    BY <1>4, <2>1, StackIs DEF Fil!Closes, Readers
  <2>3. PICK pos \in Nat : pos = r.pos + 1
    BY DEF Readers
  <2>4. PICK stack : stack = Fil!Front(r.stack)
    OBVIOUS
  <2>5. /\ stack \in Seq(Nestings) /\ Len(stack) = Len(r.stack) - 1
        /\ SameObjects(stack, r.stack, Len(stack))
    BY <2>2, <2>4, StackIs DEF Readers
  <2>6. PICK on : on = [r EXCEPT !.pos = pos, !.stack = stack]
    OBVIOUS
  <2>7. on \in Readers /\ on.stack = stack /\ on.started = TRUE
    BY <2>2, <2>5, <2>6 DEF Readers
  <2>8. Fil!NextToken(text, r) = <<Fil!Token(kind, <<>>), Fil!AfterValue(on)>>
    BY <1>4, <2>1, <2>3, <2>4, <2>6 DEF Fil!NextToken
  <2>9. Restacked(r, kind, Fil!AfterValue(on))
    <3>1. PICK new : new = Fil!AfterValue(on)
      OBVIOUS
    <3>2. /\ new \in Readers /\ new.started = TRUE /\ Len(new.stack) = Len(stack)
          /\ SameObjects(new.stack, stack, Len(stack))
      BY <2>7, <3>1, AfterValueIs
    <3>3. SameObjects(new.stack, r.stack, Len(new.stack))
      BY <2>5, <3>2 DEF SameObjects
    <3>4. kind \in {"}", "]"} /\ r.stack[Len(r.stack)].object = (kind = "}")
      BY <2>2 DEF Nestings
    <3> QED BY <2>2, <2>5, <3>1, <3>2, <3>3, <3>4 DEF Restacked
  <2> QED BY <2>8, <2>9, TokenIs
<1>5. CASE ~(r.pos > Len(text)) /\ ~Fil!Closes(r, text[r.pos].is)
  <2>1. PICK expects : expects <=> Fil!ExpectsKey(r)
    OBVIOUS
  <2>2. expects => r.stack # <<>>
    BY <2>1 DEF Fil!ExpectsKey
  <2>3. ~(r.stack = <<>> /\ r.started)
    OBVIOUS
  <2>4. Fil!NextToken(text, r) = CASE expects -> Fil!KeyToken(text, next)
             [] ~expects /\ next.pos > Len(text) -> <<Fil!Token("panic", <<>>), next>>
             [] OTHER -> Fil!Value(text, next)
    BY <1>1, <1>5, <2>1, <2>3 DEF Fil!NextToken
  <2>5. CASE expects
    <3>1. Fil!NextToken(text, r) = Fil!KeyToken(text, next)
      BY <2>4, <2>5
    <3>2. TokenOf(next, Fil!KeyToken(text, next))
      BY <1>2, <2>2, <2>5, KeyTokenIs
    <3> QED BY <1>2, <3>1, <3>2 DEF TokenOf, Restacked
  <2>6. CASE ~expects /\ next.pos > Len(text)
    <3>1. Fil!NextToken(text, r) = <<Fil!Token("panic", <<>>), next>>
      BY <2>4, <2>6
    <3>2. Fil!Token("panic", <<>>).is = "panic"
      BY DEF Fil!Token
    <3> QED BY <1>2, <3>1, <3>2 DEF TokenOf
  <2>7. CASE ~expects /\ ~(next.pos > Len(text))
    <3>1. Fil!NextToken(text, r) = Fil!Value(text, next)
      BY <2>4, <2>7
    <3>2. TokenOf(next, Fil!Value(text, next))
      BY <1>2, ValueIs
    <3> QED BY <1>2, <3>1, <3>2 DEF TokenOf, Restacked
  <2> QED BY <2>5, <2>6, <2>7
<1> QED BY <1>3, <1>4, <1>5

(* The importer follows the reader: while it skips nothing, each object    *)
(* that is open is one of its path or the outermost; an array that it      *)
(* skips lies in these.                                                    *)
IsImport(m) ==
  \E S, path, pending, wrapped, skip, applied, next :
    /\ path \in Seq(S)
    /\ m = [path |-> path, pending |-> pending, wrapped |-> wrapped, skip |-> skip,
            applied |-> applied, next |-> next]
InStep(r, m) ==
  LET n == Len(m.path) + 1
  IN  IF r.started = TRUE
      THEN /\ \A i \in 1 .. n : r.stack[i].object = TRUE
           /\ IF m.skip = -1 THEN Len(r.stack) = n ELSE m.skip = n /\ Len(r.stack) > n
      ELSE r.stack = <<>> /\ m.path = <<>> /\ m.skip = -1
FileInv ==
  /\ reader \in Readers /\ IsImport(import)
  /\ Fil!AllOrNothing
  /\ result = "reading" => InStep(reader, import)

LEMMA ImportMade ==
  ASSUME NEW S, NEW path \in Seq(S), NEW pending, NEW wrapped, NEW skip, NEW applied, NEW next
  PROVE  IsImport([path |-> path, pending |-> pending, wrapped |-> wrapped, skip |-> skip,
                   applied |-> applied, next |-> next])
PROOF
<1> QED BY Zenon DEF IsImport

LEMMA ImportIs ==
  ASSUME NEW m, IsImport(m)
  PROVE  /\ Len(m.path) \in Nat
         /\ \A new, x : new = [m EXCEPT !.pending = x] =>
                   IsImport(new) /\ new.path = m.path /\ new.skip = m.skip
         /\ \A new, x, y, z :
              new = [m EXCEPT !.pending = x, !.applied = y, !.next = z] =>
              IsImport(new) /\ new.path = m.path /\ new.skip = m.skip
         /\ \A new, x, y, z :
              new = [m EXCEPT !.path = Append(m.path, x), !.pending = y, !.wrapped = z] =>
              IsImport(new) /\ Len(new.path) = Len(m.path) + 1 /\ new.skip = m.skip
         /\ \A new, z : m.path # <<>> /\ new = [m EXCEPT !.path = Fil!Front(m.path), !.wrapped = z] =>
              IsImport(new) /\ Len(new.path) = Len(m.path) - 1 /\ new.skip = m.skip
         /\ m.path # <<>> => Len(m.path) > 0
PROOF
<1>1. PICK S, path, pending, wrapped, skip, applied, next :
        /\ path \in Seq(S)
        /\ m = [path |-> path, pending |-> pending, wrapped |-> wrapped, skip |-> skip,
                applied |-> applied, next |-> next]
  BY DEF IsImport
<1>2. m.path = path /\ m.skip = skip /\ Len(path) \in Nat
  BY <1>1
<1>3. ASSUME NEW new, NEW x, new = [m EXCEPT !.pending = x]
      PROVE  IsImport(new) /\ new.path = m.path /\ new.skip = m.skip
  <2>1. new = [path |-> path, pending |-> x, wrapped |-> wrapped, skip |-> skip,
               applied |-> applied, next |-> next]
    BY <1>1, <1>3
  <2>2. IsImport(new)
    BY <1>1, <2>1, ImportMade
  <2> QED BY <1>2, <2>1, <2>2
<1>4. ASSUME NEW new, NEW x, NEW y, NEW z,
             new = [m EXCEPT !.pending = x, !.applied = y, !.next = z]
      PROVE  IsImport(new) /\ new.path = m.path /\ new.skip = m.skip
  <2>1. new = [path |-> path, pending |-> x, wrapped |-> wrapped, skip |-> skip,
               applied |-> y, next |-> z]
    BY <1>1, <1>4
  <2>2. IsImport(new)
    BY <1>1, <2>1, ImportMade
  <2> QED BY <1>2, <2>1, <2>2
<1>5. ASSUME NEW new, NEW x, NEW y, NEW z,
             new = [m EXCEPT !.path = Append(m.path, x), !.pending = y, !.wrapped = z]
      PROVE  IsImport(new) /\ Len(new.path) = Len(m.path) + 1 /\ new.skip = m.skip
  <2>1. PICK longer : longer = Append(path, x)
    OBVIOUS
  <2>2. path \in Seq(S \cup {x})
    BY <1>1, SeqMonotonic
  <2>3. longer \in Seq(S \cup {x}) /\ Len(longer) = Len(path) + 1
    BY <2>1, <2>2, AppendProperties
  <2>4. new = [path |-> longer, pending |-> y, wrapped |-> z, skip |-> skip,
               applied |-> applied, next |-> next]
    BY <1>1, <1>2, <1>5, <2>1
  <2>5. IsImport(new)
    BY <2>3, <2>4, ImportMade
  <2> QED BY <1>2, <2>3, <2>4, <2>5
<1>6. m.path # <<>> => Len(m.path) > 0
  BY <1>1, <1>2, EmptySeq
<1>7. ASSUME NEW new, NEW z, m.path # <<>>,
             new = [m EXCEPT !.path = Fil!Front(m.path), !.wrapped = z]
      PROVE  IsImport(new) /\ Len(new.path) = Len(m.path) - 1 /\ new.skip = m.skip
  <2>1. PICK shorter : shorter = Fil!Front(path)
    OBVIOUS
  <2>2. shorter \in Seq(S) /\ Len(shorter) = Len(path) - 1
    <3>1. PICK n \in Nat : n = Len(path) - 1
      BY <1>2, <1>6, <1>7
    <3>2. shorter = SubSeq(path, 1, n) /\ \A i \in 1 .. n : path[i] \in S
      BY <1>1, <2>1, <3>1, ElementOfSeq DEF Fil!Front
    <3>3. shorter \in Seq(S) /\ Len(shorter) = (IF 1 <= n THEN n - 1 + 1 ELSE 0)
      BY <3>1, <3>2, SubSeqProperties
    <3> QED BY <3>1, <3>3
  <2>3. new = [path |-> shorter, pending |-> pending, wrapped |-> z, skip |-> skip,
               applied |-> applied, next |-> next]
    BY <1>1, <1>2, <1>7, <2>1
  <2>4. IsImport(new)
    BY <2>2, <2>3, ImportMade
  <2> QED BY <1>2, <2>2, <2>3, <2>4
<1> QED BY <1>2, <1>3, <1>4, <1>5, <1>6, <1>7

LEMMA SkipIs ==
  ASSUME NEW m, IsImport(m), NEW x, NEW new, new = [m EXCEPT !.skip = x]
  PROVE  IsImport(new) /\ new.path = m.path /\ new.skip = x
PROOF
<1>1. PICK S, path, pending, wrapped, skip, applied, next :
        /\ path \in Seq(S)
        /\ m = [path |-> path, pending |-> pending, wrapped |-> wrapped, skip |-> skip,
                applied |-> applied, next |-> next]
  BY DEF IsImport
<1>2. new = [path |-> path, pending |-> pending, wrapped |-> wrapped, skip |-> x,
             applied |-> applied, next |-> next]
  BY <1>1
<1>3. IsImport(new)
  BY <1>1, <1>2, ImportMade
<1> QED BY <1>1, <1>2, <1>3

LEMMA FileStarts ==
  ASSUME Fil!Init
  PROVE  FileInv
PROOF
<1>1. <<>> \in Seq(Nestings) /\ <<>> \in Seq({})
  OBVIOUS
<1>2. reader \in Readers /\ reader.started = FALSE /\ reader.stack = <<>>
  BY <1>1 DEF Fil!Init, Readers
<1>3. IsImport(import) /\ import.path = <<>> /\ import.skip = -1
  BY <1>1, Zenon DEF Fil!Init, Fil!NoSkip, IsImport
<1>4. result = "reading" /\ cfg = Fil!Default
  BY DEF Fil!Init
<1> QED BY <1>2, <1>3, <1>4 DEF FileInv, InStep, Fil!AllOrNothing

LEMMA FileSteps ==
  ASSUME FileInv, [Fil!Next]_fileVars
  PROVE  FileInv'
PROOF
<1>1. CASE UNCHANGED fileVars
  BY <1>1 DEF fileVars, FileInv, Fil!AllOrNothing, InStep, Fil!Default, Fil!Params
<1>2. CASE Fil!Read
  <2>1. PICK tok, after : /\ tok = Fil!NextToken(file.text, reader)[1]
                          /\ after = Fil!NextToken(file.text, reader)[2]
    OBVIOUS
  <2>2. reader' = after /\ Fil!Import(tok) /\ result = "reading"
    BY <1>2, <2>1 DEF Fil!Read
  <2>3. reader \in Readers /\ IsImport(import) /\ InStep(reader, import) /\ cfg = Fil!Default
    BY <2>2 DEF FileInv, Fil!AllOrNothing
  <2>4. Len(reader.stack) \in Nat /\ reader.started \in BOOLEAN
    BY <2>3 DEF Readers
  <2>5. PICK n \in Nat : n = Len(import.path) + 1 /\ n > 0
    <3>1. Len(import.path) \in Nat
      BY <2>3, ImportIs
    <3> QED BY <3>1
  <2>6. reader.started = (reader.stack # <<>>)
    <3>1. CASE reader.started = TRUE
      <4>1. Len(reader.stack) >= n
        BY <2>3, <2>4, <2>5, <3>1 DEF InStep
      <4>2. reader.stack # <<>>
        BY <2>3, <2>5, <4>1, EmptySeq DEF Readers
      <4> QED BY <3>1, <4>2
    <3>2. CASE reader.started = FALSE
      BY <2>3, <3>2 DEF InStep
    <3> QED BY <2>4, <3>1, <3>2
  <2>7. after \in Readers /\ (tok.is \in {"error", "panic"} \/ Restacked(reader, tok.is, after))
    BY <2>1, <2>3, <2>6, NextTokenIs DEF TokenOf
  <2>8. Len(after.stack) \in Nat
    BY <2>7 DEF Readers
  <2>9. ASSUME Fil!Ends("refused") \/ Fil!Ends("panics") PROVE FileInv'
    BY <2>2, <2>3, <2>7, <2>9 DEF Fil!Ends, FileInv, Fil!AllOrNothing, Fil!Default, Fil!Params
  <2>10. ASSUME NEW new, Fil!Goes(new), IsImport(new), InStep(after, new) PROVE FileInv'
    BY <2>2, <2>3, <2>7, <2>10 DEF Fil!Goes, FileInv, Fil!AllOrNothing, Fil!Default, Fil!Params
  <2>11. CASE reader.started = FALSE
    <3>1. Fil!Ends("refused") \/ (tok.is = "{" /\ Fil!Goes(import))
      BY <2>2, <2>11 DEF Fil!Import
    <3>2. CASE tok.is = "{" /\ Fil!Goes(import)
      <4>1. reader.stack = <<>> /\ import.path = <<>> /\ import.skip = -1
        BY <2>3, <2>11 DEF InStep
      <4>2. Len(after.stack) = 1 /\ after.stack[1].object = TRUE /\ after.started = TRUE
        <5>1. /\ Len(after.stack) = Len(reader.stack) + 1 /\ after.started = TRUE
              /\ after.stack[Len(after.stack)].object = TRUE
          BY <2>7, <3>2 DEF Restacked
        <5>2. Len(reader.stack) = 0
          BY <4>1, EmptySeq
        <5> QED BY <5>1, <5>2
      <4>3. InStep(after, import)
        BY <4>1, <4>2 DEF InStep
      <4> QED BY <2>3, <2>10, <3>2, <4>3
    <3> QED BY <2>9, <3>1, <3>2
  <2>12. CASE reader.started = TRUE /\ tok.is \in {"error", "panic"}
    BY <2>2, <2>9, <2>12 DEF Fil!Import
  <2>13. CASE reader.started = TRUE /\ Restacked(reader, tok.is, after)
    <3>1. tok.is \notin {"error", "panic"} /\ after.started = TRUE
      BY <2>13 DEF Restacked
    <3>2. \A i \in 1 .. n : reader.stack[i].object = TRUE
      BY <2>3, <2>5, <2>13 DEF InStep
    <3>3. CASE import.skip # -1
      <4>1. import.skip = n /\ Len(reader.stack) > n
        BY <2>3, <2>5, <2>13, <3>3 DEF InStep
      <4>2. /\ Len(after.stack) >= n
            /\ \A i \in 1 .. n : after.stack[i].object = TRUE
        <5>1. PICK a \in Nat, b \in Nat : a = Len(after.stack) /\ b = Len(reader.stack)
          BY <2>4, <2>8
        <5>2. \/ a = b + 1 /\ SameObjects(after.stack, reader.stack, b)
              \/ a = b - 1 /\ SameObjects(after.stack, reader.stack, a)
              \/ a = b /\ SameObjects(after.stack, reader.stack, b)
          BY <2>13, <5>1, Zenon DEF Restacked
        <5>3. \/ a >= b /\ SameObjects(after.stack, reader.stack, b)
              \/ a = b - 1 /\ SameObjects(after.stack, reader.stack, a)
          BY <5>2
        <5>4. a >= n /\ b > n
          BY <4>1, <5>1, <5>3
        <5>5. SameObjects(after.stack, reader.stack, n)
          BY <2>5, <5>3, <5>4 DEF SameObjects
        <5>6. \A i \in 1 .. n : after.stack[i].object = TRUE
          BY <3>2, <5>5 DEF SameObjects
        <5> QED BY <5>1, <5>4, <5>6
      <4>3. PICK skip : skip = IF Len(after.stack) > n THEN n ELSE -1
        OBVIOUS
      <4>4. Fil!Goes([import EXCEPT !.skip = skip])
        BY <2>2, <2>13, <3>1, <3>3, <4>1, <4>3 DEF Fil!Import, Fil!NoSkip
      <4>5. PICK new : new = [import EXCEPT !.skip = skip]
        OBVIOUS
      <4>6. IsImport(new) /\ new.path = import.path /\ new.skip = skip
        BY <2>3, <4>5, SkipIs
      <4>7. InStep(after, new)
        BY <2>5, <2>8, <3>1, <4>2, <4>3, <4>6 DEF InStep
      <4> QED BY <2>10, <4>4, <4>5, <4>6, <4>7
    <3>4. CASE import.skip = -1
      <4>1. Len(reader.stack) = n
        BY <2>3, <2>5, <2>13, <3>4 DEF InStep
      <4>2. CASE /\ tok.is \in {"key", "string", "word"} /\ Len(after.stack) = n
                 /\ SameObjects(after.stack, reader.stack, n)
        <5>1. \A i \in 1 .. n : after.stack[i].object = TRUE
          BY <3>2, <4>2 DEF SameObjects
        <5>2. ASSUME NEW new, Fil!Goes(new), IsImport(new), new.path = import.path, new.skip = -1
              PROVE  FileInv'
          <6>1. InStep(after, new)
            BY <2>5, <3>1, <4>2, <5>1, <5>2 DEF InStep
          <6> QED BY <2>10, <5>2, <6>1
        <5>3. ASSUME NEW x, Fil!Goes([import EXCEPT !.pending = x]) PROVE FileInv'
          <6>1. PICK new : new = [import EXCEPT !.pending = x]
            OBVIOUS
          <6>2. IsImport(new) /\ new.path = import.path /\ new.skip = import.skip
            BY <2>3, <6>1, ImportIs
          <6> QED BY <3>4, <5>2, <5>3, <6>1, <6>2
        <5>4. ASSUME NEW x, NEW y, NEW z,
                     Fil!Goes([import EXCEPT !.pending = x, !.applied = y, !.next = z])
              PROVE  FileInv'
          <6>1. PICK new : new = [import EXCEPT !.pending = x, !.applied = y, !.next = z]
            OBVIOUS
          <6>2. IsImport(new) /\ new.path = import.path /\ new.skip = import.skip
            BY <2>3, <6>1, ImportIs
          <6> QED BY <3>4, <5>2, <5>4, <6>1, <6>2
        <5>5. CASE tok.is = "key"
          <6>1. Fil!Ends("refused") \/ Fil!Goes([import EXCEPT !.pending = tok.of])
            BY <2>2, <2>13, <3>1, <3>4, <5>5 DEF Fil!Import, Fil!NoSkip
          <6> QED BY <2>9, <5>3, <6>1
        <5>6. CASE tok.is \in {"string", "word"}
          <6>1. Fil!Leaf(tok)
            BY <2>2, <2>13, <3>1, <3>4, <5>6 DEF Fil!Import, Fil!NoSkip
          <6>2. \/ Fil!Ends("refused") \/ Fil!Goes([import EXCEPT !.pending = Fil!Nothing])
                \/ \E y, z : Fil!Goes([import EXCEPT !.pending = Fil!Nothing, !.applied = y, !.next = z])
            BY <6>1, Zenon DEF Fil!Leaf
          <6> QED BY <2>9, <5>3, <5>4, <6>2
        <5> QED BY <4>2, <5>5, <5>6
      <4>3. CASE /\ tok.is = "{" /\ Len(after.stack) = n + 1
                 /\ after.stack[Len(after.stack)].object = TRUE
                 /\ SameObjects(after.stack, reader.stack, n)
        <5>1. \A i \in 1 .. n + 1 : after.stack[i].object = TRUE
          <6>1. \A i \in 1 .. n : after.stack[i].object = TRUE
            BY <3>2, <4>3 DEF SameObjects
          <6>2. \A i \in 1 .. n + 1 : i \in 1 .. n \/ i = n + 1
            BY <2>5
          <6> QED BY <4>3, <6>1, <6>2
        <5>2. Fil!Opens
          BY <2>2, <2>13, <3>1, <3>4, <4>3 DEF Fil!Import, Fil!NoSkip
        <5>3. \/ Fil!Ends("refused")
              \/ \E x, y, z : Fil!Goes([import EXCEPT !.path = Append(import.path, x), !.pending = y,
                                                     !.wrapped = z])
          BY <5>2, Zenon DEF Fil!Opens
        <5>4. ASSUME NEW x, NEW y, NEW z,
                     Fil!Goes([import EXCEPT !.path = Append(import.path, x), !.pending = y,
                                             !.wrapped = z])
              PROVE  FileInv'
          <6>1. PICK new : new = [import EXCEPT !.path = Append(import.path, x), !.pending = y,
                                                !.wrapped = z]
            OBVIOUS
          <6>2. IsImport(new) /\ Len(new.path) = Len(import.path) + 1 /\ new.skip = import.skip
            BY <2>3, <6>1, ImportIs
          <6>3. InStep(after, new)
            BY <2>5, <3>1, <3>4, <4>3, <5>1, <6>2 DEF InStep
          <6> QED BY <2>10, <5>4, <6>1, <6>2, <6>3
        <5> QED BY <2>9, <5>3, <5>4
      <4>4. CASE /\ tok.is = "}" /\ Len(after.stack) = n - 1
                 /\ SameObjects(after.stack, reader.stack, n - 1)
        <5>1. Fil!ClosesObject
          BY <2>2, <2>13, <3>1, <3>4, <4>4 DEF Fil!Import, Fil!NoSkip
        <5>2. CASE import.path = <<>>
          <6>1. after.stack = <<>>
            <7>1. Len(import.path) = 0
              BY <5>2
            <7>2. n = 1
              BY <2>5, <7>1
            <7>3. Len(after.stack) = n - 1
              BY <4>4
            <7>4. Len(after.stack) = 0
              BY ONLY <7>2, <7>3
            <7> QED BY <2>7, <7>4, EmptySeq DEF Readers
          <6>2. \/ Fil!Ends("refused")
                \/ cfg' = import.next /\ result' = "imported" /\ UNCHANGED import
            BY <5>1, <5>2 DEF Fil!ClosesObject, Fil!Finishes
          <6>3. CASE cfg' = import.next /\ result' = "imported" /\ UNCHANGED import
            BY <2>2, <2>3, <2>7, <6>1, <6>3 DEF FileInv, Fil!AllOrNothing
          <6> QED BY <2>9, <6>2, <6>3
        <5>3. CASE import.path # <<>>
          <6>1. PICK new : new = [import EXCEPT !.path = Fil!Front(import.path), !.wrapped = FALSE]
            OBVIOUS
          <6>2. Fil!Goes(new)
            BY <5>1, <5>3, <6>1 DEF Fil!ClosesObject
          <6>3. IsImport(new) /\ Len(new.path) = Len(import.path) - 1 /\ new.skip = import.skip
            BY <2>3, <5>3, <6>1, ImportIs
          <6>4. Len(new.path) + 1 = n - 1
            <7>1. Len(import.path) \in Nat
              BY <2>3, ImportIs
            <7> QED BY <2>5, <6>3, <7>1
          <6>5. \A i \in 1 .. n - 1 : after.stack[i].object = TRUE
            <7>1. \A i \in 1 .. n - 1 : i \in 1 .. n
              BY <2>5
            <7> QED BY <3>2, <4>4, <7>1 DEF SameObjects
          <6>6. InStep(after, new)
            BY <3>1, <3>4, <4>4, <6>3, <6>4, <6>5 DEF InStep
          <6> QED BY <2>10, <6>2, <6>3, <6>6
        <5> QED BY <5>2, <5>3
      <4>5. CASE tok.is = "[" /\ Len(after.stack) = n + 1 /\ SameObjects(after.stack, reader.stack, n)
        <5>1. Fil!Goes([import EXCEPT !.skip = n])
          BY <2>2, <2>13, <3>1, <3>4, <4>1, <4>5 DEF Fil!Import, Fil!NoSkip
        <5>2. PICK new : new = [import EXCEPT !.skip = n]
          OBVIOUS
        <5>3. IsImport(new) /\ new.path = import.path /\ new.skip = n
          BY <2>3, <5>2, SkipIs
        <5>4. \A i \in 1 .. n : after.stack[i].object = TRUE
          BY <3>2, <4>5 DEF SameObjects
        <5>5. InStep(after, new)
          BY <2>5, <3>1, <4>5, <5>3, <5>4 DEF InStep
        <5> QED BY <2>10, <5>1, <5>2, <5>3, <5>5
      <4>6. ~(tok.is = "]" /\ reader.stack[Len(reader.stack)].object = FALSE)
        <5>1. n \in 1 .. n
          BY <2>5
        <5> QED BY <3>2, <4>1, <5>1
      <4>7. ~(reader.stack[Len(reader.stack)].object = (tok.is = "}") /\ tok.is = "]")
        BY <4>6
      <4> QED BY <2>13, <4>1, <4>2, <4>3, <4>4, <4>5, <4>7 DEF Restacked
    <3> QED BY <3>3, <3>4
  <2> QED BY <2>4, <2>7, <2>11, <2>12, <2>13
<1> QED BY <1>1, <1>2 DEF Fil!Next

(* Whatever text is uploaded, one the machine wrote or any other: settings *)
(* change only when the outermost object has closed, all that were read at *)
(* one time; until then, and when it is refused, none has                  *)
(* (import_config, api/src/lib.rs).                                        *)
THEOREM FilesAllOrNothing == ConnectionSpec => []Fil!AllOrNothing
PROOF
<1>1. ConnectionInit => FileInv
  BY PartsStart, FileStarts
<1>2. FileInv /\ [ConnectionNext]_connectionVars => FileInv'
  BY PartsStep, FileSteps
<1>3. FileInv => Fil!AllOrNothing
  BY DEF FileInv
<1> QED BY <1>1, <1>2, <1>3, PTL DEF ConnectionSpec

-----------------------------------------------------------------------------
(* The log's own proofs, of the definitions it shares with this module.    *)
Ring == INSTANCE LogRingProofs

LEMMA SameLog ==
  /\ Log!LogConstants <=> Ring!LogConstants
  /\ Log!Init <=> Ring!Init
  /\ [Log!Next]_logVars <=> [Ring!Next]_(Ring!ringVars)
  /\ Log!AnswersTrue <=> Ring!AnswersTrue
PROOF
<1>1. Log!LogConstants <=> Ring!LogConstants
  BY Zenon DEF Log!LogConstants, Ring!LogConstants
<1>2. Log!Init <=> Ring!Init
  BY Zenon DEF Log!Init, Ring!Init, Log!Break, Ring!Break
<1>3. Log!Next <=> Ring!Next
  BY Zenon DEF Log!Next, Ring!Next, Log!Log, Ring!Log, Log!Push, Ring!Push, Log!Bytes, Ring!Bytes,
               Log!Smaller, Ring!Smaller, Log!Break, Ring!Break
<1>4. [Log!Next]_logVars <=> [Ring!Next]_(Ring!ringVars)
  BY <1>3, Zenon DEF logVars, Ring!ringVars
<1>5. Log!AnswersTrue <=> Ring!AnswersTrue
  BY Zenon
     DEF Log!AnswersTrue, Ring!AnswersTrue, Log!Gone, Ring!Gone, Log!Told, Ring!Told, Log!ReadSince, Ring!ReadSince, Log!Since, Ring!Since,
         Log!LineStarts, Ring!LineStarts, Log!FromLine, Ring!FromLine, Log!Slices, Ring!Slices,
         Log!Start, Ring!Start, Log!Lost, Ring!Lost, Log!Oldest, Ring!Oldest, Log!Place, Ring!Place,
         Log!Smaller, Ring!Smaller, Log!Break, Ring!Break, Log!SelectInSeq, Ring!SelectInSeq,
         Log!Min, Ring!Min
<1> QED BY <1>1, <1>2, <1>4, <1>5

(* Whoever asks for the log is told all of it that is kept, as it was.     *)
LEMMA LogKeeps ==
  /\ ConnectionInit => Ring!LogInv
  /\ Ring!LogInv /\ [ConnectionNext]_connectionVars => Ring!LogInv'
  /\ Ring!LogInv => Log!AnswersTrue
PROOF
<1>1. Ring!LogConstants
  BY ConnectionConstants, SameLog
<1>2. ConnectionInit => Ring!LogInv
  BY <1>1, PartsStart, SameLog, Ring!LogStarts
<1>3. Ring!LogInv /\ [ConnectionNext]_connectionVars => Ring!LogInv'
  BY <1>1, PartsStep, SameLog, Ring!LogSteps
<1>4. Ring!LogInv => Log!AnswersTrue
  BY <1>1, SameLog, Ring!LogInvImplies
<1> QED BY <1>2, <1>3, <1>4

-----------------------------------------------------------------------------
(* The chart: the points are evenly spaced, and the arrays that are        *)
(* written are the copy, whatever is sampled meanwhile.                    *)
Spaced(points) == \A i \in 1 .. (Len(points) - 1) : points[i + 1] = points[i] + Every
HistoryInv ==
  /\ elapsed \in 0 .. (Second + Late) /\ samples \in 0 .. SamplesMax
  /\ history \in [points : His!Points, skip : 0 .. (Every - 1)]
  /\ Len(history.points) <= Length /\ Spaced(history.points)
  /\ history.points # <<>> =>
       history.points[Len(history.points)] = samples - history.skip
  /\ answer \in [asked : BOOLEAN, copy : His!Points, arrays : Seq(His!Points)]
  /\ Len(answer.arrays) <= 3 /\ (answer.asked => Len(answer.arrays) < 3)
  /\ \A i \in 1 .. Len(answer.arrays) : answer.arrays[i] = answer.copy

LEMMA WriteKeeps ==
  ASSUME His!HistoryConstants, NEW points \in His!Points, NEW p \in 1 .. SamplesMax,
         Len(points) <= Length, Spaced(points),
         points # <<>> => p = points[Len(points)] + Every
  PROVE  LET new == His!Write(points, p)
         IN  /\ new \in His!Points /\ Len(new) <= Length /\ Spaced(new)
             /\ new # <<>> /\ new[Len(new)] = p
PROOF
<1> DEFINE S == 1 .. SamplesMax
           kept == IF Len(points) = Length THEN Tail(points) ELSE points
           new == His!Write(points, p)
<1>1. Length \in Nat \ {0} /\ Every \in Nat \ {0} /\ points \in Seq(S) /\ S \subseteq Nat
  BY DEF His!HistoryConstants, His!Points
<1>2. Len(points) \in Nat /\ \A i \in 1 .. Len(points) : points[i] \in S
  BY <1>1, LenProperties, ElementOfSeq
<1>3. /\ kept \in Seq(S) /\ Len(kept) < Length /\ Spaced(kept)
      /\ Len(kept) # 0 => p = kept[Len(kept)] + Every
  <2>1. CASE Len(points) = Length
    <3>1. points # <<>>
      BY <1>1, <2>1
    <3>2. /\ Tail(points) \in Seq(S) /\ Len(Tail(points)) = Len(points) - 1
          /\ \A i \in 1 .. Len(points) - 1 : Tail(points)[i] = points[i + 1]
      BY <1>1, <3>1, HeadTailProperties
    <3>3. Spaced(Tail(points))
      BY <1>1, <1>2, <3>2 DEF Spaced
    <3>4. Len(points) - 1 # 0 => p = Tail(points)[Len(points) - 1] + Every
      BY <1>2, <3>1, <3>2
    <3> QED BY <1>1, <1>2, <2>1, <3>2, <3>3, <3>4
  <2>2. CASE Len(points) # Length
    BY <1>1, <1>2, <2>2
  <2> QED BY <2>1, <2>2
<1>4. new = Append(kept, p)
  BY DEF His!Write
<1> HIDE DEF kept, new
<1>5. /\ new \in Seq(S) /\ Len(new) = Len(kept) + 1 /\ Len(kept) \in Nat
      /\ \A i \in 1 .. Len(kept) : new[i] = kept[i]
      /\ new[Len(kept) + 1] = p
  BY <1>3, <1>4, AppendProperties
<1>6. Spaced(new)
  <2> SUFFICES ASSUME NEW i \in 1 .. (Len(new) - 1) PROVE new[i + 1] = new[i] + Every
    BY DEF Spaced
  <2>1. CASE i = Len(kept)
    BY <1>3, <1>5, <2>1
  <2>2. CASE i # Len(kept)
    <3>1. i \in 1 .. (Len(kept) - 1) /\ i + 1 \in 1 .. Len(kept)
      BY <1>5, <2>2
    <3> QED BY <1>3, <1>5, <3>1 DEF Spaced
  <2> QED BY <2>1, <2>2
<1>7. new \in His!Points /\ Len(new) <= Length /\ new # <<>> /\ new[Len(new)] = p
  BY <1>1, <1>3, <1>5 DEF His!Points
<1> QED BY <1>6, <1>7 DEF new

LEMMA HistoryStarts == ASSUME His!HistoryConstants, His!Init PROVE HistoryInv
PROOF
<1>1. /\ <<>> \in His!Points /\ Len(<<>>) = 0 /\ <<>> \in Seq(His!Points)
  BY DEF His!Points
<1>2. {Length, Every, Second, Late} \subseteq Nat \ {0} /\ SamplesMax \in Nat
  BY DEF His!HistoryConstants
<1> QED BY <1>1, <1>2 DEF HistoryInv, His!Init, Spaced

LEMMA HistorySteps ==
  ASSUME His!HistoryConstants, HistoryInv, [His!Next]_historyVars
  PROVE  HistoryInv'
PROOF
<1>1. {Length, Every, Second, Late} \subseteq Nat \ {0} /\ SamplesMax \in Nat
  BY DEF His!HistoryConstants
<1>2. CASE UNCHANGED historyVars
  BY <1>2 DEF HistoryInv, historyVars
<1>3. CASE His!Tick
  <2>1. PICK dt \in 1 .. Late :
          IF elapsed + dt >= Second
          THEN /\ samples < SamplesMax /\ elapsed' = 0 /\ samples' = samples + 1
               /\ history' = His!Offer(history, samples + 1)
          ELSE elapsed' = elapsed + dt /\ UNCHANGED <<samples, history>>
    BY <1>3 DEF His!Tick
  <2>2. UNCHANGED answer
    BY <1>3 DEF His!Tick
  <2>3. CASE ~(elapsed + dt >= Second)
    <3>1. elapsed' \in 0 .. (Second + Late) /\ UNCHANGED <<samples, history>>
      BY SMTT(30), <1>1, <2>1, <2>3 DEF HistoryInv
    <3> QED BY <2>2, <3>1 DEF HistoryInv
  <2>4. CASE elapsed + dt >= Second
    <3>1. /\ samples + 1 \in 1 .. SamplesMax /\ elapsed' = 0 /\ samples' = samples + 1
          /\ history' = His!Offer(history, samples + 1)
      BY <1>1, <2>1, <2>4 DEF HistoryInv
    <3>2. elapsed' \in 0 .. (Second + Late) /\ samples' \in 0 .. SamplesMax
      BY <1>1, <3>1
    <3>3. /\ history \in [points : His!Points, skip : 0 .. (Every - 1)]
          /\ Len(history.points) <= Length /\ Spaced(history.points) /\ samples \in Nat
          /\ history.points # <<>> =>
               history.points[Len(history.points)] = samples - history.skip
      BY <1>1 DEF HistoryInv
    <3>4. CASE history.skip + 1 >= Every
      <4> DEFINE new == His!Write(history.points, samples + 1)
      <4>1. history' = [points |-> new, skip |-> 0]
        BY <3>1, <3>4 DEF His!Offer
      <4>2. history.points # <<>> =>
              samples + 1 = history.points[Len(history.points)] + Every
        BY <1>1, <3>3, <3>4
      <4>3. history.points \in His!Points
        BY <3>3
      <4>4. /\ new \in His!Points /\ Len(new) <= Length /\ Spaced(new)
            /\ new # <<>> /\ new[Len(new)] = samples + 1
        BY <3>1, <3>3, <4>2, <4>3, WriteKeeps
      <4> HIDE DEF new
      <4>5. history' \in [points : His!Points, skip : 0 .. (Every - 1)] /\ history'.points = new
            /\ history'.skip = 0
        BY <1>1, <4>1, <4>4
      <4>6. samples' - history'.skip = samples + 1
        BY <3>1, <3>3, <4>5
      <4> QED BY <2>2, <3>2, <4>4, <4>5, <4>6 DEF HistoryInv
    <3>5. CASE ~(history.skip + 1 >= Every)
      <4>1. history' = [history EXCEPT !.skip = history.skip + 1]
        BY <3>1, <3>5 DEF His!Offer
      <4>2. history.skip + 1 \in 0 .. (Every - 1)
            /\ samples' - (history.skip + 1) = samples - history.skip
        BY SMTT(30), <1>1, <3>1, <3>3, <3>5
      <4>3. /\ history' \in [points : His!Points, skip : 0 .. (Every - 1)]
            /\ history'.points = history.points /\ history'.skip = history.skip + 1
        BY <3>3, <4>1, <4>2
      <4> QED BY <2>2, <3>2, <3>3, <4>2, <4>3 DEF HistoryInv
    <3> QED BY <3>4, <3>5
  <2> QED BY <2>3, <2>4
<1>4. CASE His!HistoryCopy
  <2>1. /\ answer' = [asked |-> TRUE, copy |-> history.points, arrays |-> <<>>]
        /\ UNCHANGED <<elapsed, samples, history>>
    BY <1>4 DEF His!HistoryCopy, His!CopyFrom
  <2>2. <<>> \in Seq(His!Points) /\ Len(<<>>) = 0
    OBVIOUS
  <2> QED BY <2>1, <2>2 DEF HistoryInv
<1>5. CASE His!WriteHistory
  <2>1. /\ answer.asked /\ UNCHANGED <<elapsed, samples, history>>
        /\ answer' = [answer EXCEPT !.arrays = Append(answer.arrays, answer.copy),
                                     !.asked = Len(answer.arrays) + 1 < 3]
    BY <1>5 DEF His!WriteHistory, His!Source, His!Arrays
  <2>2. /\ answer \in [asked : BOOLEAN, copy : His!Points, arrays : Seq(His!Points)]
        /\ Len(answer.arrays) < 3
        /\ \A i \in 1 .. Len(answer.arrays) : answer.arrays[i] = answer.copy
    BY <2>1 DEF HistoryInv
  <2> DEFINE new == Append(answer.arrays, answer.copy)
             more == Len(answer.arrays) + 1 < 3
  <2>3. /\ new \in Seq(His!Points) /\ Len(new) = Len(answer.arrays) + 1
        /\ Len(answer.arrays) \in Nat
        /\ \A i \in 1 .. Len(answer.arrays) + 1 : new[i] = answer.copy
    BY <2>2, AppendProperties
  <2>3a. answer' = [answer EXCEPT !.arrays = new, !.asked = more] /\ more \in BOOLEAN
    BY <2>1
  <2> HIDE DEF new, more
  <2>4. /\ answer' \in [asked : BOOLEAN, copy : His!Points, arrays : Seq(His!Points)]
        /\ answer'.arrays = new /\ answer'.copy = answer.copy
        /\ answer'.asked = more
    BY <2>2, <2>3, <2>3a
  <2>5. /\ Len(answer'.arrays) <= 3 /\ (answer'.asked => Len(answer'.arrays) < 3)
        /\ \A i \in 1 .. Len(answer'.arrays) : answer'.arrays[i] = answer'.copy
    BY <2>2, <2>3, <2>4 DEF more
  <2> QED BY <2>1, <2>4, <2>5 DEF HistoryInv
<1> QED BY <1>2, <1>3, <1>4, <1>5 DEF His!Next

(* A follower of the log is told all that was logged since, or exactly     *)
(* what is after the first break that is kept; the chart's arrays speak of *)
(* the same evenly spaced samples (logring.rs, history.rs, the handlers of *)
(* web/src/lib.rs).                                                        *)
THEOREM AnswersAreTrue == ConnectionSpec => []AnswersTrue
PROOF
<1>1. ConnectionInit => HistoryInv
  BY PartsStart, ConnectionConstants, HistoryStarts
<1>2. HistoryInv /\ [ConnectionNext]_connectionVars => HistoryInv'
  BY PartsStep, ConnectionConstants, HistorySteps
<1>3. HistoryInv => His!TypeOK /\ His!ChartTrue
  <2> SUFFICES ASSUME HistoryInv PROVE His!TypeOK /\ His!ChartTrue
    OBVIOUS
  <2>1. Len(His!Arrays) = 3
    BY DEF His!Arrays
  <2>2. His!TypeOK
    BY <2>1 DEF HistoryInv, His!TypeOK
  <2>3. His!EvenlySpaced
    BY DEF HistoryInv, His!EvenlySpaced, Spaced, His!Last
  <2>4. His!ArraysAgree
    <3>1. answer.arrays \in Seq(His!Points) /\ DOMAIN answer.arrays = 1 .. Len(answer.arrays)
      BY DEF HistoryInv
    <3> QED BY <3>1 DEF HistoryInv, His!ArraysAgree
  <2> QED BY <2>2, <2>3, <2>4 DEF His!ChartTrue
<1>4. Log!AnswersTrue /\ His!TypeOK /\ His!ChartTrue => AnswersTrue
  BY DEF AnswersTrue
<1> QED BY <1>1, <1>2, <1>3, <1>4, LogKeeps, PTL DEF ConnectionSpec

-----------------------------------------------------------------------------
(* A request.  A wrong method is told, and what is handled is not.         *)
Handles(method, path) == <<method, path>> \in Web!Handled
WrongMethod(method, path) ==
  /\ ~Handles(method, path) /\ path \notin Web!Gone /\ path \notin Web!Pages
  /\ \E m \in Web!Methods : Handles(m, path)
RightCode(method, path, code) ==
  /\ WrongMethod(method, path) => code \in {405, 503}
  /\ Handles(method, path) => code # 405

Requests == [at : {"none", "body", "form", "answer"}, method : Web!Methods, path : Web!Paths,
             code : 0 .. 503, allowed : BOOLEAN, then : Web!Kinds \cup {"none"}]
Drafts == [form : Forms \cup {<<>>}, taken : Nat, next : Web!Settings, changed : BOOLEAN]

(* What the first k pairs of a form make of settings. *)
ResultTo(s, form, k, t) ==
  \A n \in Names :
    \/ /\ t[n] = s[n]
       /\ \A i \in 1 .. k : ~Web!Gives(form[i], n)
    \/ \E i \in 1 .. k :
         /\ Web!Gives(form[i], n) /\ t[n] = form[i].value
         /\ \A j \in i + 1 .. k : ~Web!Gives(form[j], n)
(* The copy has the pairs taken so far, over the settings in force. *)
DraftInv ==
  /\ ResultTo(settings, draft.form, draft.taken, draft.next)
  /\ draft.changed = FALSE => draft.next = settings
  /\ \A i \in 1 .. draft.taken : draft.form[i].value # Web!Bad

WebInv ==
  /\ settings \in Web!Settings /\ saved = settings
  /\ request \in Requests /\ restart \in Web!Kinds \cup {"none"}
  /\ draft \in Drafts /\ draft.taken <= Len(draft.form)
  /\ request.at \in {"body", "form"} => /\ request.method = "POST" /\ request.path \in Web!Bodies
                                        /\ request.allowed = TRUE /\ request.code = 0
  /\ request.at = "answer" => \/ request.allowed = TRUE
                              \/ request.code = 401 /\ request.then = "none"
  /\ request.then # "none" => request.code = 200
  /\ request.at = "answer" /\ request.allowed = TRUE /\ request.method # "OPTIONS" =>
       RightCode(request.method, request.path, request.code)
  /\ request.at = "form" => DraftInv

(* What a step may do. *)
FormStep ==
  request.at = "form" /\ (settings' # settings \/ request'.at = "answer")
    => IF \E i \in 1 .. Len(draft.form) : draft.form[i].value = Web!Bad
       THEN settings' = settings /\ request'.code = 400
       ELSE Web!Result(settings, draft.form, settings') /\ request'.code = 200
RefusedStep == /\ request' # request /\ settings' # settings => request'.code = 200
               /\ restart' # restart => request.code = 200
AllowedStep == (request' # request /\ settings' # settings) \/ restart' # restart
                 => request.allowed = TRUE \/ request'.allowed = TRUE
WebStep == FormStep /\ RefusedStep /\ AllowedStep

LEMMA FormsAre ==
  ASSUME Web!ApiConstants, NEW form \in Forms \cup {<<>>}
  PROVE  /\ form \in Seq(Web!Pairs) /\ Len(form) \in Nat
         /\ \A i \in 1 .. Len(form) : form[i] \in Web!Pairs
PROOF
<1>1. form \in Seq(Web!Pairs)
  <2>1. <<>> \in Seq(Web!Pairs)
    OBVIOUS
  <2> QED BY <2>1 DEF Web!ApiConstants
<1> QED BY <1>1

LEMMA NoDraftIs ==
  ASSUME Web!ApiConstants
  PROVE  Web!NoDraft \in Drafts /\ Web!NoDraft.taken <= Len(Web!NoDraft.form)
PROOF
<1>1. [n \in Names |-> "none"] \in Web!Settings
  BY DEF Web!ApiConstants, Web!Settings
<1>2. PICK next : next = [n \in Names |-> "none"]
  OBVIOUS
<1>3. Web!NoDraft = [form |-> <<>>, taken |-> 0, next |-> next, changed |-> FALSE]
  BY <1>2 DEF Web!NoDraft
<1>4. Web!NoDraft \in Drafts
  BY <1>1, <1>2, <1>3 DEF Drafts
<1> QED BY <1>3, <1>4

LEMMA NoneIs ==
  /\ Web!None \in Requests /\ Web!None.at = "none" /\ Web!None.then = "none"
PROOF
<1> QED BY DEF Web!None, Requests, Web!Methods, Web!Paths, Web!Pages

LEMMA AnswerIs ==
  ASSUME NEW r \in Requests, NEW code \in 0 .. 503, NEW then \in Web!Kinds \cup {"none"},
         Web!Answer(r, code, then)
  PROVE  /\ request' \in Requests /\ request'.at = "answer" /\ request'.code = code
         /\ request'.then = then /\ request'.allowed = r.allowed
         /\ request'.method = r.method /\ request'.path = r.path
PROOF
<1>1. request' = [r EXCEPT !.at = "answer", !.code = code, !.then = then]
  BY DEF Web!Answer
<1> QED BY ZenonT(40), <1>1 DEF Requests

(* An answer that suits the request. *)
Suits(r, code, then) ==
  /\ r.allowed = TRUE \/ (code = 401 /\ then = "none")
  /\ then # "none" => code = 200
  /\ r.allowed = TRUE /\ r.method # "OPTIONS" => RightCode(r.method, r.path, code)

LEMMA AnswerKeeps ==
  ASSUME WebInv, NEW r \in Requests, NEW code \in 0 .. 503, NEW then \in Web!Kinds \cup {"none"},
         Web!Answer(r, code, then), Suits(r, code, then),
         settings' \in Web!Settings, saved' = settings', restart' = restart,
         draft' \in Drafts, draft'.taken <= Len(draft'.form)
  PROVE  WebInv'
PROOF
<1>1. /\ request' \in Requests /\ request'.at = "answer" /\ request'.code = code
      /\ request'.then = then /\ request'.allowed = r.allowed
      /\ request'.method = r.method /\ request'.path = r.path
  BY AnswerIs
<1>2. restart' \in Web!Kinds \cup {"none"}
  BY DEF WebInv
<1>3. /\ request'.at \notin {"body", "form"} /\ request'.at # "form"
  BY <1>1
<1>4. /\ request'.allowed = TRUE \/ (request'.code = 401 /\ request'.then = "none")
      /\ request'.then # "none" => request'.code = 200
      /\ request'.allowed = TRUE /\ request'.method # "OPTIONS" =>
           RightCode(request'.method, request'.path, request'.code)
  BY <1>1 DEF Suits
<1> QED BY <1>1, <1>2, <1>3, <1>4, Zenon DEF WebInv

-----------------------------------------------------------------------------
(* The table has the paths of the handlers, except for those that are gone. *)
LEMMA TableIs ==
  ASSUME NEW path
  PROVE  /\ (\E m \in Web!Methods : Handles(m, path)) /\ path \notin Web!Gone /\ path \notin Web!Pages
              => Web!Listed(path)
         /\ Handles("GET", path) <=> path \in Web!Reads \cup Web!Pages
         /\ Handles("POST", path) <=>
              path \in Web!Commands \cup Web!Bodies \cup Web!Restarts \cup Web!Gone
         /\ \A m : Handles(m, path) => m \in {"GET", "POST"}
PROOF
<1>1. \A m : Handles(m, path) <=>
        \/ m = "GET" /\ path \in Web!Reads \cup Web!Pages
        \/ m = "POST" /\ path \in Web!Commands \cup Web!Bodies \cup Web!Restarts \cup Web!Gone
  BY DEF Handles, Web!Handled
<1>2. path \in Web!Reads \cup Web!Commands \cup Web!Bodies \cup Web!Restarts => Web!Listed(path)
  <2>1. path \in Web!Reads => <<"GET", path>> \in Web!ROUTES
    BY DEF Web!Reads, Web!ROUTES
  <2>2. path \in Web!Commands \cup Web!Bodies \cup Web!Restarts => <<"POST", path>> \in Web!ROUTES
    BY DEF Web!Commands, Web!Bodies, Web!Restarts, Web!ROUTES
  <2>3. "GET" \in Web!Methods /\ "POST" \in Web!Methods
    BY DEF Web!Methods
  <2> QED BY <2>1, <2>2, <2>3 DEF Web!Listed
<1>3. "GET" # "POST"
  OBVIOUS
<1> QED BY <1>1, <1>2, <1>3

LEMMA CodesAre ==
  ASSUME NEW path
  PROVE  /\ Web!Codes(path) \subseteq (0 .. 503) \ {405}
         /\ Web!Refusals(path) \subseteq (0 .. 503) \ {405}
PROOF
<1> QED BY DEF Web!Codes, Web!Refusals

LEMMA RestartIs ==
  ASSUME NEW path \in Web!Restarts
  PROVE  Web!Restart(path) \in Web!Kinds
PROOF
<1> QED BY DEF Web!Restarts, Web!Restart, Web!Kinds

(* An answer with the settings kept, or changed and saved. *)
LEMMA Answered ==
  ASSUME WebInv, NEW r \in Requests, NEW code \in 0 .. 503, NEW then \in Web!Kinds \cup {"none"},
         Web!Answer(r, code, then), Suits(r, code, then), Web!Kept \/ Web!Changes,
         UNCHANGED <<draft, restart>>
  PROVE  WebInv' /\ request'.code = code /\ request'.allowed = r.allowed
PROOF
<1>1. settings' \in Web!Settings /\ saved' = settings'
  BY DEF WebInv, Web!Kept, Web!Changes
<1>2. draft' \in Drafts /\ draft'.taken <= Len(draft'.form) /\ restart' = restart
  BY DEF WebInv
<1>3. WebInv'
  BY <1>1, <1>2, AnswerKeeps
<1>4. request'.code = code /\ request'.allowed = r.allowed
  BY AnswerIs
<1> QED BY <1>3, <1>4

LEMMA Told ==
  ASSUME WebInv, NEW r \in Requests, NEW codes, Web!Tells(r, codes),
         \A c \in codes : c \in 0 .. 503 /\ Suits(r, c, "none"),
         UNCHANGED <<draft, restart>>
  PROVE  WebInv' /\ settings' = settings /\ request'.allowed = r.allowed
PROOF
<1>1. PICK code \in codes : Web!Answer(r, code, "none")
  BY DEF Web!Tells
<1>2. Web!Kept
  BY DEF Web!Tells
<1>3. WebInv' /\ request'.allowed = r.allowed
  BY <1>1, <1>2, Answered
<1> QED BY <1>2, <1>3 DEF Web!Kept

(* A request that begins, while nothing else goes on. *)
LEMMA HandleKeeps ==
  ASSUME WebInv, NEW r \in Requests, r.allowed = TRUE, r.at = "body", r.code = 0,
         r.then = "none", Web!Handle(r), UNCHANGED <<draft, restart>>
  PROVE  WebInv' /\ (settings' # settings => request'.code = 200) /\ request'.allowed = TRUE
PROOF
<1> DEFINE m == r.method
           p == r.path
           Fine == WebInv' /\ (settings' # settings => request'.code = 200)
                          /\ request'.allowed = TRUE
<1> SUFFICES Fine
  OBVIOUS
<1>h. \A c \in (0 .. 503) \ {405} : Handles(m, p) => c \in 0 .. 503 /\ Suits(r, c, "none")
  BY DEF Suits, RightCode, WrongMethod
<1>1. CASE m = "GET" /\ p \in Web!Reads \cup Web!Pages /\ Web!Tells(r, Web!Codes(p))
  <2>1. Handles(m, p)
    BY <1>1, TableIs
  <2>2. \A c \in Web!Codes(p) : c \in 0 .. 503 /\ Suits(r, c, "none")
    BY <1>h, <2>1, CodesAre
  <2> QED BY <1>1, <2>2, Told
<1>r. ASSUME Handles(m, p), Web!Tells(r, Web!Refusals(p))
      PROVE  WebInv' /\ settings' = settings /\ request'.allowed = TRUE
  <2>1. \A c \in Web!Refusals(p) : c \in 0 .. 503 /\ Suits(r, c, "none")
    BY <1>h, <1>r, CodesAre
  <2> QED BY <1>r, <2>1, Told
<1>2. CASE /\ m = "POST" /\ p \in Web!Commands
           /\ (Web!Changes /\ Web!Answer(r, 200, "none")) \/ Web!Tells(r, Web!Refusals(p))
  <2>1. Handles(m, p)
    BY <1>2, TableIs
  <2>2. CASE Web!Changes /\ Web!Answer(r, 200, "none")
    <3>1. Suits(r, 200, "none") /\ 200 \in 0 .. 503
      BY <1>h, <2>1
    <3> QED BY <2>2, <3>1, Answered
  <2> QED BY <1>2, <1>r, <2>1, <2>2
<1>3. CASE /\ m = "POST" /\ p \in Web!Bodies
           /\ (Web!Kept /\ request' = r) \/ Web!Tells(r, Web!Refusals(p))
  <2>1. Handles(m, p)
    BY <1>3, TableIs
  <2>2. CASE Web!Kept /\ request' = r
    BY <1>3, <2>2 DEF Web!Kept, WebInv
  <2> QED BY <1>3, <1>r, <2>1, <2>2
<1>4. CASE m = "POST" /\ p \in Web!Restarts /\ Web!Kept /\ Web!Answer(r, 200, Web!Restart(p))
  <2>1. Handles(m, p)
    BY <1>4, TableIs
  <2>2. Suits(r, 200, Web!Restart(p)) /\ 200 \in 0 .. 503
    BY <2>1 DEF Suits, RightCode, WrongMethod
  <2>3. Web!Restart(p) \in Web!Kinds \cup {"none"}
    BY <1>4, RestartIs
  <2>4. Web!Kept \/ Web!Changes
    BY <1>4
  <2>5. WebInv' /\ request'.allowed = TRUE
    BY <1>4, <2>2, <2>3, <2>4, Answered
  <2>6. settings' = settings
    BY <1>4 DEF Web!Kept
  <2> QED BY <2>5, <2>6
<1>5. CASE m = "POST" /\ p \in Web!Gone /\ Web!Tells(r, {410})
  <2>1. Handles(m, p)
    BY <1>5, TableIs
  <2>2. \A c \in {410} : c \in 0 .. 503 /\ Suits(r, c, "none")
    BY <1>h, <2>1
  <2> QED BY <1>5, <2>2, Told
<1>6. CASE ~Handles(m, p) /\ Web!Tells(r, {IF Web!Listed(p) THEN 405 ELSE 404})
  <2> DEFINE code == IF Web!Listed(p) THEN 405 ELSE 404
  <2>1. code \in 0 .. 503 /\ (Web!Listed(p) => code = 405)
    OBVIOUS
  <2>2. Web!Tells(r, {code})
    BY <1>6
  <2> HIDE DEF code
  <2>3. WrongMethod(m, p) => Web!Listed(p)
    BY TableIs DEF WrongMethod
  <2>4. Suits(r, code, "none")
    BY <1>6, <2>1, <2>3 DEF Suits, RightCode
  <2> QED BY <2>1, <2>2, <2>4, Told
<1>7. \/ m = "GET" /\ p \in Web!Reads \cup Web!Pages /\ Web!Tells(r, Web!Codes(p))
      \/ /\ m = "POST" /\ p \in Web!Commands
         /\ (Web!Changes /\ Web!Answer(r, 200, "none")) \/ Web!Tells(r, Web!Refusals(p))
      \/ /\ m = "POST" /\ p \in Web!Bodies
         /\ (Web!Kept /\ request' = r) \/ Web!Tells(r, Web!Refusals(p))
      \/ m = "POST" /\ p \in Web!Restarts /\ Web!Kept /\ Web!Answer(r, 200, Web!Restart(p))
      \/ m = "POST" /\ p \in Web!Gone /\ Web!Tells(r, {410})
      \/ ~Handles(m, p) /\ Web!Tells(r, {IF Web!Listed(p) THEN 405 ELSE 404})
  BY Zenon DEF Web!Handle, Handles
<1> HIDE DEF m, p, Fine
<1> QED BY <1>1, <1>2, <1>3, <1>4, <1>5, <1>6, <1>7

LEMMA BeginKeeps ==
  ASSUME WebInv, NEW method \in Web!Methods, NEW path \in Web!Paths, NEW credentials,
         NEW low \in BOOLEAN, Web!Begin(method, path, credentials, low)
  PROVE  WebInv' /\ WebStep
PROOF
<1> DEFINE allowed == Web!Authorized(credentials)
           r == [at |-> "body", method |-> method, path |-> path, code |-> 0,
                 allowed |-> allowed, then |-> "none"]
<1>1. /\ r \in Requests /\ r.method = method /\ r.path = path /\ (allowed => r.allowed = TRUE)
      /\ (~allowed => r.allowed = FALSE)
      /\ r.at = "body" /\ r.code = 0 /\ r.then = "none"
  <2>1. allowed \in BOOLEAN
    BY DEF Web!Authorized
  <2> HIDE DEF allowed
  <2> QED BY <2>1 DEF Requests
<1>2. /\ request.at = "none" /\ UNCHANGED <<draft, restart>>
      /\ \/ ~allowed /\ Web!Tells(r, {401})
         \/ allowed /\ method = "OPTIONS" /\ Web!Tells(r, {204})
         \/ allowed /\ Web!Tells(r, {503})
         \/ allowed /\ Web!Handle(r)
  BY ZenonT(60) DEF Web!Begin
<1> HIDE DEF r, allowed
<1>3. CASE ~allowed /\ Web!Tells(r, {401})
  <2>1. \A c \in {401} : c \in 0 .. 503 /\ Suits(r, c, "none")
    BY <1>1, <1>3 DEF Suits
  <2> QED BY <1>1, <1>2, <1>3, <2>1, Told DEF WebStep, FormStep, RefusedStep, AllowedStep
<1>4. CASE allowed /\ method = "OPTIONS" /\ Web!Tells(r, {204})
  <2>1. \A c \in {204} : c \in 0 .. 503 /\ Suits(r, c, "none")
    BY <1>1, <1>4 DEF Suits
  <2> QED BY <1>1, <1>2, <1>4, <2>1, Told DEF WebStep, FormStep, RefusedStep, AllowedStep
<1>5. CASE allowed /\ Web!Tells(r, {503})
  <2>1. \A c \in {503} : c \in 0 .. 503 /\ Suits(r, c, "none")
    BY <1>1, <1>5 DEF Suits, RightCode
  <2> QED BY <1>1, <1>2, <1>5, <2>1, Told DEF WebStep, FormStep, RefusedStep, AllowedStep
<1>6. CASE allowed /\ Web!Handle(r)
  <2>1. WebInv' /\ (settings' # settings => request'.code = 200) /\ request'.allowed = TRUE
    BY <1>1, <1>2, <1>6, HandleKeeps
  <2> QED BY <1>2, <2>1 DEF WebStep, FormStep, RefusedStep, AllowedStep
<1> QED BY <1>2, <1>3, <1>4, <1>5, <1>6, Zenon

LEMMA WebStarts == ASSUME Web!ApiConstants, Web!Init PROVE WebInv
PROOF
<1>1. /\ request \in Requests /\ request.at = "none" /\ request.then = "none"
      /\ restart = "none" /\ settings \in Web!Settings /\ saved = settings
      /\ draft \in Drafts /\ draft.taken <= Len(draft.form)
  BY NoneIs, NoDraftIs DEF Web!Init
<1> QED BY <1>1 DEF WebInv

-----------------------------------------------------------------------------
(* What comes with a body. *)
LEMMA BodiesKeep ==
  ASSUME Web!ApiConstants, WebInv, NEW whole \in BOOLEAN,
         Web!Setpoint \/ Web!ConfigUploaded(whole) \/ Web!FirmwareUploaded(whole)
  PROVE  WebInv' /\ WebStep
PROOF
<1>1. /\ request \in Requests /\ request.at = "body" /\ request.method = "POST"
      /\ request.path \in Web!Bodies /\ request.allowed = TRUE
      /\ UNCHANGED <<draft, restart>>
  BY DEF WebInv, Web!Setpoint, Web!ConfigUploaded, Web!FirmwareUploaded
<1>2. Handles(request.method, request.path)
  BY <1>1, TableIs
<1>3. \A c \in (0 .. 503) \ {405} : c \in 0 .. 503 /\ Suits(request, c, "none")
  BY <1>1, <1>2 DEF Suits, RightCode, WrongMethod
<1>4. ASSUME Web!Changes, Web!Answer(request, 200, "none") PROVE WebInv' /\ WebStep
  <2>1. WebInv' /\ request'.code = 200
    BY <1>1, <1>3, <1>4, Answered
  <2> QED BY <1>1, <2>1 DEF WebStep, FormStep, RefusedStep, AllowedStep
<1>5. ASSUME Web!Tells(request, {400}) PROVE WebInv' /\ WebStep
  <2>1. WebInv' /\ settings' = settings
    BY <1>1, <1>3, <1>5, Told
  <2> QED BY <1>1, <2>1 DEF WebStep, FormStep, RefusedStep, AllowedStep
<1>6. CASE Web!Setpoint
  <2>1. ASSUME NEW n \in Names \ {"auth"}, NEW v \in Levels,
               settings' = [settings EXCEPT ![n] = v], saved' = settings'
        PROVE  Web!Changes
    BY <2>1 DEF Web!Changes, Web!Settings, WebInv
  <2> QED BY <1>4, <1>5, <1>6, <2>1 DEF Web!Setpoint
<1>7. CASE Web!ConfigUploaded(whole)
  BY <1>4, <1>5, <1>7 DEF Web!ConfigUploaded
<1>8. CASE Web!FirmwareUploaded(whole)
  <2>1. Web!Kept /\ (Web!Answer(request, 200, "Plain") \/ Web!Answer(request, 400, "none"))
    BY <1>8 DEF Web!FirmwareUploaded, Web!Uploaded
  <2>2. CASE Web!Answer(request, 200, "Plain")
    <3>1. Suits(request, 200, "Plain") /\ "Plain" \in Web!Kinds
      BY <1>1, <1>2 DEF Suits, RightCode, WrongMethod, Web!Kinds
    <3>2. WebInv'
      BY <1>1, <2>1, <2>2, <3>1, Answered
    <3> QED BY <1>1, <2>1, <3>2 DEF WebStep, FormStep, RefusedStep, AllowedStep, Web!Kept
  <2>3. CASE Web!Answer(request, 400, "none")
    <3>1. Web!Tells(request, {400})
      BY <2>1, <2>3 DEF Web!Tells
    <3> QED BY <1>5, <3>1
  <2> QED BY <2>1, <2>2, <2>3
<1> QED BY <1>6, <1>7, <1>8

(* The pairs of a form: the copy is right for those taken so far. *)
LEMMA CloneKeeps ==
  ASSUME Web!ApiConstants, WebInv, NEW form \in Forms, Web!Clone(form)
  PROVE  WebInv' /\ WebStep
PROOF
<1>1. /\ request.at = "body" /\ request' = [request EXCEPT !.at = "form"]
      /\ draft' = [form |-> form, taken |-> 0, next |-> settings, changed |-> FALSE]
      /\ settings' = settings /\ saved' = saved /\ restart' = restart
  BY DEF Web!Clone, Web!Kept
<1>2. /\ request \in Requests /\ request.method = "POST" /\ request.path \in Web!Bodies
      /\ request.allowed = TRUE /\ request.code = 0 /\ (request.then # "none" => request.code = 200)
  BY <1>1 DEF WebInv
<1>2a. request.then = "none"
  BY <1>2
<1>3. /\ request' \in Requests /\ request'.at = "form" /\ request'.method = "POST"
      /\ request'.path \in Web!Bodies /\ request'.allowed = TRUE /\ request'.code = 0
      /\ request'.then = "none"
  BY <1>1, <1>2, <1>2a, ZenonT(120) DEF Requests
<1>4. /\ draft' \in Drafts /\ draft'.form = form /\ draft'.taken = 0 /\ draft'.next = settings
      /\ draft'.taken <= Len(form)
  BY <1>1, FormsAre DEF Drafts, WebInv
<1>5. DraftInv'
  BY <1>1, <1>4 DEF DraftInv, ResultTo
<1>6. WebInv'
  BY <1>1, <1>3, <1>4, <1>5 DEF WebInv
<1> QED BY <1>1, <1>3, <1>6 DEF WebStep, FormStep, RefusedStep, AllowedStep

LEMMA PairIs ==
  ASSUME Web!ApiConstants, WebInv, NEW values, Web!Taking(values)
  PROVE  /\ request.at = "form" /\ DraftInv
         /\ draft.taken \in Nat /\ draft.taken + 1 \in 1 .. Len(draft.form)
         /\ draft.form[draft.taken + 1] \in Web!Pairs
         /\ draft.form[draft.taken + 1].value \in values
PROOF
<1>1. /\ request.at = "form" /\ draft.taken < Len(draft.form)
      /\ draft.form[draft.taken + 1].value \in values
  BY DEF Web!Taking
<1>2. draft.form \in Forms \cup {<<>>} /\ draft.taken \in Nat /\ DraftInv
  BY <1>1 DEF WebInv, Drafts
<1>3. Len(draft.form) \in Nat /\ \A i \in 1 .. Len(draft.form) : draft.form[i] \in Web!Pairs
  BY <1>2, FormsAre
<1>4. draft.taken + 1 \in 1 .. Len(draft.form)
  BY <1>1, <1>2, <1>3
<1> QED BY <1>1, <1>2, <1>3, <1>4

(* One more pair: empty, or with a value for its name. *)
LEMMA OneMore ==
  ASSUME NEW s, NEW form, NEW k \in Nat, NEW t, ResultTo(s, form, k, t), NEW u,
         \A n \in Names : u[n] = IF Web!Gives(form[k + 1], n) THEN form[k + 1].value ELSE t[n]
  PROVE  ResultTo(s, form, k + 1, u)
PROOF
<1> SUFFICES ASSUME NEW n \in Names
             PROVE  \/ /\ u[n] = s[n]
                       /\ \A i \in 1 .. k + 1 : ~Web!Gives(form[i], n)
                    \/ \E i \in 1 .. k + 1 :
                         /\ Web!Gives(form[i], n) /\ u[n] = form[i].value
                         /\ \A j \in i + 1 .. k + 1 : ~Web!Gives(form[j], n)
  BY DEF ResultTo
<1>1. CASE Web!Gives(form[k + 1], n)
  <2>1. k + 1 \in 1 .. k + 1 /\ \A j \in k + 1 + 1 .. k + 1 : FALSE
    OBVIOUS
  <2> QED BY <1>1, <2>1
<1>2. CASE ~Web!Gives(form[k + 1], n)
  <2>1. u[n] = t[n]
    BY <1>2
  <2>2. CASE t[n] = s[n] /\ \A i \in 1 .. k : ~Web!Gives(form[i], n)
    <3>1. \A i \in 1 .. k + 1 : i \in 1 .. k \/ i = k + 1
      OBVIOUS
    <3> QED BY <1>2, <2>1, <2>2, <3>1
  <2>3. ASSUME NEW i \in 1 .. k, Web!Gives(form[i], n), t[n] = form[i].value,
               \A j \in i + 1 .. k : ~Web!Gives(form[j], n)
        PROVE  \E l \in 1 .. k + 1 :
                         /\ Web!Gives(form[l], n) /\ u[n] = form[l].value
                         /\ \A j \in l + 1 .. k + 1 : ~Web!Gives(form[j], n)
    <3>1. i \in 1 .. k + 1 /\ \A j \in i + 1 .. k + 1 : j \in i + 1 .. k \/ j = k + 1
      OBVIOUS
    <3> QED BY <1>2, <2>1, <2>3, <3>1
  <2> QED BY <2>2, <2>3 DEF ResultTo
<1> QED BY <1>1, <1>2

LEMMA StillTaking ==
  ASSUME WebInv, request.at = "form", draft' \in Drafts, draft'.taken <= Len(draft'.form), DraftInv',
         UNCHANGED <<settings, saved, request, restart>>
  PROVE  WebInv' /\ WebStep
PROOF
<1> QED BY DEF WebInv, WebStep, FormStep, RefusedStep, AllowedStep

LEMMA SkippedKeeps ==
  ASSUME Web!ApiConstants, WebInv, Web!PairSkipped
  PROVE  WebInv' /\ WebStep
PROOF
<1> DEFINE k == draft.taken
<1>1. /\ Web!Taking({Web!Empty}) /\ draft' = [draft EXCEPT !.taken = @ + 1]
      /\ UNCHANGED <<settings, saved, request, restart>>
  BY DEF Web!PairSkipped, Web!Kept
<1>2. /\ request.at = "form" /\ DraftInv /\ k \in Nat /\ k + 1 \in 1 .. Len(draft.form)
      /\ draft.form[k + 1].value = Web!Empty
  BY <1>1, PairIs
<1>3. /\ draft' \in Drafts /\ draft'.taken = k + 1 /\ draft'.form = draft.form
      /\ draft'.next = draft.next /\ draft'.changed = draft.changed
  BY <1>1, <1>2 DEF WebInv, Drafts
<1>4. ResultTo(settings, draft.form, k + 1, draft.next)
  <2>1. \A n \in Names : ~Web!Gives(draft.form[k + 1], n)
    BY <1>2 DEF Web!Gives
  <2> QED BY <1>2, <2>1, OneMore DEF DraftInv
<1>5. \A i \in 1 .. k + 1 : draft.form[i].value # Web!Bad
  <2>1. \A i \in 1 .. k + 1 : i \in 1 .. k \/ i = k + 1
    BY <1>2
  <2> QED BY <1>2, <2>1 DEF DraftInv, Web!Empty, Web!Bad
<1>6. DraftInv'
  BY <1>1, <1>2, <1>3, <1>4, <1>5 DEF DraftInv
<1>7. draft'.taken <= Len(draft'.form)
  BY <1>2, <1>3
<1> QED BY <1>1, <1>2, <1>3, <1>6, <1>7, StillTaking

LEMMA TakenKeeps ==
  ASSUME Web!ApiConstants, WebInv, Web!PairTaken
  PROVE  WebInv' /\ WebStep
PROOF
<1> DEFINE k == draft.taken
           name == draft.form[k + 1].name
           level == draft.form[k + 1].value
           next == [draft.next EXCEPT ![name] = level]
           changed == draft.changed \/ draft.next[name] # level
<1>1. /\ Web!Taking(Levels)
      /\ draft' = [draft EXCEPT !.taken = k + 1, !.next = next, !.changed = changed]
      /\ UNCHANGED <<settings, saved, request, restart>>
  BY DEF Web!PairTaken, Web!Kept
<1>2. /\ request.at = "form" /\ DraftInv /\ k \in Nat /\ k + 1 \in 1 .. Len(draft.form)
      /\ level \in Levels /\ name \in Names /\ draft \in Drafts /\ draft.next \in Web!Settings
  BY <1>1, PairIs DEF WebInv, Drafts, Web!Pairs
<1>3. next \in Web!Settings /\ \A n \in Names : next[n] = IF n = name THEN level ELSE draft.next[n]
  BY <1>2 DEF Web!Settings
<1>4. changed \in BOOLEAN /\ (changed = FALSE => draft.changed = FALSE /\ next = draft.next)
  <2>1. draft.changed \in BOOLEAN
    BY <1>2 DEF Drafts
  <2>2. changed \in BOOLEAN
    BY <2>1
  <2>3. ASSUME changed = FALSE PROVE draft.changed = FALSE /\ next = draft.next
    <3>1. draft.changed = FALSE /\ draft.next[name] = level
      BY <2>1, <2>3
    <3> QED BY <1>2, <3>1 DEF Web!Settings
  <2> QED BY <2>2, <2>3
<1>5. level # Web!Empty /\ level # Web!Bad
  BY <1>2 DEF Web!ApiConstants
<1>6. ResultTo(settings, draft.form, k + 1, next)
  <2>1. \A n \in Names : next[n] = IF Web!Gives(draft.form[k + 1], n) THEN draft.form[k + 1].value
                                   ELSE draft.next[n]
    BY <1>3, <1>5 DEF Web!Gives
  <2> HIDE DEF next
  <2> QED BY <1>2, <2>1, OneMore DEF DraftInv
<1>7. \A i \in 1 .. k + 1 : draft.form[i].value # Web!Bad
  <2>1. \A i \in 1 .. k + 1 : i \in 1 .. k \/ i = k + 1
    BY <1>2
  <2> QED BY <1>2, <1>5, <2>1 DEF DraftInv
<1> HIDE DEF next, changed, level, name
<1>8a. PICK c \in BOOLEAN : c = changed
  BY <1>4
<1>8. /\ draft' \in Drafts /\ draft'.taken = k + 1 /\ draft'.form = draft.form
      /\ draft'.next = next /\ draft'.changed = changed
  <2>1. draft' = [draft EXCEPT !.taken = k + 1, !.next = next, !.changed = c]
    BY <1>1, <1>8a
  <2>2. k + 1 \in Nat /\ next \in Web!Settings /\ draft \in Drafts
    BY <1>2, <1>3
  <2>3. /\ draft' \in Drafts /\ draft'.taken = k + 1 /\ draft'.form = draft.form
        /\ draft'.next = next /\ draft'.changed = c
    BY ONLY <2>1, <2>2, ZenonT(30) DEF Drafts
  <2> QED BY <1>8a, <2>3
<1>9. DraftInv'
  <2>1. draft'.changed = FALSE => draft'.next = settings
    BY <1>2, <1>4, <1>8 DEF DraftInv
  <2> QED BY <1>1, <1>6, <1>7, <1>8, <2>1 DEF DraftInv
<1>10. draft'.taken <= Len(draft'.form)
  BY <1>2, <1>8
<1> QED BY <1>1, <1>2, <1>8, <1>9, <1>10, StillTaking

(* A form ends: refused for a bad pair, or put in force. *)
LEMMA RefusedKeeps ==
  ASSUME Web!ApiConstants, WebInv, Web!PairRefused
  PROVE  WebInv' /\ WebStep
PROOF
<1>1. /\ Web!Taking({Web!Bad}) /\ draft' = Web!NoDraft /\ settings' = settings /\ saved' = saved
      /\ Web!Answer(request, 400, "none") /\ restart' = restart
  BY DEF Web!PairRefused, Web!Tells, Web!Kept
<1>2. /\ request.at = "form" /\ draft.taken + 1 \in 1 .. Len(draft.form)
      /\ draft.form[draft.taken + 1].value = Web!Bad
  BY <1>1, PairIs
<1>3. /\ request \in Requests /\ request.allowed = TRUE /\ settings' \in Web!Settings
      /\ saved' = settings' /\ Handles(request.method, request.path)
  BY <1>1, <1>2, TableIs DEF WebInv
<1>4. Suits(request, 400, "none")
  BY <1>3 DEF Suits, RightCode, WrongMethod
<1>n. draft' \in Drafts /\ draft'.taken <= Len(draft'.form)
  BY <1>1, NoDraftIs
<1>w. WebInv'
  BY <1>1, <1>3, <1>4, <1>n, AnswerKeeps
<1>5. WebInv' /\ request'.code = 400
  BY <1>1, <1>3, <1>w, AnswerIs
<1>6. FormStep
  BY <1>1, <1>2, <1>5 DEF FormStep
<1> QED BY <1>1, <1>5, <1>6 DEF WebStep, RefusedStep, AllowedStep

LEMMA CommittedKeeps ==
  ASSUME Web!ApiConstants, WebInv, Web!FormCommitted
  PROVE  WebInv' /\ WebStep
PROOF
<1>1. /\ request.at = "form" /\ draft.taken = Len(draft.form) /\ settings' = draft.next
      /\ saved' = IF draft.changed THEN settings' ELSE saved
      /\ Web!Answer(request, 200, "none") /\ draft' = Web!NoDraft /\ restart' = restart
  BY DEF Web!FormCommitted
<1>2. DraftInv /\ draft \in Drafts /\ request \in Requests /\ request.allowed = TRUE
      /\ Handles(request.method, request.path) /\ saved = settings
  BY <1>1, TableIs DEF WebInv
<1>3. settings' \in Web!Settings /\ saved' = settings'
  <2>1. CASE draft.changed
    BY <1>1, <1>2, <2>1 DEF Drafts
  <2>2. CASE ~draft.changed
    <3>1. draft.changed = FALSE
      BY <1>2, <2>2 DEF Drafts
    <3> QED BY <1>1, <1>2, <2>2, <3>1 DEF Drafts, DraftInv
  <2> QED BY <2>1, <2>2
<1>4. Suits(request, 200, "none")
  BY <1>2 DEF Suits, RightCode, WrongMethod
<1>n. draft' \in Drafts /\ draft'.taken <= Len(draft'.form)
  BY <1>1, NoDraftIs
<1>w. WebInv'
  BY <1>1, <1>2, <1>3, <1>4, <1>n, AnswerKeeps
<1>5. WebInv' /\ request'.code = 200 /\ request'.allowed = TRUE
  BY <1>1, <1>2, <1>w, AnswerIs
<1>6. Web!Result(settings, draft.form, settings')
  BY <1>1, <1>2 DEF DraftInv, ResultTo, Web!Result
<1>7. ~\E i \in 1 .. Len(draft.form) : draft.form[i].value = Web!Bad
  BY <1>1, <1>2 DEF DraftInv
<1>8. FormStep
  BY <1>5, <1>6, <1>7 DEF FormStep
<1> QED BY <1>1, <1>5, <1>8 DEF WebStep, RefusedStep, AllowedStep

LEMMA SentKeeps ==
  ASSUME WebInv, Web!Sent
  PROVE  WebInv' /\ WebStep
PROOF
<1>1. /\ request.at = "answer" /\ request' = Web!None
      /\ settings' = settings /\ saved' = saved /\ draft' = draft
      /\ restart' = restart \/ (request.then # "none" /\ restart' = request.then)
  BY DEF Web!Sent, Web!Kept
<1>2. /\ request \in Requests /\ (request.then # "none" => request.code = 200)
      /\ request.allowed = TRUE \/ (request.code = 401 /\ request.then = "none")
  BY <1>1 DEF WebInv
<1>3. restart' \in Web!Kinds \cup {"none"}
  BY <1>1, <1>2 DEF WebInv, Requests
<1>4. WebInv'
  BY <1>1, <1>3, NoneIs DEF WebInv
<1>5. restart' # restart => request.code = 200 /\ request.allowed = TRUE
  BY <1>1, <1>2
<1>6. request.at # "form"
  BY <1>1
<1> QED BY <1>1, <1>4, <1>5, <1>6 DEF WebStep, FormStep, RefusedStep, AllowedStep

LEMMA OthersKeep ==
  ASSUME WebInv, Web!Others
  PROVE  WebInv' /\ WebStep
PROOF
<1>1. /\ request.at # "form" /\ settings' \in Web!Settings /\ saved' = settings'
      /\ UNCHANGED <<draft, request, restart>>
  BY DEF Web!Others, Web!Changes
<1>2. WebInv'
  BY <1>1 DEF WebInv
<1> QED BY <1>1, <1>2 DEF WebStep, FormStep, RefusedStep, AllowedStep

LEMMA WebSteps ==
  ASSUME Web!ApiConstants, WebInv, Web!Next
  PROVE  WebInv' /\ WebStep
PROOF
<1>1. ASSUME NEW m \in Web!Methods, NEW p \in Web!Paths, NEW c \in Levels, NEW low \in BOOLEAN,
             Web!Begin(m, p, c, low)
      PROVE  WebInv' /\ WebStep
  BY <1>1, BeginKeeps
<1>2. ASSUME NEW whole \in BOOLEAN, Web!ConfigUploaded(whole) \/ Web!FirmwareUploaded(whole)
      PROVE  WebInv' /\ WebStep
  BY <1>2, BodiesKeep
<1>3. CASE Web!Setpoint
  BY <1>3, BodiesKeep
<1>4. ASSUME NEW form \in Forms, Web!Clone(form) PROVE WebInv' /\ WebStep
  BY <1>4, CloneKeeps
<1> QED BY <1>1, <1>2, <1>3, <1>4, SkippedKeeps, RefusedKeeps, TakenKeeps, CommittedKeeps,
           SentKeeps, OthersKeep, Zenon DEF Web!Next

(* A form is taken whole or not at all, over the settings in force just    *)
(* then, and whatever is changed is saved; who is refused changes nothing  *)
(* and restarts nothing, what is refused has changed nothing, and the      *)
(* table of routes tells a wrong method from an unknown path (apply_form,  *)
(* call_path_router_service and ROUTES, web/src/lib.rs).                   *)
THEOREM RequestsAreChecked == ConnectionSpec => RequestsChecked
PROOF
<1>1. ConnectionInit => WebInv
  BY PartsStart, ConnectionConstants, WebStarts
<1>2. WebInv /\ [ConnectionNext]_connectionVars =>
        WebInv' /\ (WebStep \/ UNCHANGED webVars)
  <2> SUFFICES ASSUME WebInv, [ConnectionNext]_connectionVars
               PROVE  WebInv' /\ (WebStep \/ UNCHANGED webVars)
    OBVIOUS
  <2>1. Web!Next \/ UNCHANGED webVars
    BY PartsStep
  <2>2. CASE UNCHANGED webVars
    BY <2>2 DEF webVars, WebInv, DraftInv
  <2> QED BY <2>1, <2>2, ConnectionConstants, WebSteps
<1>3. WebInv => Web!TypeOK /\ Web!WrongMethodIsTold /\ Web!ChangesSaved
  <2> SUFFICES ASSUME WebInv PROVE Web!TypeOK /\ Web!WrongMethodIsTold /\ Web!ChangesSaved
    OBVIOUS
  <2>1. draft.form \in Forms \cup {<<>>} /\ draft.taken \in Nat /\ draft.taken <= Len(draft.form)
        /\ draft.next \in Web!Settings /\ draft.changed \in BOOLEAN
    BY DEF WebInv, Drafts
  <2>2. Len(draft.form) \in Nat
    BY <2>1, ConnectionConstants, FormsAre
  <2>3. draft.taken \in 0 .. Len(draft.form)
    BY <2>1, <2>2
  <2>4. Web!TypeOK
    BY <2>1, <2>3 DEF WebInv, Web!TypeOK, Requests
  <2>5. Web!WrongMethodIsTold
    <3>1. request.allowed \in BOOLEAN
      BY DEF WebInv, Requests
    <3> QED BY <3>1 DEF WebInv, Web!WrongMethodIsTold, RightCode, WrongMethod, Handles
  <2> QED BY <2>4, <2>5 DEF WebInv, Web!ChangesSaved
<1>4. WebInv /\ [ConnectionNext]_connectionVars =>
        /\ [FormStep]_(Web!vars)
        /\ [RefusedStep]_(Web!vars)
        /\ [AllowedStep]_(Web!vars)
  BY <1>2 DEF WebStep, webVars, Web!vars
<1>5. WebInv /\ WebInv' /\ [AllowedStep]_(Web!vars) =>
        [(request' # request /\ settings' # settings) \/ restart' # restart
           => request.allowed \/ request'.allowed]_(Web!vars)
  BY DEF AllowedStep
<1> QED BY <1>1, <1>2, <1>3, <1>4, <1>5, PTL
        DEF ConnectionSpec, RequestsChecked, Web!FormsWhole, Web!RefusedChangesNothing,
            Web!OnlyAuthorized, FormStep, RefusedStep
=============================================================================
