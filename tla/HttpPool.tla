------------------------------ MODULE HttpPool ------------------------------
(***************************************************************************)
(* The HTTP workers (firmware/src/net/web.rs) and the slots of the event   *)
(* streams (crates/web/src/lib.rs).                                        *)
(*                                                                         *)
(* A worker picks a network, waits for a connection there, answers one     *)
(* request and begins anew.  An open page of the user interface holds a    *)
(* worker for its event stream.  External: the networks come and go, and   *)
(* the TCP stack holds connections until a worker accepts them.            *)
(***************************************************************************)
EXTENDS Integers, FiniteSets

CONSTANT Workers

ASSUME WorkersFinite == IsFiniteSet(Workers)

VARIABLES worker,   \* where each worker is, and on which network
          open,     \* StreamSlots.open
          up,       \* networks whose link is up
          waiting   \* networks with a connection that waits to be accepted

vars == <<worker, open, up, waiting>>

Networks == {"sta", "ap"}
MaxStreams == Cardinality(Workers) \div 2

At(place) == {w \in Workers : worker[w].at = place}
To(w, place) == worker' = [worker EXCEPT ![w].at = place]

TypeOK ==
  /\ worker \in [Workers -> [at : {"pick", "accept", "serve", "stream", "refused", "answer"}, on : Networks]]
  /\ open \in Nat
  /\ up \subseteq Networks /\ waiting \subseteq Networks

-----------------------------------------------------------------------------
(* The home network if its link is up, else the access point; with neither *)
(* the worker waits for one.                                               *)
Pick(w) == /\ worker[w].at = "pick" /\ up # {}
           /\ worker' = [worker EXCEPT ![w] =
                           [at |-> "accept", on |-> IF "sta" \in up THEN "sta" ELSE "ap"]]
           /\ UNCHANGED <<open, up, waiting>>

Accept(w) == /\ worker[w].at = "accept" /\ worker[w].on \in waiting
             /\ waiting' = waiting \ {worker[w].on}
             /\ To(w, "serve")
             /\ UNCHANGED <<open, up>>
(* A client that gave up during the handshake, or another error. *)
HandshakeFails(w) == /\ worker[w].at = "accept" /\ worker[w].on \in waiting
                     /\ waiting' = waiting \ {worker[w].on}
                     /\ To(w, "pick")
                     /\ UNCHANGED <<open, up>>
(* A mutant: a worker that waits on a network does not see it go. *)
LinkDownUnseen(w) == FALSE /\ UNCHANGED vars
LinkDown(w) == /\ worker[w].at = "accept" /\ worker[w].on \notin up
               /\ To(w, "pick")
               /\ UNCHANGED <<open, up, waiting>>

(* StreamSlots::take adds one first, and takes it back if that was one too *)
(* many.                                                                   *)
Take(w) == /\ worker[w].at = "serve"
           /\ open' = open + 1
           /\ To(w, IF open < MaxStreams THEN "stream" ELSE "refused")
           /\ UNCHANGED <<up, waiting>>
(* A mutant: who is refused does not give the slot back. *)
RefuseKeeps(w) == /\ worker[w].at = "refused"
                  /\ To(w, "answer")
                  /\ UNCHANGED <<open, up, waiting>>
Refuse(w) == /\ worker[w].at = "refused"
             /\ open' = open - 1
             /\ To(w, "answer")
             /\ UNCHANGED <<up, waiting>>
(* A stream ends when its page is closed or a write times out, and drops   *)
(* its slot.                                                               *)
StreamEnds(w) == /\ worker[w].at = "stream"
                 /\ open' = open - 1
                 /\ To(w, "pick")
                 /\ UNCHANGED <<up, waiting>>
(* The connection closes after one response; every wait of it has a limit. *)
ServeEnds(w) == /\ worker[w].at \in {"serve", "answer"}
                /\ To(w, "pick")
                /\ UNCHANGED <<open, up, waiting>>

(* The networks and the clients. *)
Connect(n) == n \in up \ waiting /\ waiting' = waiting \cup {n} /\ UNCHANGED <<worker, open, up>>
LinkUp(n) == n \notin up /\ up' = up \cup {n} /\ UNCHANGED <<worker, open, waiting>>
LinkLost(n) == /\ n \in up
               /\ up' = up \ {n} /\ waiting' = waiting \ {n}
               /\ UNCHANGED <<worker, open>>

Init == /\ worker = [w \in Workers |-> [at |-> "pick", on |-> "sta"]]
        /\ open = 0 /\ up = {} /\ waiting = {}

Work(w) == \/ Pick(w) \/ Accept(w) \/ HandshakeFails(w) \/ LinkDown(w)
           \/ Take(w) \/ Refuse(w) \/ StreamEnds(w) \/ ServeEnds(w)
Outside == \E n \in Networks : Connect(n) \/ LinkUp(n) \/ LinkLost(n)
Next == Outside \/ \E w \in Workers : Work(w)

(* A worker goes on when it can, and a request ends; a stream may last for *)
(* ever.                                                                   *)
Goes(w) == Pick(w) \/ Accept(w) \/ LinkDown(w) \/ Refuse(w) \/ ServeEnds(w)
Fairness == \A w \in Workers : WF_vars(Goes(w))
Spec == Init /\ [][Next]_vars /\ Fairness

-----------------------------------------------------------------------------
(* The count of open streams is that of the workers that hold or are being *)
(* refused a slot: none is lost or leaked, however streams end.            *)
SlotCount == open = Cardinality(At("stream") \cup At("refused"))

(* Streams hold at most half of the workers, whoever asks at the same time:*)
(* the others stay free for pages and commands.                            *)
HalfForPages == Cardinality(At("stream")) <= MaxStreams

SlotsKept == SlotCount /\ HalfForPages

(* A connection on the only network gets a worker, though streams last for *)
(* ever and workers waited on a network that went away.                    *)
Served ==
  \A n \in Networks : up = {n} /\ n \in waiting ~> up # {n} \/ n \notin waiting
=============================================================================
