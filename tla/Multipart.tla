------------------------------- MODULE Multipart -------------------------------
(***************************************************************************)
(* The parser of uploaded files (crates/api/src/multipart.rs): it is fed   *)
(* the body of a request in chunks of any size and passes on the data of   *)
(* each part without keeping it.                                           *)
(*                                                                         *)
(* The headers of a part are its name and an empty line.  External: the    *)
(* browser, which sends parts of Uploads, with a preamble or none, and has *)
(* taken a boundary that they do not hold; the network, which cuts what it *)
(* sends into chunks.                                                      *)
(***************************************************************************)
EXTENDS Integers, Sequences, SequencesExt

CONSTANTS Characters,
          Boundary,    \* the boundary, a sequence of characters
          Uploads,     \* what is sent: sequences of parts with a name and data
          Preambles,   \* what may go before the first part
          ChunkMax,    \* the longest chunk
          HeadersMax   \* MAX_HEADERS

VARIABLES sent,    \* the upload; item: which part is being sent; at: how much of it is
          input,   \* how much of the chunk that was pushed is to be read yet
          parser,  \* phase; matched: characters of the delimiter; first; headers;
                   \* pushed: how much data this chunk gave
          given    \* the parts that the sink was given: name, data, whether ended

partVars == <<sent, input, parser, given>>

CR == "r"
LF == "n"
Dash == "-"
Line == <<CR, LF>>
Delim == <<CR, LF, Dash, Dash>> \o Boundary

Holds(text) == \E i \in 0 .. Len(text) - Len(Delim) : \A j \in DOMAIN Delim : text[i + j] = Delim[j]

UploadConstants ==
  /\ {CR, LF, Dash} \subseteq Characters
  /\ Boundary \in Seq(Characters \ {CR, LF}) /\ Boundary # <<>>      \* else BadBoundary
  /\ Uploads # {}
  /\ \A parts \in Uploads :
       /\ parts \in Seq([name : Characters \ {CR, LF}, data : Seq(Characters)])
       /\ \A i \in DOMAIN parts : ~Holds(parts[i].data)
  /\ \A preamble \in Preambles : preamble \in Seq(Characters) /\ ~Holds(Line \o preamble)
  /\ ChunkMax \in Nat \ {0} /\ HeadersMax \in Nat /\ HeadersMax > 4

(* A body: the preamble, each part after a delimiter, the closing one.     *)
Item(upload, k) ==
  CASE k = 0 -> upload.preamble
    [] k \in DOMAIN upload.parts ->
         Delim \o <<CR, LF, upload.parts[k].name, CR, LF, CR, LF>> \o upload.parts[k].data
    [] k = Len(upload.parts) + 1 -> Delim \o <<Dash, Dash, CR, LF>>
AllSent == sent.item > Len(sent.parts) + 1

(* The first delimiter lacks the line break if nothing goes before it.     *)
Init == /\ \E parts \in Uploads, preamble \in Preambles :
             sent = [parts |-> parts, preamble |-> preamble,
                     item |-> IF preamble = <<>> THEN 1 ELSE 0,
                     at |-> IF preamble = <<>> THEN Len(Line) ELSE 0]
        /\ input = 0
        /\ parser = [phase |-> "preamble", matched |-> 2, first |-> <<>>, headers |-> <<>>,
                     pushed |-> 0]
        /\ given = <<>>

-----------------------------------------------------------------------------
(* One chunk arrives when the last one is done with; the end of the body   *)
(* cuts it short.                                                          *)
Feed(n) == /\ input = 0 /\ ~AllSent /\ parser.phase # "error"
           /\ input' = n
           /\ parser' = [parser EXCEPT !.pushed = 0]
           /\ UNCHANGED <<sent, given>>

(* The next character of the chunk. *)
Char == Item(sent, sent.item)[sent.at + 1]
Take == /\ input > 0 /\ ~AllSent
        /\ sent' = IF sent.at + 1 < Len(Item(sent, sent.item)) THEN [sent EXCEPT !.at = @ + 1]
                   ELSE [sent EXCEPT !.item = @ + 1, !.at = 0]
        /\ input' = IF sent'.item > Len(sent.parts) + 1 THEN 0 ELSE input - 1

(* Data are given once a part has begun. *)
Gives(data, ended) ==
  IF parser.phase = "preamble" THEN UNCHANGED given
  ELSE given' = [given EXCEPT ![Len(given)] =
                      [name |-> @.name, data |-> @.data \o data, ended |-> ended]]
Gave(data) == IF parser.phase = "preamble" THEN 0 ELSE Len(data)

(* The search for the delimiter: characters that match are held back, ...  *)
Match ==
  /\ Take /\ parser.phase \in {"preamble", "body"}
  /\ Char = Delim[parser.matched + 1]
  /\ LET found == parser.matched + 1 = Len(Delim)
     IN  /\ parser' = IF found THEN [parser EXCEPT !.phase = "after", !.matched = 0, !.first = <<>>]
                      ELSE [parser EXCEPT !.matched = @ + 1]
         /\ Gives(<<>>, found)

(* A mutant: a character that does not match is not tried as the first.    *)
MismatchOnce ==
  /\ Take /\ parser.phase \in {"preamble", "body"}
  /\ Char # Delim[parser.matched + 1]
  /\ LET data == Append(SubSeq(Delim, 1, parser.matched), Char)
     IN  /\ Gives(data, FALSE)
         /\ parser' = [parser EXCEPT !.matched = 0, !.pushed = @ + Gave(data)]

(* ... and given when one does not, which may be the first of the          *)
(* delimiter again.                                                        *)
Mismatch ==
  /\ Take /\ parser.phase \in {"preamble", "body"}
  /\ Char # Delim[parser.matched + 1]
  /\ LET again == Char = Delim[1]
         held == SubSeq(Delim, 1, parser.matched)
         data == IF again THEN held ELSE Append(held, Char)
     IN  /\ Gives(data, FALSE)
         /\ parser' = [parser EXCEPT !.matched = IF again THEN 1 ELSE 0, !.pushed = @ + Gave(data)]

(* Two characters after a delimiter tell whether another part follows. *)
AfterBoundary ==
  /\ Take /\ parser.phase = "after"
  /\ parser' = CASE parser.first = <<>> -> [parser EXCEPT !.first = <<Char>>]
                 [] parser.first = <<Dash>> /\ Char = Dash -> [parser EXCEPT !.phase = "done"]
                 [] parser.first = <<CR>> /\ Char = LF ->
                      [parser EXCEPT !.phase = "headers", !.headers = <<>>]
                 [] OTHER -> [parser EXCEPT !.phase = "error"]
  /\ UNCHANGED given

Headers ==
  /\ Take /\ parser.phase = "headers"
  /\ LET headers == Append(parser.headers, Char)
     IN  CASE Len(headers) > HeadersMax ->
                parser' = [parser EXCEPT !.phase = "error"] /\ UNCHANGED given
           [] Len(headers) <= HeadersMax /\ IsSuffix(<<CR, LF, CR, LF>>, headers) ->
                /\ parser' = [parser EXCEPT !.phase = "body", !.matched = 0, !.headers = headers]
                /\ given' = Append(given, [name |-> Head(headers), data |-> <<>>, ended |-> FALSE])
           [] OTHER -> parser' = [parser EXCEPT !.headers = headers] /\ UNCHANGED given

(* What follows the closing delimiter is ignored. *)
Ignore == Take /\ parser.phase = "done" /\ UNCHANGED <<parser, given>>

Next == (\E n \in 1 .. ChunkMax : Feed(n)) \/ Match \/ Mismatch \/ AfterBoundary \/ Headers \/ Ignore
Spec == Init /\ [][Next]_partVars

-----------------------------------------------------------------------------
(* However the body is cut into chunks, the parser gives each part once,   *)
(* with the data it was sent with: no more, and when it has ended no less. *)
(* What one chunk gives fits the buffer that the upload keeps for it: a    *)
(* chunk, and what was held back of a delimiter.                           *)
PartsWhole ==
  /\ parser.phase # "error"
  /\ parser.pushed < ChunkMax + Len(Delim)
  /\ Len(given) <= Len(sent.parts)
  /\ \A i \in DOMAIN given :
       /\ given[i].name = sent.parts[i].name
       /\ IsPrefix(given[i].data, sent.parts[i].data)
       /\ given[i].ended \/ i < Len(given) => given[i].data = sent.parts[i].data
  /\ parser.phase = "done" => Len(given) = Len(sent.parts)
  /\ AllSent => parser.phase = "done"
=============================================================================
