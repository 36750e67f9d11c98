------------------------------ MODULE ConfigFile ------------------------------
(***************************************************************************)
(* The config file: what the machine writes for a download (write_config   *)
(* of crates/api, on the JSON writer) and how it takes one that is         *)
(* uploaded (import_config, on the JSON reader), token by token.           *)
(*                                                                         *)
(* A text is a sequence of lexemes: a punctuation mark, a string between   *)
(* its quotes, or another word (a number, true, false, null).  A string is *)
(* a sequence of characters, a setting's key a sequence of its segments,   *)
(* each a one-character string.  Of the values of a setting one may be     *)
(* Refused by it.  Where a lexeme ends is not modelled.                    *)
(*                                                                         *)
(* External: the file that is uploaded.  It is one the machine wrote,      *)
(* which may have been edited in one place, or cut short.                  *)
(***************************************************************************)
EXTENDS Integers, FiniteSets, Sequences, SequencesExt

CONSTANTS Keys,        \* PARAMS: the keys, sorted
          Values,      \* values that settings take; those of Texts are written as strings
          Texts,
          Refused,     \* a value that no setting takes
          MaxDepth     \* lens: how deep objects are followed

VARIABLES file,    \* text; meant: the settings it stands for, or Nothing if it is no config file
          reader,  \* pos; stack: a level's object (or array), and key: one is expected; started
          import,  \* path, of the open objects; pending: a key without its value yet;
                   \* wrapped; skip: the level at which a skipped array ends; applied; next
          cfg,     \* the settings
          result   \* reading, imported, refused, or panics

fileVars == <<file, reader, import, cfg, result>>

Nothing == <<>>
NoSkip == -1
Params == 1 .. Len(Keys)
Default == [i \in Params |-> CHOOSE v \in Values : TRUE]

Mark(m) == [is |-> m, of |-> <<>>]
Quoted(s) == [is |-> "string", of |-> s]
Word(w) == [is |-> "word", of |-> w]

-----------------------------------------------------------------------------
(* A string as it is written and read: some characters stand behind a      *)
(* backslash, as themselves or by a letter.                                *)
Letter == [c \in {"quote", "backslash", "newline", "control"} |->
             CASE c = "newline" -> "n" [] c = "control" -> "u" [] OTHER -> c]
Escaped(s) == FlattenSeq([i \in DOMAIN s |->
  IF s[i] \in DOMAIN Letter THEN <<"backslash", Letter[s[i]]>> ELSE <<s[i]>>])
Unescape(raw) ==
  FoldLeft(LAMBDA acc, c : IF acc.escape
                           THEN [escape |-> FALSE,
                                 out |-> Append(acc.out, CHOOSE d \in DOMAIN Letter : Letter[d] = c)]
                           ELSE IF c = "backslash" THEN [acc EXCEPT !.escape = TRUE]
                           ELSE [acc EXCEPT !.out = Append(@, c)],
           [escape |-> FALSE, out |-> <<>>], raw).out

(* The writer: the text so far; need, for each open level: a comma goes    *)
(* before the next item; after: the value of a key comes next.             *)
NewWriter == [out |-> <<>>, need |-> <<FALSE>>, after |-> FALSE]
Needing(w) == [w EXCEPT !.need[Len(w.need)] = TRUE]
Put(w, lexemes) == [w EXCEPT !.out = @ \o lexemes]
Sep(w) == Needing(IF Last(w.need) THEN Put(w, <<Mark(",")>>) ELSE w)
ValueSep(w) == IF w.after THEN Needing([w EXCEPT !.after = FALSE]) ELSE Sep(w)
BeginObject(w) == [Put(ValueSep(w), <<Mark("{")>>) EXCEPT !.need = Append(@, FALSE)]
EndObject(w) == [Put(w, <<Mark("}")>>) EXCEPT !.need = Front(@)]
WriteKey(w, k) == [Put(Sep(w), <<Quoted(k), Mark(":")>>) EXCEPT !.after = TRUE]
WriteValue(w, v) == Put(ValueSep(w), <<IF v \in Texts THEN Quoted(Escaped(v)) ELSE Word(v)>>)

(* write_config: each key closes the objects it is not in and opens its own. *)
Common(a, b) == CHOOSE n \in 0 .. Len(a) :
                  /\ n <= Len(b) /\ SubSeq(a, 1, n) = SubSeq(b, 1, n)
                  /\ n = Len(a) \/ n = Len(b) \/ a[n + 1] # b[n + 1]
Closed(w, objects) == FoldLeft(LAMBDA x, s : EndObject(x), w, objects)
Opened(w, objects) == FoldLeft(LAMBDA x, s : BeginObject(WriteKey(x, s)), w, objects)
WriteParam(acc, key, v) ==
  LET segs == Front(key)
      common == Common(acc.open, segs)
      w == Opened(Closed(acc.w, SubSeq(acc.open, common + 1, Len(acc.open))),
                  SubSeq(segs, common + 1, Len(segs)))
  IN  [w |-> WriteValue(WriteKey(w, Last(key)), v), open |-> segs]
WriteConfig(c) ==
  LET all == FoldLeft(LAMBDA acc, i : WriteParam(acc, Keys[i], c[i]),
                      [w |-> BeginObject(NewWriter), open |-> <<>>],
                      [i \in Params |-> i])
  IN  EndObject(Closed(all.w, all.open)).out

-----------------------------------------------------------------------------
(* Reader::next_token: what it returns, and the reader after it.           *)
Token(kind, of) == [is |-> kind, of |-> of]
Bad(r) == <<Token("error", <<>>), r>>
ExpectsKey(r) == r.stack # <<>> /\ Last(r.stack).object /\ Last(r.stack).key
AfterValue(r) == IF r.stack = <<>> THEN r ELSE [r EXCEPT !.stack[Len(r.stack)].key = @ \/ r.stack[Len(r.stack)].object]
Closes(r, mark) == r.stack # <<>> /\ mark = (IF Last(r.stack).object THEN "}" ELSE "]")
Push(r, object) == [r EXCEPT !.pos = @ + 1, !.stack = Append(@, [object |-> object, key |-> object])]

Value(text, r) ==
  LET x == text[r.pos]
  IN  CASE x.is = "{" -> <<Token("{", <<>>), Push(r, TRUE)>>
        [] x.is = "[" -> <<Token("[", <<>>), Push(r, FALSE)>>
        [] x.is \in {"string", "word"} -> <<Token(x.is, x.of), AfterValue([r EXCEPT !.pos = @ + 1])>>
        [] OTHER -> Bad(r)
KeyToken(text, r) ==
  IF /\ r.pos < Len(text) /\ text[r.pos].is = "string" /\ text[r.pos + 1].is = ":"
  THEN <<Token("key", text[r.pos].of), [r EXCEPT !.pos = @ + 2, !.stack[Len(r.stack)].key = FALSE]>>
  ELSE Bad(r)
Comma(text, r) == IF text[r.pos].is = "," /\ r.stack # <<>> THEN [r EXCEPT !.pos = @ + 1] ELSE r
NextToken(text, r) ==
  IF r.pos > Len(text)
  THEN IF r.stack = <<>> /\ r.started THEN <<Token("end", <<>>), r>> ELSE Bad(r)
  ELSE IF Closes(r, text[r.pos].is)
  THEN <<Token(text[r.pos].is, <<>>), AfterValue([r EXCEPT !.pos = @ + 1, !.stack = Front(@)])>>
  ELSE IF r.stack = <<>> /\ r.started THEN Bad(r)
  ELSE LET next == [Comma(text, r) EXCEPT !.started = TRUE]
       IN  CASE ExpectsKey(r) -> KeyToken(text, next)
             [] ~ExpectsKey(r) /\ next.pos > Len(text) -> <<Token("panic", <<>>), next>>   \* self.src[self.pos]
             [] OTHER -> Value(text, next)

(* import_config, one token at a time.  Only the end of the outermost      *)
(* object makes the settings those that were read.                         *)
Find(path) == {i \in Params : Keys[i] = path}
Ends(outcome) == /\ result' = outcome /\ UNCHANGED <<import, cfg>>
Goes(new) == import' = new /\ UNCHANGED <<cfg, result>>

Opens == LET path == Append(import.path, import.pending)
         IN  IF import.pending = Nothing \/ Len(path) > MaxDepth THEN Ends("refused")
             ELSE Goes([import EXCEPT !.path = path, !.pending = Nothing,
                                      !.wrapped = @ \/ Find(path) # {}])
Finishes == IF import.applied = 0 THEN Ends("refused")
            ELSE cfg' = import.next /\ result' = "imported" /\ UNCHANGED import
(* A mutant: a setting's object has ended, and is taken for open.          *)
ClosesWrapped == IF import.path = <<>> THEN Finishes
                 ELSE Goes([import EXCEPT !.path = Front(@)])
ClosesObject == IF import.path = <<>> THEN Finishes
                ELSE Goes([import EXCEPT !.path = Front(@), !.wrapped = FALSE])
Leaf(tok) ==
  LET known == IF ~import.wrapped THEN Find(Append(import.path, import.pending))
               ELSE IF import.pending = <<"value">> THEN Find(import.path) ELSE {}
      v == IF tok.is = "string" THEN Unescape(tok.of) ELSE tok.of
  IN  IF known = {} \/ v = <<"null">> THEN Goes([import EXCEPT !.pending = Nothing])
      ELSE IF v = Refused THEN Ends("refused")
      ELSE Goes([import EXCEPT !.pending = Nothing, !.applied = @ + 1,
                               !.next = [i \in Params |-> IF i \in known THEN v ELSE @[i]]])

Import(tok) ==
  IF ~reader.started THEN IF tok.is = "{" THEN Goes(import) ELSE Ends("refused")
  ELSE IF tok.is = "panic" THEN Ends("panics")
  ELSE IF tok.is = "error" THEN Ends("refused")
  ELSE IF import.skip # NoSkip
  THEN Goes([import EXCEPT !.skip = IF Len(reader'.stack) > @ THEN @ ELSE NoSkip])
  ELSE CASE tok.is = "key" -> IF import.path = <<>> /\ Len(tok.of) > 1 THEN Ends("refused")  \* it has dots
                              ELSE Goes([import EXCEPT !.pending = tok.of])
         [] tok.is = "{" -> Opens
         [] tok.is = "}" -> ClosesObject
         [] tok.is = "[" -> Goes([import EXCEPT !.skip = Len(reader.stack)])
         [] tok.is \in {"string", "word"} -> Leaf(tok)
Read == /\ result = "reading"
        /\ reader' = NextToken(file.text, reader)[2]
        /\ Import(NextToken(file.text, reader)[1])
        /\ UNCHANGED file

-----------------------------------------------------------------------------
(* The uploaded file: written for some settings, edited, and cut.          *)
Splice(text, at, remove, lexemes) ==
  SubSeq(text, 1, at - 1) \o lexemes \o SubSeq(text, at + remove, Len(text))
ValuesAt(text) == {p \in 2 .. Len(text) : text[p - 1].is = ":" /\ text[p].is # "{"}
KeysAt(text) == {p \in 2 .. Len(text) : text[p - 1].is \in {"{", ","}}
Wrap(x) == <<Mark("{"), Quoted(<<"value">>), Mark(":"), x, Mark(","),
             Quoted(<<"min">>), Mark(":"), x, Mark("}")>>
NewMember(value) == <<Quoted(<<"new">>), Mark(":")>> \o value \o <<Mark(",")>>
NewValues == {<<Word(<<"1">>)>>, Wrap(Word(<<"1">>)),
              <<Mark("["), Word(<<"1">>), Mark(","), Mark("{"), Mark("}"), Mark("]")>>}
At(text, p) == Cardinality({q \in ValuesAt(text) : q <= p})
Edited(c) ==
  LET text == WriteConfig(c)
  IN  {[text |-> text, meant |-> c]}
      \cup {[text |-> Splice(text, p, 1, Wrap(text[p])), meant |-> c] : p \in ValuesAt(text)}
      \cup {[text |-> Splice(text, p, 1, <<Word(<<"null">>)>>),
             meant |-> [c EXCEPT ![At(text, p)] = Default[At(text, p)]]] : p \in ValuesAt(text)}
      \cup {[text |-> Splice(text, p, 1, <<Word(Refused)>>), meant |-> Nothing] : p \in ValuesAt(text)}
      \cup {[text |-> Splice(text, p, 0, NewMember(value)), meant |-> c] :
              p \in KeysAt(text), value \in NewValues}
CutAt(f, n) == IF n = Len(f.text) THEN f ELSE [text |-> SubSeq(f.text, 1, n), meant |-> Nothing]

Init == /\ \E c \in [Params -> Values] : \E f \in Edited(c) : \E n \in 0 .. Len(f.text) :
             file = CutAt(f, n)
        /\ reader = [pos |-> 1, stack |-> <<>>, started |-> FALSE]
        /\ import = [path |-> <<>>, pending |-> Nothing, wrapped |-> FALSE, skip |-> NoSkip,
                     applied |-> 0, next |-> Default]
        /\ cfg = Default
        /\ result = "reading"
Next == Read
Spec == Init /\ [][Next]_fileVars

-----------------------------------------------------------------------------
(* Whatever the file is: only one whose outermost object has closed is     *)
(* taken, all of its settings at one time; one that ends early or is       *)
(* refused on the way has changed none.                                    *)
AllOrNothing ==
  /\ result # "imported" => cfg = Default
  /\ result = "imported" => cfg = import.next /\ reader.stack = <<>>

(* A file that the machine wrote brings its settings back, whatever a newer*)
(* firmware added; one that is cut, or holds a value that is refused,      *)
(* changes nothing.                                                        *)
FileRestores ==
  /\ AllOrNothing
  /\ result = "imported" => cfg = file.meant
  /\ result \in {"refused", "panics"} => file.meant = Nothing
=============================================================================
