---------------------------- MODULE MultipartProofs ----------------------------
(***************************************************************************)
(* Proofs about the parser of uploads, for any boundary, any parts that do *)
(* not hold the delimiter, and chunks of any size.                         *)
(***************************************************************************)
EXTENDS Multipart, SequenceTheorems, TLAPS

(* Two sequences, one behind the other.                                    *)
Follows(s, t, both) ==
  /\ Len(s) \in Nat /\ Len(t) \in Nat /\ Len(both) = Len(s) + Len(t)
  /\ \A i \in 1 .. Len(s) : both[i] = s[i]
  /\ \A i \in 1 .. Len(t) : both[Len(s) + i] = t[i]

LEMMA Joined == \A S : \A s, t \in Seq(S) : s \o t \in Seq(S) /\ Follows(s, t, s \o t)
PROOF
<1> SUFFICES ASSUME NEW S, NEW s \in Seq(S), NEW t \in Seq(S)
             PROVE  s \o t \in Seq(S) /\ Follows(s, t, s \o t)
  OBVIOUS
<1>1. Len(s) \in Nat /\ Len(t) \in Nat
  OBVIOUS
<1> QED BY <1>1, ConcatProperties DEF Follows

(* The delimiter begins with a character it does not hold again. *)
LEMMA DelimIs ==
  ASSUME UploadConstants
  PROVE  /\ Delim \in Seq(Characters) /\ Len(Delim) \in Nat /\ Len(Delim) > 4
         /\ DOMAIN Delim = 1 .. Len(Delim)
         /\ Delim[1] = CR /\ Delim[2] = LF /\ \A j \in 2 .. Len(Delim) : Delim[j] # CR
PROOF
<1> DEFINE head == <<CR, LF, Dash, Dash>>
<1>1. /\ head \in Seq(Characters) /\ Len(head) = 4
      /\ head[1] = CR /\ head[2] = LF /\ head[3] = Dash /\ head[4] = Dash
  BY DEF UploadConstants
<1>2. Boundary \in Seq(Characters) /\ Len(Boundary) \in Nat /\ Len(Boundary) > 0
  BY DEF UploadConstants
<1>3. \A j \in 1 .. Len(Boundary) : Boundary[j] # CR
  BY DEF UploadConstants
<1>4. Delim = head \o Boundary
  BY DEF Delim
<1> HIDE DEF head
<1>5. Delim \in Seq(Characters) /\ Follows(head, Boundary, Delim)
  BY <1>1, <1>2, <1>4, Joined, Zenon
<1>6. LF # CR /\ Dash # CR
  BY DEF LF, CR, Dash
<1>7. ASSUME NEW j \in 2 .. Len(Delim) PROVE Delim[j] # CR
  <2>1. CASE j <= 4
    <3>1. j = 2 \/ j = 3 \/ j = 4
      BY <2>1, <1>5, <1>2
    <3> QED BY <3>1, <1>1, <1>2, <1>5, <1>6 DEF Follows
  <2>2. CASE ~(j <= 4)
    <3>1. j - 4 \in 1 .. Len(Boundary) /\ j = 4 + (j - 4)
      BY <2>2, <1>1, <1>2, <1>5 DEF Follows
    <3> QED BY <3>1, <1>1, <1>3, <1>5 DEF Follows
  <2> QED BY <2>1, <2>2
<1>8. Delim[1] = CR /\ Delim[2] = LF
  BY <1>1, <1>2, <1>5 DEF Follows
<1>9. DOMAIN Delim = 1 .. Len(Delim)
  BY <1>5
<1>10. Len(Delim) \in Nat /\ Len(Delim) > 4
  BY <1>1, <1>2, <1>5 DEF Follows
<1> QED BY <1>5, <1>7, <1>8, <1>9, <1>10

(* Of the first c characters of a text the last m are held back, because   *)
(* they are how the delimiter begins.                                      *)
Partial(text, c, m) == /\ m \in 0 .. Len(Delim) - 1 /\ m <= c
                       /\ \A j \in 1 .. m : text[c - m + j] = Delim[j]

(* What is held back goes on, or begins anew, and is never the delimiter.  *)
LEMMA SearchGoesOn ==
  ASSUME UploadConstants, NEW text \in Seq(Characters), ~Holds(text),
         NEW c \in 0 .. Len(text) - 1, NEW m, Partial(text, c, m)
  PROVE  /\ text[c + 1] = Delim[m + 1] =>
              m + 1 < Len(Delim) /\ Partial(text, c + 1, m + 1)
         /\ Partial(text, c + 1, IF text[c + 1] = CR THEN 1 ELSE 0)
PROOF
<1>0. Len(text) \in Nat /\ Len(Delim) \in Nat /\ Len(Delim) > 4 /\ Delim[1] = CR
  BY DelimIs
<1>1. m \in 0 .. Len(Delim) - 1 /\ m <= c
  BY DEF Partial
<1>2. ASSUME text[c + 1] = Delim[m + 1]
      PROVE  m + 1 < Len(Delim) /\ Partial(text, c + 1, m + 1)
  <2>1. \A j \in 1 .. m + 1 : text[(c + 1) - (m + 1) + j] = Delim[j]
    <3> SUFFICES ASSUME NEW j \in 1 .. m + 1 PROVE text[c - m + j] = Delim[j]
      BY <1>0, <1>1
    <3>1. CASE j = m + 1
      BY <3>1, <1>2, <1>0, <1>1
    <3>2. CASE j # m + 1
      BY <3>2, <1>0, <1>1 DEF Partial
    <3> QED BY <3>1, <3>2
  <2>2. m + 1 # Len(Delim)
    <3> SUFFICES ASSUME m + 1 = Len(Delim) PROVE FALSE
      OBVIOUS
    <3>1. c - m \in 0 .. Len(text) - Len(Delim)
      BY <1>0, <1>1
    <3>2. \A j \in DOMAIN Delim : text[(c - m) + j] = Delim[j]
      BY <2>1, <1>0, <1>1, DelimIs
    <3> QED BY <3>1, <3>2 DEF Holds
  <2> QED BY <1>0, <1>1, <2>1, <2>2 DEF Partial
<1>3. Partial(text, c + 1, IF text[c + 1] = CR THEN 1 ELSE 0)
  <2>1. CASE text[c + 1] = CR
    <3>1. \A j \in 1 .. 1 : text[(c + 1) - 1 + j] = Delim[j]
      BY <2>1, <1>0
    <3> QED BY <2>1, <3>1, <1>0 DEF Partial
  <2>2. CASE text[c + 1] # CR
    BY <2>2, <1>0 DEF Partial
  <2> QED BY <2>1, <2>2
<1> QED BY <1>2, <1>3

(* What was held back, given after all, and the next character. *)
LEMMA HeldIs ==
  ASSUME UploadConstants,
         NEW text \in Seq(Characters), NEW c \in 0 .. Len(text), NEW m, Partial(text, c, m)
  PROVE  /\ SubSeq(text, 1, c - m) \o SubSeq(Delim, 1, m) = SubSeq(text, 1, c)
         /\ c < Len(text) =>
              SubSeq(text, 1, c - m) \o Append(SubSeq(Delim, 1, m), text[c + 1])
                = SubSeq(text, 1, c + 1)
PROOF
<1>0. Len(text) \in Nat /\ Len(Delim) \in Nat /\ Delim \in Seq(Characters)
  BY DelimIs
<1>1. m \in 0 .. Len(Delim) - 1 /\ m <= c /\ m \in Nat /\ c \in Nat /\ c <= Len(text)
  BY <1>0 DEF Partial
<1> DEFINE a == SubSeq(text, 1, c - m)
           h == SubSeq(Delim, 1, m)
           t == SubSeq(text, 1, c)
<1>2. a \in Seq(Characters) /\ Len(a) = c - m /\ \A i \in 1 .. c - m : a[i] = text[i]
  BY <1>0, <1>1, SubSeqProperties
<1>3. h \in Seq(Characters) /\ Len(h) = m /\ \A i \in 1 .. m : h[i] = Delim[i]
  BY <1>0, <1>1, SubSeqProperties
<1>4. t \in Seq(Characters) /\ Len(t) = c /\ \A i \in 1 .. c : t[i] = text[i]
  BY <1>0, <1>1, SubSeqProperties
<1> HIDE DEF a, h, t
<1>5. a \o h = t
  <2> DEFINE b == a \o h
  <2>1. b \in Seq(Characters) /\ Follows(a, h, b)
    BY <1>2, <1>3, Joined, Zenon
  <2> HIDE DEF b
  <2>2. ASSUME NEW i \in 1 .. c PROVE b[i] = t[i]
    <3>1. CASE i <= c - m
      <4>1. i \in 1 .. c - m /\ i \in 1 .. Len(a)
        BY <3>1, <1>1, <1>2
      <4> QED BY <4>1, <2>1, <1>2, <1>4 DEF Follows
    <3>2. CASE ~(i <= c - m)
      <4>1. PICK d \in 1 .. m : i = (c - m) + d
        <5>1. i - (c - m) \in 1 .. m /\ i = (c - m) + (i - (c - m))
          BY <3>2, <1>1
        <5> QED BY <5>1
      <4>2. Delim[d] = text[i]
        BY <4>1 DEF Partial
      <4>3. b[i] = h[d]
        BY <4>1, <2>1, <1>2, <1>3 DEF Follows
      <4>4. h[d] = Delim[d] /\ t[i] = text[i]
        BY <1>3, <1>4
      <4> QED BY <4>2, <4>3, <4>4
    <3> QED BY <3>1, <3>2
  <2>3. Len(b) = c
    BY <2>1, <1>1, <1>2, <1>3 DEF Follows
  <2>4. b = t
    BY <2>1, <2>2, <2>3, <1>4, SeqEqual
  <2> QED BY <2>4 DEF b
<1>6. ASSUME c < Len(text) PROVE a \o Append(h, text[c + 1]) = SubSeq(text, 1, c + 1)
  <2>1. text[c + 1] \in Characters
    BY <1>1, <1>6, ElementOfSeq
  <2>2. Append(h, text[c + 1]) = h \o <<text[c + 1]>> /\ <<text[c + 1]>> \in Seq(Characters)
    BY <1>3, <2>1, AppendIsConcat
  <2>3. a \o (h \o <<text[c + 1]>>) = (a \o h) \o <<text[c + 1]>>
    BY SMTT(30), <1>2, <1>3, <2>2, ConcatAssociative
  <2>4. SubSeq(text, 1, c + 1) = SubSeq(text, 1, c) \o <<text[c + 1]>>
    <3>1. 1 \in 1 .. Len(text) /\ c + 1 \in 1 .. Len(text) /\ (c + 1) - 1 = c
      BY <1>1, <1>6, <1>0
    <3> QED BY <3>1, SubSeqRecursiveSecond
  <2> QED BY <2>2, <2>3, <2>4, <1>5 DEF t
<1> QED BY <1>5, <1>6 DEF a, h, t

(* What is sent for a part, and at the end. *)
IsPart(part, item) ==
  /\ item \in Seq(Characters)
  /\ part.name \in Characters \ {CR, LF} /\ part.data \in Seq(Characters)
  /\ ~Holds(part.data) /\ Len(part.data) \in Nat
  /\ Len(item) = Len(Delim) + 7 + Len(part.data)
  /\ \A j \in 1 .. Len(Delim) : item[j] = Delim[j]
  /\ item[Len(Delim) + 1] = CR /\ item[Len(Delim) + 2] = LF
  /\ item[Len(Delim) + 3] = part.name
  /\ item[Len(Delim) + 4] = CR /\ item[Len(Delim) + 5] = LF
  /\ item[Len(Delim) + 6] = CR /\ item[Len(Delim) + 7] = LF
  /\ \A j \in 1 .. Len(part.data) : item[Len(Delim) + 7 + j] = part.data[j]

LEMMA PartIs ==
  ASSUME UploadConstants, NEW upload, upload.parts \in Uploads, NEW k \in DOMAIN upload.parts
  PROVE  IsPart(upload.parts[k], Item(upload, k))
PROOF
<1> DEFINE name == upload.parts[k].name
           data == upload.parts[k].data
           mid == <<CR, LF, name, CR, LF, CR, LF>>
           head == Delim \o mid
           item == Item(upload, k)
<1>1. name \in Characters \ {CR, LF} /\ data \in Seq(Characters) /\ ~Holds(data) /\ Len(data) \in Nat
  <2> DEFINE parts == upload.parts
             part == upload.parts[k]
             Kind == [name : Characters \ {CR, LF}, data : Seq(Characters)]
  <2>3. parts \in Seq(Kind) /\ \A i \in DOMAIN parts : ~Holds(parts[i].data)
    BY DEF UploadConstants
  <2>4. k \in DOMAIN parts
    OBVIOUS
  <2> HIDE DEF parts, Kind
  <2>5. parts[k] \in Kind
    BY <2>3, <2>4
  <2>1. part \in [name : Characters \ {CR, LF}, data : Seq(Characters)] /\ ~Holds(part.data)
    BY <2>3, <2>4, <2>5, Zenon DEF parts, Kind
  <2> HIDE DEF part
  <2>2. part.name \in Characters \ {CR, LF} /\ part.data \in Seq(Characters) /\ ~Holds(part.data)
    BY <2>1
  <2>6. Len(part.data) \in Nat
    BY <2>2
  <2> QED BY <2>2, <2>6 DEF part
<1>2. k # 0 /\ k # Len(upload.parts) + 1
  BY DEF UploadConstants
<1>3. item = head \o data
  BY <1>2, k \in DOMAIN upload.parts DEF Item
<1> HIDE DEF name, data, item
<1>4. CR \in Characters /\ LF \in Characters
  BY DEF UploadConstants
<1>5. /\ mid \in Seq(Characters) /\ Len(mid) = 7 /\ mid[1] = CR /\ mid[2] = LF /\ mid[3] = name
      /\ mid[4] = CR /\ mid[5] = LF /\ mid[6] = CR /\ mid[7] = LF
  BY <1>1, <1>4
<1> HIDE DEF mid
<1>6. head \in Seq(Characters) /\ Follows(Delim, mid, head)
  BY <1>5, DelimIs, Joined, Zenon
<1> HIDE DEF head
<1>7. item \in Seq(Characters) /\ Follows(head, data, item)
  BY <1>1, <1>3, <1>6, Joined, Zenon
<1>8. Len(head) = Len(Delim) + 7 /\ Len(Delim) \in Nat
  BY <1>5, <1>6 DEF Follows
<1>9. ASSUME NEW j \in 1 .. Len(Delim) PROVE item[j] = Delim[j]
  BY <1>6, <1>7, <1>8 DEF Follows
<1>10. ASSUME NEW i \in 1 .. 7 PROVE item[Len(Delim) + i] = mid[i]
  <2>1. Len(Delim) + i \in 1 .. Len(head) /\ i \in 1 .. Len(mid)
    BY <1>5, <1>8
  <2> QED BY <2>1, <1>6, <1>7 DEF Follows
<1>11. ASSUME NEW j \in 1 .. Len(data) PROVE item[Len(Delim) + 7 + j] = data[j]
  BY <1>7, <1>8 DEF Follows
<1>12. /\ item[Len(Delim) + 1] = CR /\ item[Len(Delim) + 2] = LF /\ item[Len(Delim) + 3] = name
       /\ item[Len(Delim) + 4] = CR /\ item[Len(Delim) + 5] = LF
       /\ item[Len(Delim) + 6] = CR /\ item[Len(Delim) + 7] = LF
  BY <1>5, <1>10
<1>13. Len(item) = Len(Delim) + 7 + Len(data)
  BY <1>1, <1>7, <1>8 DEF Follows
<1> QED BY <1>1, <1>7, <1>9, <1>11, <1>12, <1>13 DEF item, name, data, IsPart

IsEnd(item) ==
  /\ item \in Seq(Characters) /\ Len(item) = Len(Delim) + 4
  /\ \A j \in 1 .. Len(Delim) : item[j] = Delim[j]
  /\ item[Len(Delim) + 1] = Dash /\ item[Len(Delim) + 2] = Dash

LEMMA EndIs ==
  ASSUME UploadConstants, NEW upload, upload.parts \in Uploads
  PROVE  IsEnd(Item(upload, Len(upload.parts) + 1))
PROOF
<1> DEFINE item == Item(upload, Len(upload.parts) + 1)
           last == <<Dash, Dash, CR, LF>>
<1>1. last \in Seq(Characters) /\ Len(last) = 4 /\ last[1] = Dash /\ last[2] = Dash
  BY DEF UploadConstants
<1>2. item = Delim \o last
  <2>1. Len(upload.parts) + 1 # 0 /\ Len(upload.parts) + 1 \notin DOMAIN upload.parts
    BY DEF UploadConstants
  <2> QED BY <2>1 DEF Item
<1> HIDE DEF last, item
<1>3. item \in Seq(Characters) /\ Follows(Delim, last, item)
  BY <1>1, <1>2, DelimIs, Joined, Zenon
<1> QED BY <1>1, <1>3 DEF item, Follows, IsEnd

(* The headers end with an empty line. *)
LEMMA EndsIs ==
  ASSUME UploadConstants, NEW text \in Seq(Characters)
  PROVE  /\ IsSuffix(<<CR, LF, CR, LF>>, text) => Len(text) >= 4 /\ text[Len(text)] = LF
         /\ /\ Len(text) = 5 /\ text[2] = CR /\ text[3] = LF /\ text[4] = CR /\ text[5] = LF
            => IsSuffix(<<CR, LF, CR, LF>>, text)
PROOF
<1> DEFINE end == <<CR, LF, CR, LF>>
           mirror == Reverse(text)
           dne == Reverse(end)
<1>0. CR \in Characters /\ LF \in Characters
  BY DEF UploadConstants
<1>1. /\ Len(text) \in Nat /\ mirror \in Seq(Characters) /\ Len(mirror) = Len(text)
      /\ \A i \in 1 .. Len(text) : mirror[i] = text[(Len(text) - i) + 1]
  <2>1. Len(text) \in Nat
    OBVIOUS
  <2>2. ASSUME NEW i \in 1 .. Len(text) PROVE text[(Len(text) - i) + 1] \in Characters
    <3>1. (Len(text) - i) + 1 \in 1 .. Len(text)
      BY <2>1
    <3> QED BY <3>1, ElementOfSeq
  <2> QED BY <2>1, <2>2 DEF Reverse
<1>2. /\ dne = [i \in 1 .. 4 |-> end[(4 - i) + 1]] /\ dne \in Seq(Characters) /\ Len(dne) = 4
      /\ dne[1] = LF /\ dne[2] = CR /\ dne[3] = LF /\ dne[4] = CR
  BY <1>0 DEF Reverse
<1> HIDE DEF end, mirror, dne
<1>3. IsSuffix(end, text) <=>
        Len(dne) <= Len(mirror) /\ SubSeq(dne, 1, Len(dne)) = SubSeq(mirror, 1, Len(dne))
  BY Zenon DEF IsSuffix, IsPrefix, mirror, dne
<1>4. SubSeq(dne, 1, 4) = dne
  BY <1>2, SubSeqFull
<1>5. ASSUME Len(text) >= 4
      PROVE  /\ SubSeq(mirror, 1, 4) \in Seq(Characters) /\ Len(SubSeq(mirror, 1, 4)) = 4
             /\ \A i \in 1 .. 4 : SubSeq(mirror, 1, 4)[i] = text[(Len(text) - i) + 1]
  <2>1. \A i \in 1 .. 4 : mirror[i] \in Characters /\ mirror[i] = text[(Len(text) - i) + 1]
    BY <1>1, <1>5
  <2> QED BY <2>1, SubSeqProperties
<1>6. ASSUME IsSuffix(end, text) PROVE Len(text) >= 4 /\ text[Len(text)] = LF
  <2>1. Len(text) >= 4 /\ dne = SubSeq(mirror, 1, 4)
    BY <1>1, <1>2, <1>3, <1>4, <1>6
  <2>2. SubSeq(mirror, 1, 4)[1] = text[(Len(text) - 1) + 1] /\ (Len(text) - 1) + 1 = Len(text)
    BY <1>1, <1>5, <2>1
  <2> QED BY <2>1, <2>2, <1>2
<1>7. ASSUME Len(text) = 5, text[2] = CR, text[3] = LF, text[4] = CR, text[5] = LF
      PROVE  IsSuffix(end, text)
  <2> DEFINE last == SubSeq(mirror, 1, 4)
  <2>1. last \in Seq(Characters) /\ Len(last) = 4
        /\ last[1] = LF /\ last[2] = CR /\ last[3] = LF /\ last[4] = CR
    BY <1>5, <1>7
  <2> HIDE DEF last
  <2>2. dne = last
    BY <2>1, <1>2, SeqEqual
  <2> QED BY <2>2, <1>1, <1>2, <1>3, <1>4, <1>7 DEF last
<1> QED BY <1>6, <1>7 DEF end

-----------------------------------------------------------------------------
(* The text in which the parser looks for the delimiter, and how much of   *)
(* it has been read.  A preamble is read as if a line break went before.   *)
Searched ==
  CASE parser.phase = "body" -> sent.parts[Len(given)].data
    [] parser.phase = "preamble" ->
         IF sent.preamble = <<>> THEN <<>> ELSE Line \o sent.preamble
Home == IF parser.phase = "body" THEN Len(given) ELSE 0
Read == IF parser.phase = "body" THEN sent.at - Len(Delim) - 7 ELSE sent.at + 2

(* Within the text, what is neither held back nor given is yet to come; in *)
(* the delimiter that follows, exactly what was read of it is held back.   *)
GivenBut(m, c) ==
  parser.phase = "body" => given[Len(given)].data = SubSeq(Searched, 1, c - m)
Within ==
  /\ sent.item = Home /\ Read \in 0 .. Len(Searched) - 1
  /\ Partial(Searched, Read, parser.matched) /\ GivenBut(parser.matched, Read)
Behind ==
  /\ sent.item = Home + 1 /\ sent.at = 0
  /\ Partial(Searched, Len(Searched), parser.matched)
  /\ GivenBut(parser.matched, Len(Searched))
InDelimiter ==
  /\ sent.item = Home + 1 /\ sent.at \in 1 .. Len(Delim) - 1
  /\ parser.matched = sent.at /\ GivenBut(0, Len(Searched))

Sent == [parts : Uploads, preamble : Preambles, item : Nat, at : Nat]
Parsers == [phase : {"preamble", "after", "headers", "body", "done"},
            matched : 0 .. Len(Delim) - 1, first : Seq(Characters), headers : Seq(Characters),
            pushed : Nat]
Parts == Seq([name : Characters, data : Seq(Characters), ended : BOOLEAN])

Placed ==
  CASE parser.phase \in {"preamble", "body"} -> Within \/ Behind \/ InDelimiter
    [] parser.phase = "after" ->
         /\ sent.item = Len(given) + 1
         /\ \/ sent.at = Len(Delim) /\ parser.first = <<>>
            \/ sent.at = Len(Delim) + 1 /\ parser.first = <<Item(sent, sent.item)[sent.at]>>
    [] parser.phase = "headers" ->
         /\ sent.item = Len(given) + 1 /\ sent.item \in DOMAIN sent.parts
         /\ Len(parser.headers) \in 0 .. 4 /\ sent.at = Len(Delim) + 2 + Len(parser.headers)
         /\ \A i \in 1 .. Len(parser.headers) :
              parser.headers[i] = Item(sent, sent.item)[Len(Delim) + 2 + i]
    [] parser.phase = "done" ->
         /\ Len(given) = Len(sent.parts)
         /\ \/ sent.item = Len(given) + 1 /\ sent.at \in Len(Delim) + 2 .. Len(Delim) + 3
            \/ sent.item = Len(given) + 2

(* The inductive invariant: where parser and sender are, what was given.   *)
UploadInv ==
  /\ sent \in Sent /\ parser \in Parsers /\ given \in Parts /\ input \in Nat
  /\ Len(given) <= Len(sent.parts)
  /\ parser.phase = "preamble" => given = <<>>
  /\ parser.phase = "body" => given # <<>>
  /\ Placed
  /\ parser.pushed + parser.matched + input < ChunkMax + Len(Delim)
  /\ \A i \in DOMAIN given :
       /\ given[i].name = sent.parts[i].name
       /\ given[i].ended = (i < Len(given) \/ parser.phase # "body")
       /\ given[i].ended = TRUE => given[i].data = sent.parts[i].data

-----------------------------------------------------------------------------
(* What a character taken leaves. *)
LEMMA TakeIs ==
  ASSUME UploadConstants, UploadInv, Take
  PROVE  /\ sent' \in Sent /\ sent'.parts = sent.parts /\ sent'.preamble = sent.preamble
         /\ \A k : Item(sent', k) = Item(sent, k)
         /\ sent.item \in 0 .. Len(sent.parts) + 1 /\ sent.at \in Nat
         /\ sent.at + 1 < Len(Item(sent, sent.item)) =>
              sent'.item = sent.item /\ sent'.at = sent.at + 1
         /\ ~(sent.at + 1 < Len(Item(sent, sent.item))) =>
              sent'.item = sent.item + 1 /\ sent'.at = 0
         /\ input' \in Nat /\ input' < input
PROOF
<1>1. sent \in Sent /\ input \in Nat /\ Len(sent.parts) \in Nat
  <2>1. sent \in Sent /\ input \in Nat
    BY DEF UploadInv
  <2> QED BY <2>1 DEF Sent, UploadConstants
<1>2. sent.item \in 0 .. Len(sent.parts) + 1 /\ sent.at \in Nat
  BY <1>1 DEF Take, AllSent, Sent
<1>3. CASE sent.at + 1 < Len(Item(sent, sent.item))
  <2>1. sent' = [sent EXCEPT !.at = @ + 1] /\ input > 0
        /\ input' = IF sent'.item > Len(sent.parts) + 1 THEN 0 ELSE input - 1
    BY <1>3 DEF Take
  <2>2. /\ sent' \in Sent /\ sent'.parts = sent.parts /\ sent'.preamble = sent.preamble
        /\ sent'.item = sent.item /\ sent'.at = sent.at + 1
    BY <2>1, <1>1, <1>2 DEF Sent
  <2>3. \A k : Item(sent', k) = Item(sent, k)
    BY <2>2, Zenon DEF Item
  <2> QED BY <2>1, <2>2, <2>3, <1>1, <1>2, <1>3
<1>4. CASE ~(sent.at + 1 < Len(Item(sent, sent.item)))
  <2>1. sent' = [sent EXCEPT !.item = @ + 1, !.at = 0] /\ input > 0
        /\ input' = IF sent'.item > Len(sent.parts) + 1 THEN 0 ELSE input - 1
    BY <1>4 DEF Take
  <2>4. sent.item + 1 \in Nat
    BY <1>1, <1>2
  <2>2. /\ sent' \in Sent /\ sent'.parts = sent.parts /\ sent'.preamble = sent.preamble
        /\ sent'.item = sent.item + 1 /\ sent'.at = 0
    BY <2>1, <2>4, <1>1 DEF Sent
  <2>3. \A k : Item(sent', k) = Item(sent, k)
    BY <2>2, Zenon DEF Item
  <2> QED BY <2>1, <2>2, <2>3, <1>1, <1>2, <1>4
<1> QED BY <1>3, <1>4

(* Where the parser looks for the delimiter. *)
LEMMA SearchIs ==
  ASSUME UploadConstants, UploadInv, parser.phase \in {"preamble", "body"}
  PROVE  /\ Searched \in Seq(Characters) /\ ~Holds(Searched) /\ Len(Searched) \in Nat
         /\ Home \in 0 .. Len(sent.parts) /\ Home = Len(given)
         /\ sent.item = Home /\ Read \in 0 .. Len(Searched) - 1 =>
              /\ Char = Searched[Read + 1]
              /\ sent.at + 1 < Len(Item(sent, sent.item)) <=> Read + 1 < Len(Searched)
         /\ Len(Item(sent, Home + 1)) > Len(Delim)
         /\ \A j \in 1 .. Len(Delim) : Item(sent, Home + 1)[j] = Delim[j]
PROOF
<1>1. /\ sent \in Sent /\ given \in Parts /\ Len(given) <= Len(sent.parts)
      /\ parser.phase = "preamble" => given = <<>>
      /\ parser.phase = "body" => given # <<>>
  BY DEF UploadInv
<1>2. /\ sent.parts \in Uploads /\ sent.preamble \in Preambles /\ sent.at \in Nat
  BY <1>1 DEF Sent
<1>3. Len(sent.parts) \in Nat /\ DOMAIN sent.parts = 1 .. Len(sent.parts)
  BY <1>2 DEF UploadConstants
<1>4. Len(given) \in Nat /\ Home \in 0 .. Len(sent.parts) /\ Home = Len(given)
  <2>1. Len(given) \in Nat
    BY <1>1 DEF Parts
  <2>2. CASE parser.phase = "body"
    BY <1>1, <1>3, <2>1, <2>2 DEF Home
  <2>3. CASE parser.phase = "preamble"
    BY <1>1, <1>3, <2>1, <2>3 DEF Home
  <2> QED BY <2>2, <2>3
<1>5. /\ Len(Item(sent, Home + 1)) > Len(Delim)
      /\ \A j \in 1 .. Len(Delim) : Item(sent, Home + 1)[j] = Delim[j]
  <2>1. CASE Home < Len(sent.parts)
    <3>1. Home + 1 \in DOMAIN sent.parts
      BY <2>1, <1>3, <1>4
    <3>2. IsPart(sent.parts[Home + 1], Item(sent, Home + 1))
      BY <3>1, <1>2, PartIs
    <3> DEFINE item == Item(sent, Home + 1)
    <3> HIDE DEF item
    <3>3. IsPart(sent.parts[Home + 1], item)
      BY <3>2 DEF item
    <3>4. PICK n \in Nat : Len(item) = Len(Delim) + 7 + n
      BY <3>3, Zenon DEF IsPart
    <3>5. \A j \in 1 .. Len(Delim) : item[j] = Delim[j]
      BY <3>3, Zenon DEF IsPart
    <3>6. Len(item) > Len(Delim)
      BY <3>4, DelimIs
    <3> QED BY <3>5, <3>6 DEF item
  <2>2. CASE Home = Len(sent.parts)
    <3>2. IsEnd(Item(sent, Len(sent.parts) + 1))
      BY <1>2, EndIs
    <3>1. IsEnd(Item(sent, Home + 1))
      BY <3>2, <2>2, Zenon
    <3> QED BY SMTT(30), <3>1, DelimIs DEF IsEnd
  <2> QED BY <2>1, <2>2, <1>3, <1>4
<1>6. CASE parser.phase = "body"
  <2>1. Len(given) \in DOMAIN sent.parts
    <3>1. Len(given) # 0
      BY <1>1, <1>6 DEF Parts
    <3> QED BY <3>1, <1>1, <1>3, <1>4
  <2>2. Searched = sent.parts[Len(given)].data /\ Home = Len(given)
        /\ Read = sent.at - Len(Delim) - 7
    BY <1>6 DEF Searched, Home, Read
  <2> DEFINE data == sent.parts[Len(given)].data
             item == Item(sent, Len(given))
  <2>3. /\ data \in Seq(Characters) /\ ~Holds(data) /\ Len(data) \in Nat
        /\ Len(item) = Len(Delim) + 7 + Len(data)
        /\ \A j \in 1 .. Len(data) : item[Len(Delim) + 7 + j] = data[j]
    <3>1. IsPart(sent.parts[Len(given)], item)
      BY <2>1, <1>2, PartIs
    <3> QED BY <3>1 DEF IsPart
  <2> HIDE DEF data, item
  <2>4. ASSUME sent.item = Home, Read \in 0 .. Len(data) - 1
        PROVE  /\ Char = data[Read + 1]
               /\ sent.at + 1 < Len(item) <=> Read + 1 < Len(data)
    <3>1. Char = item[sent.at + 1]
      BY <2>4, <2>2 DEF Char, item
    <3>3. Read = sent.at - Len(Delim) - 7 /\ Len(data) \in Nat /\ Len(Delim) \in Nat
      BY <2>2, <2>3, DelimIs
    <3>2. Read + 1 \in 1 .. Len(data) /\ sent.at + 1 = Len(Delim) + 7 + (Read + 1)
      BY <3>3, <2>4, <1>2
    <3> QED BY <3>1, <3>2, <2>3, <1>2, DelimIs
  <2> QED BY <2>2, <2>3, <2>4, <1>4, <1>5 DEF data, item
<1>7. CASE parser.phase = "preamble"
  <2>1. Home = 0 /\ Read = sent.at + 2
        /\ Searched = IF sent.preamble = <<>> THEN <<>> ELSE Line \o sent.preamble
    BY <1>7 DEF Searched, Home, Read
  <2>2. Item(sent, 0) = sent.preamble
    BY <1>3 DEF Item
  <2>3. CASE sent.preamble = <<>>
    <3>1. Searched = <<>> /\ Len(Searched) = 0
      BY <2>1, <2>3
    <3>2. ~Holds(<<>>)
      BY DelimIs DEF Holds
    <3> QED BY <3>1, <3>2, <2>1, <1>4, <1>5
  <2>4. CASE sent.preamble # <<>>
    <3>1. Searched = Line \o sent.preamble
      BY <2>1, <2>4
    <3>2. sent.preamble \in Seq(Characters) /\ ~Holds(Line \o sent.preamble)
      BY <1>2 DEF UploadConstants
    <3>3. Line \in Seq(Characters) /\ Len(Line) = 2
      BY DEF Line, UploadConstants
    <3>4. Searched \in Seq(Characters) /\ Follows(Line, sent.preamble, Searched)
      BY <3>1, <3>2, <3>3, Joined, Zenon
    <3>5. ~Holds(Searched)
      BY <3>1, <3>2, Zenon
    <3>6. Len(Searched) = 2 + Len(sent.preamble) /\ Len(sent.preamble) \in Nat
          /\ \A j \in 1 .. Len(sent.preamble) : Searched[2 + j] = sent.preamble[j]
      BY <3>3, <3>4 DEF Follows
    <3>7. ASSUME sent.item = Home, Read \in 0 .. Len(Searched) - 1
          PROVE  /\ Char = Searched[Read + 1]
                 /\ sent.at + 1 < Len(Item(sent, sent.item)) <=> Read + 1 < Len(Searched)
      <4>1. Char = sent.preamble[sent.at + 1] /\ Item(sent, sent.item) = sent.preamble
        BY <3>7, <2>1, <2>2 DEF Char
      <4>2. sent.at + 1 \in 1 .. Len(sent.preamble) /\ Read + 1 = 2 + (sent.at + 1)
        BY <3>6, <3>7, <2>1, <1>2
      <4>3. sent.at + 1 < Len(sent.preamble) <=> Read + 1 < Len(Searched)
        BY <3>6, <4>2, <1>2
      <4>4. sent.preamble[sent.at + 1] = Searched[Read + 1]
        BY <3>6, <4>2
      <4> QED BY <4>1, <4>3, <4>4
    <3>8. Searched \in Seq(Characters) /\ Len(Searched) \in Nat
      BY <3>4
    <3> QED BY <3>5, <3>7, <3>8, <1>4, <1>5
  <2> QED BY <2>3, <2>4
<1> QED BY <1>6, <1>7

(* In the text, the search goes on behind the character taken, ...         *)
LEMMA WithinGoes ==
  ASSUME UploadConstants, UploadInv, Take, parser.phase \in {"preamble", "body"},
         parser'.phase = parser.phase, Len(given') = Len(given),
         sent.item = Home, Read \in 0 .. Len(Searched) - 1,
         Partial(Searched, Read + 1, parser'.matched),
         parser.phase = "body" =>
           given'[Len(given)].data = SubSeq(Searched, 1, Read + 1 - parser'.matched)
  PROVE  Placed'
PROOF
<1>1. /\ sent'.parts = sent.parts /\ sent'.preamble = sent.preamble /\ sent.at \in Nat
      /\ sent.at + 1 < Len(Item(sent, sent.item)) => sent'.item = sent.item /\ sent'.at = sent.at + 1
      /\ ~(sent.at + 1 < Len(Item(sent, sent.item))) => sent'.item = sent.item + 1 /\ sent'.at = 0
  BY TakeIs
<1>2. /\ sent.at + 1 < Len(Item(sent, sent.item)) <=> Read + 1 < Len(Searched)
      /\ Len(Searched) \in Nat /\ Home \in Nat
  BY SearchIs
<1>3. Searched' = Searched /\ Home' = Home
  BY <1>1 DEF Searched, Home
<1>4. parser'.matched \in Int /\ Read \in Int /\ Len(Searched) \in Int
  <2>1. parser'.matched \in 0 .. Len(Delim) - 1
    BY DEF Partial
  <2> QED BY <2>1, <1>2, DelimIs
<1>5. CASE Read + 1 < Len(Searched)
  <2>1. sent'.item = sent.item /\ sent'.at = sent.at + 1
    BY <1>1, <1>2, <1>5
  <2>2. Read' = Read + 1
    <3>1. Len(Delim) \in Nat /\ sent.at \in Nat
      BY <1>1, DelimIs
    <3>2. CASE parser.phase = "body"
      <4>1. Read = sent.at - Len(Delim) - 7 /\ Read' = sent'.at - Len(Delim) - 7
        BY <3>2 DEF Read
      <4> QED BY <4>1, <3>1, <2>1
    <3>3. CASE parser.phase = "preamble"
      <4>1. Read = sent.at + 2 /\ Read' = sent'.at + 2
        BY <3>3 DEF Read
      <4> QED BY <4>1, <3>1, <2>1
    <3> QED BY <3>2, <3>3
  <2>3. sent'.item = Home' /\ Read' \in 0 .. Len(Searched') - 1
    BY <2>1, <2>2, <1>2, <1>3, <1>5
  <2>4. Partial(Searched', Read', parser'.matched)
    BY <2>2, <1>3
  <2>5. GivenBut(parser.matched, Read)'
    <3>1. ASSUME parser.phase = "body"
          PROVE  given'[Len(given')].data = SubSeq(Searched', 1, Read' - parser'.matched)
      <4>1. given'[Len(given)].data = SubSeq(Searched, 1, Read + 1 - parser'.matched)
        BY <3>1
      <4>2. given'[Len(given')] = given'[Len(given)]
        OBVIOUS
      <4>3. SubSeq(Searched', 1, Read' - parser'.matched) = SubSeq(Searched, 1, Read + 1 - parser'.matched)
        <5>1. Read' - parser'.matched = Read + 1 - parser'.matched
          BY <2>2, <1>4
        <5> QED BY <5>1, <1>3, Zenon
      <4> QED BY <4>1, <4>2, <4>3
    <3> QED BY <3>1 DEF GivenBut
  <2> QED BY <2>3, <2>4, <2>5 DEF Placed, Within
<1>6. CASE ~(Read + 1 < Len(Searched))
  <2>1. sent'.item = sent.item + 1 /\ sent'.at = 0
    BY <1>1, <1>2, <1>6
  <2>2. Read + 1 = Len(Searched)
    BY <1>2, <1>6
  <2>3. sent'.item = Home' + 1 /\ sent'.at = 0
    BY <2>1, <1>3
  <2>4. Partial(Searched', Len(Searched'), parser'.matched)
    BY <2>2, <1>3
  <2>5. GivenBut(parser.matched, Len(Searched))'
    <3>1. ASSUME parser.phase = "body"
          PROVE  given'[Len(given')].data = SubSeq(Searched', 1, Len(Searched') - parser'.matched)
      <4>1. given'[Len(given)].data = SubSeq(Searched, 1, Read + 1 - parser'.matched)
        BY <3>1
      <4>2. given'[Len(given')] = given'[Len(given)]
        OBVIOUS
      <4>3. Read + 1 - parser'.matched = Len(Searched) - parser'.matched
        BY <2>2, <1>4
      <4>4. SubSeq(Searched', 1, Len(Searched') - parser'.matched)
              = SubSeq(Searched, 1, Read + 1 - parser'.matched)
        BY <4>3, <1>3, Zenon
      <4> QED BY <4>1, <4>2, <4>4
    <3> QED BY <3>1 DEF GivenBut
  <2> QED BY <2>3, <2>4, <2>5 DEF Placed, Behind
<1> QED BY <1>5, <1>6

(* ... and in the delimiter all that was read of it is held back.          *)
LEMMA DelimiterGoes ==
  ASSUME UploadConstants, UploadInv, Take, parser.phase \in {"preamble", "body"},
         parser'.phase = parser.phase, Len(given') = Len(given),
         sent.item = Home + 1, sent.at \in 0 .. Len(Delim) - 2,
         parser'.matched = sent.at + 1,
         parser.phase = "body" => given'[Len(given)].data = SubSeq(Searched, 1, Len(Searched))
  PROVE  Placed'
PROOF
<1>1. /\ sent'.parts = sent.parts /\ sent'.preamble = sent.preamble
      /\ sent.at + 1 < Len(Item(sent, sent.item)) => sent'.item = sent.item /\ sent'.at = sent.at + 1
  BY TakeIs
<1>2. Len(Item(sent, sent.item)) > Len(Delim) /\ Len(Searched) \in Nat
  BY SearchIs
<1>3. Searched' = Searched /\ Home' = Home
  BY <1>1 DEF Searched, Home
<1>4. sent'.item = sent.item /\ sent'.at = sent.at + 1 /\ sent'.at \in 1 .. Len(Delim) - 1
  <2>1. Len(Item(sent, sent.item)) \in Int
    BY <1>2, TakeIs, SearchIs, DelimIs
  <2> QED BY <1>1, <1>2, DelimIs
<1>5. GivenBut(0, Len(Searched))'
  <2>1. Len(Searched) - 0 = Len(Searched)
    BY <1>2
  <2> QED BY <2>1, <1>3 DEF GivenBut
<1> QED BY <1>3, <1>4, <1>5 DEF Placed, InDelimiter

(* What the sink is given goes behind what it has of the part. *)
LEMMA GivesIs ==
  ASSUME UploadConstants, UploadInv, parser.phase \in {"preamble", "body"},
         NEW data \in Seq(Characters), NEW ended \in BOOLEAN, Gives(data, ended)
  PROVE  /\ given' \in Parts /\ Len(given') = Len(given)
         /\ parser.phase = "preamble" => given' = given
         /\ parser.phase = "body" =>
              /\ Len(given) \in 1 .. Len(given)
              /\ \A i \in 1 .. Len(given) - 1 : given'[i] = given[i]
              /\ given'[Len(given)].name = given[Len(given)].name
              /\ given'[Len(given)].data = given[Len(given)].data \o data
              /\ given'[Len(given)].ended = ended
PROOF
<1> DEFINE Kind == [name : Characters, data : Seq(Characters), ended : BOOLEAN]
           last == Len(given)
<1>1. given \in Seq(Kind) /\ parser.phase = "body" => given \in Seq(Kind) /\ given # <<>>
  BY DEF UploadInv, Parts
<1>2. CASE parser.phase = "preamble"
  BY <1>1, <1>2 DEF Gives, UploadInv
<1>3. CASE parser.phase = "body"
  <2>1. given \in Seq(Kind) /\ given # <<>>
    BY <1>3 DEF UploadInv, Parts
  <2>2. last \in Nat \ {0} /\ last \in 1 .. Len(given)
    BY <2>1, EmptySeq
  <2>4. given[last] \in Kind
    <3> HIDE DEF Kind, last
    <3> QED BY <2>1, <2>2, ElementOfSeq
  <2> DEFINE new == [name |-> given[last].name, data |-> given[last].data \o data, ended |-> ended]
  <2>5. given[last].data \in Seq(Characters) /\ given[last].name \in Characters
        /\ given[last] = [name |-> given[last].name, data |-> given[last].data,
                          ended |-> given[last].ended]
    BY <2>4
  <2>6. given[last].data \o data \in Seq(Characters)
    BY <2>5, Joined, Zenon
  <2>7. new \in Kind
    BY <2>5, <2>6
  <2>8. given' = [given EXCEPT ![last] = new]
    BY <1>3, Zenon DEF Gives
  <2> HIDE DEF Kind, last
  <2>9. /\ given' \in Seq(Kind) /\ Len(given') = Len(given) /\ given'[last] = new
        /\ \A i \in 1 .. Len(given) : i # last => given'[i] = given[i]
    <3> HIDE DEF new
    <3> QED BY <2>1, <2>2, <2>7, <2>8, ExceptSeq
  <2> QED BY <1>3, <2>2, <2>9 DEF Parts, Kind, last
<1> QED BY <1>2, <1>3

(* A step of the search that leaves parser and sender in their places      *)
(* keeps the invariant.                                                    *)
LEMMA SearchKeeps ==
  ASSUME UploadConstants, UploadInv, Take, parser.phase \in {"preamble", "body"},
         NEW data \in Seq(Characters), Gives(data, FALSE),
         parser' \in Parsers, parser'.phase = parser.phase, Placed',
         parser'.pushed + parser'.matched <= parser.pushed + parser.matched + 1
  PROVE  UploadInv'
PROOF
<1>1. /\ given' \in Parts /\ Len(given') = Len(given)
      /\ parser.phase = "preamble" => given' = given
      /\ parser.phase = "body" =>
           /\ Len(given) \in 1 .. Len(given)
           /\ \A i \in 1 .. Len(given) - 1 : given'[i] = given[i]
           /\ given'[Len(given)].name = given[Len(given)].name
           /\ given'[Len(given)].ended = FALSE
  BY GivesIs
<1>2. sent' \in Sent /\ sent'.parts = sent.parts /\ input' \in Nat /\ input' < input
  BY TakeIs
<1>3. /\ parser \in Parsers /\ given \in Parts /\ input \in Nat /\ Len(given) <= Len(sent.parts)
      /\ parser.phase = "preamble" => given = <<>>
      /\ parser.phase = "body" => given # <<>>
      /\ parser.pushed + parser.matched + input < ChunkMax + Len(Delim)
  BY DEF UploadInv
<1>4. DOMAIN given = 1 .. Len(given) /\ DOMAIN given' = 1 .. Len(given) /\ Len(given) \in Nat
  BY <1>1, <1>3 DEF Parts
<1>5. parser'.pushed + parser'.matched + input' < ChunkMax + Len(Delim)
  <2>1. /\ parser'.pushed \in Nat /\ parser'.matched \in Nat
        /\ parser.pushed \in Nat /\ parser.matched \in Nat
    BY <1>3, DelimIs DEF Parsers
  <2>2. input \in Nat
    BY <1>3
  <2>3. input' \in Nat /\ input' < input
    BY <1>2
  <2>4. ChunkMax \in Nat /\ Len(Delim) \in Nat
    BY DelimIs DEF UploadConstants
  <2>5. parser.pushed + parser.matched + input < ChunkMax + Len(Delim)
    BY <1>3
  <2>6. parser'.pushed + parser'.matched <= parser.pushed + parser.matched + 1
    OBVIOUS
  <2> QED BY ONLY SMTT(30), <2>1, <2>2, <2>3, <2>4, <2>5, <2>6
<1>6. parser'.phase = "preamble" => given' = <<>>
  BY <1>1, <1>3
<1>7. parser'.phase = "body" => given' # <<>>
  BY <1>1, <1>4
<1>8. ASSUME NEW i \in DOMAIN given'
      PROVE  /\ given'[i].name = sent'.parts[i].name
             /\ given'[i].ended = (i < Len(given') \/ parser'.phase # "body")
             /\ given'[i].ended = TRUE => given'[i].data = sent'.parts[i].data
  <2>0. i \in DOMAIN given /\ i \in 1 .. Len(given)
    BY <1>4
  <2>1. /\ given[i].name = sent.parts[i].name
        /\ given[i].ended = (i < Len(given) \/ parser.phase # "body")
        /\ given[i].ended = TRUE => given[i].data = sent.parts[i].data
    BY <2>0 DEF UploadInv
  <2>2. CASE parser.phase = "preamble"
    BY <2>1, <2>2, <1>1, <1>2, Zenon
  <2>3. CASE parser.phase = "body" /\ i # Len(given)
    <3>1. given'[i] = given[i]
      BY <2>0, <2>3, <1>1, <1>4
    <3> QED BY <3>1, <2>1, <1>1, <1>2, Zenon
  <2>4. CASE parser.phase = "body" /\ i = Len(given)
    <3>1. ~(i < Len(given'))
      BY <2>4, <1>1, <1>4
    <3>2. given'[i].name = given[i].name /\ given'[i].ended = FALSE
      BY <2>4, <1>1
    <3> QED BY <3>1, <3>2, <2>1, <2>4, <1>2, Zenon
  <2> QED BY <2>2, <2>3, <2>4
<1> QED BY <1>1, <1>2, <1>3, <1>5, <1>6, <1>7, <1>8 DEF UploadInv

(* What may come next while the parser searches. *)
LEMMA CharIs ==
  ASSUME UploadConstants, UploadInv, parser.phase \in {"preamble", "body"}
  PROVE  /\ parser \in Parsers /\ parser.matched \in 0 .. Len(Delim) - 1
         /\ Within \/ Behind \/ InDelimiter
         /\ Within => Char = Searched[Read + 1]
         /\ Behind => Char = CR
         /\ InDelimiter => Char = Delim[parser.matched + 1]
PROOF
<1>1. parser \in Parsers /\ Placed
  BY DEF UploadInv
<1>2. parser.matched \in 0 .. Len(Delim) - 1
  BY <1>1 DEF Parsers
<1>3. Within \/ Behind \/ InDelimiter
  BY <1>1 DEF Placed
<1>4. Within => Char = Searched[Read + 1]
  BY SearchIs DEF Within
<1>5. \A j \in 1 .. Len(Delim) : Item(sent, Home + 1)[j] = Delim[j]
  BY SearchIs
<1>6. Behind => Char = CR
  <2>1. 1 \in 1 .. Len(Delim)
    BY DelimIs
  <2>2. Item(sent, Home + 1)[1] = CR
    BY <2>1, <1>5, DelimIs
  <2>3. 0 + 1 = 1
    OBVIOUS
  <2> QED BY <2>2, <2>3, Zenon DEF Behind, Char
<1>7. InDelimiter => Char = Delim[parser.matched + 1]
  <2> SUFFICES ASSUME InDelimiter PROVE Char = Delim[parser.matched + 1]
    OBVIOUS
  <2>1. sent.item = Home + 1 /\ sent.at \in 1 .. Len(Delim) - 1 /\ parser.matched = sent.at
    BY DEF InDelimiter
  <2>2. sent.at + 1 \in 1 .. Len(Delim)
    BY <2>1, DelimIs
  <2>3. Char = Item(sent, Home + 1)[sent.at + 1]
    BY <2>1 DEF Char
  <2> QED BY <2>1, <2>2, <2>3, <1>5
<1> QED BY <1>1, <1>2, <1>3, <1>4, <1>6, <1>7

(* The data of the part that is being given. *)
LEMMA LastIs ==
  ASSUME UploadConstants, UploadInv, parser.phase = "body"
  PROVE  /\ Len(given) \in 1 .. Len(given) /\ Len(given) \in DOMAIN given
         /\ given[Len(given)].data \in Seq(Characters)
         /\ Searched = sent.parts[Len(given)].data
PROOF
<1> DEFINE Kind == [name : Characters, data : Seq(Characters), ended : BOOLEAN]
<1>1. given \in Seq(Kind) /\ given # <<>>
  BY DEF UploadInv, Parts
<1> HIDE DEF Kind
<1>2. Len(given) \in 1 .. Len(given) /\ Len(given) \in DOMAIN given
  BY <1>1, EmptySeq
<1>3. given[Len(given)] \in Kind
  BY <1>1, <1>2, ElementOfSeq
<1>4. given[Len(given)].data \in Seq(Characters)
  BY <1>3 DEF Kind
<1> QED BY <1>2, <1>4 DEF Searched

(* A character that matches is held back. *)
LEMMA MatchKeeps ==
  ASSUME UploadConstants, UploadInv, Match, parser.matched + 1 # Len(Delim)
  PROVE  UploadInv'
PROOF
<1>1. /\ Take /\ parser.phase \in {"preamble", "body"} /\ Char = Delim[parser.matched + 1]
      /\ parser' = [parser EXCEPT !.matched = @ + 1] /\ Gives(<<>>, FALSE)
  BY DEF Match
<1>2. parser \in Parsers /\ parser.matched \in 0 .. Len(Delim) - 1
  BY <1>1, CharIs
<1>3. parser.matched + 1 \in 0 .. Len(Delim) - 1
  BY <1>2, DelimIs
<1>4. /\ parser' \in Parsers /\ parser'.phase = parser.phase /\ parser'.matched = parser.matched + 1
      /\ parser'.pushed = parser.pushed
  BY <1>1, <1>2, <1>3 DEF Parsers
<1>5. parser'.pushed + parser'.matched <= parser.pushed + parser.matched + 1
  <2>1. parser.pushed \in Nat
    BY <1>2 DEF Parsers
  <2> QED BY <2>1, <1>2, <1>4, DelimIs
<1>6. <<>> \in Seq(Characters)
  OBVIOUS
<1>7. Len(given') = Len(given)
  BY <1>1, <1>6, GivesIs
<1>8. parser.phase = "body" => given'[Len(given)].data = given[Len(given)].data
  <2> SUFFICES ASSUME parser.phase = "body" PROVE given'[Len(given)].data = given[Len(given)].data
    OBVIOUS
  <2>1. given'[Len(given)].data = given[Len(given)].data \o <<>> /\ Len(given) \in 1 .. Len(given)
    BY <1>1, <1>6, GivesIs
  <2>2. given[Len(given)].data \in Seq(Characters)
    BY LastIs
  <2> QED BY <2>1, <2>2, ConcatEmptySeq
<1>9. Placed'
  <2>1. CASE Within
    <3>1. /\ sent.item = Home /\ Read \in 0 .. Len(Searched) - 1
          /\ Partial(Searched, Read, parser.matched) /\ GivenBut(parser.matched, Read)
      BY <2>1 DEF Within
    <3>2. Searched \in Seq(Characters) /\ ~Holds(Searched) /\ Char = Searched[Read + 1]
      BY <2>1, <1>1, SearchIs, CharIs
    <3>3. Partial(Searched, Read + 1, parser'.matched)
      BY <3>1, <3>2, <1>1, <1>4, SearchGoesOn
    <3>4. Read + 1 - parser'.matched = Read - parser.matched
      BY <3>1, <1>2, <1>4, DelimIs
    <3>5. parser.phase = "body" =>
            given'[Len(given)].data = SubSeq(Searched, 1, Read + 1 - parser'.matched)
      BY <3>1, <3>4, <1>8, Zenon DEF GivenBut
    <3> QED BY <3>1, <3>3, <3>5, <1>1, <1>4, <1>7, WithinGoes
  <2>2. CASE Behind
    <3>1. parser.matched = 0
      <4>1. Delim[parser.matched + 1] = CR
        BY <2>2, <1>1, CharIs
      <4> QED BY <4>1, <1>2, DelimIs
    <3>2. /\ sent.item = Home + 1 /\ sent.at = 0 /\ GivenBut(0, Len(Searched))
      BY <2>2, <3>1 DEF Behind
    <3>3. Len(Searched) - 0 = Len(Searched)
      BY <1>1, SearchIs
    <3>4. parser.phase = "body" => given'[Len(given)].data = SubSeq(Searched, 1, Len(Searched))
      BY <3>2, <3>3, <1>8, Zenon DEF GivenBut
    <3>5. sent.at \in 0 .. Len(Delim) - 2 /\ parser'.matched = sent.at + 1
      BY <3>1, <3>2, <1>4, DelimIs
    <3> QED BY <3>2, <3>4, <3>5, <1>1, <1>4, <1>7, DelimiterGoes
  <2>3. CASE InDelimiter
    <3>1. /\ sent.item = Home + 1 /\ sent.at = parser.matched /\ GivenBut(0, Len(Searched))
      BY <2>3 DEF InDelimiter
    <3>3. Len(Searched) - 0 = Len(Searched)
      BY <1>1, SearchIs
    <3>4. parser.phase = "body" => given'[Len(given)].data = SubSeq(Searched, 1, Len(Searched))
      BY <3>1, <3>3, <1>8, Zenon DEF GivenBut
    <3>5. sent.at \in 0 .. Len(Delim) - 2 /\ parser'.matched = sent.at + 1
      BY <3>1, <1>2, <1>3, <1>4, DelimIs
    <3> QED BY <3>1, <3>4, <3>5, <1>1, <1>4, <1>7, DelimiterGoes
  <2> QED BY <2>1, <2>2, <2>3, <1>1, CharIs
<1> QED BY <1>1, <1>4, <1>5, <1>6, <1>9, SearchKeeps

(* The last character of the delimiter ends the part. *)
LEMMA FoundKeeps ==
  ASSUME UploadConstants, UploadInv, Match, parser.matched + 1 = Len(Delim)
  PROVE  UploadInv'
PROOF
<1>1. /\ Take /\ parser.phase \in {"preamble", "body"} /\ Char = Delim[parser.matched + 1]
      /\ parser' = [parser EXCEPT !.phase = "after", !.matched = 0, !.first = <<>>]
      /\ Gives(<<>>, TRUE)
  BY DEF Match
<1>2. parser \in Parsers /\ parser.matched \in 0 .. Len(Delim) - 1
  BY <1>1, CharIs
<1>3. /\ parser' \in Parsers /\ parser'.phase = "after" /\ parser'.matched = 0
      /\ parser'.first = <<>> /\ parser'.pushed = parser.pushed
  <2>1. 0 \in 0 .. Len(Delim) - 1
    BY DelimIs
  <2> DEFINE none == <<>>
  <2>2. none \in Seq(Characters) /\ parser' = [parser EXCEPT !.phase = "after", !.matched = 0, !.first = none]
    BY <1>1
  <2> HIDE DEF none
  <2>3. /\ parser' \in Parsers /\ parser'.phase = "after" /\ parser'.matched = 0
        /\ parser'.first = none /\ parser'.pushed = parser.pushed
    BY <2>1, <2>2, <1>2 DEF Parsers
  <2> QED BY <2>3 DEF none
<1>4. InDelimiter
  <2>1. ~Within
    <3> SUFFICES ASSUME Within PROVE FALSE
      OBVIOUS
    <3>1. /\ sent.item = Home /\ Read \in 0 .. Len(Searched) - 1
          /\ Partial(Searched, Read, parser.matched)
      BY DEF Within
    <3>2. Searched \in Seq(Characters) /\ ~Holds(Searched) /\ Char = Searched[Read + 1]
      BY <1>1, SearchIs, CharIs
    <3>3. parser.matched + 1 < Len(Delim)
      BY <3>1, <3>2, <1>1, SearchGoesOn
    <3> QED BY <3>3, <1>2, DelimIs
  <2>2. ~Behind
    <3> SUFFICES ASSUME Behind PROVE FALSE
      OBVIOUS
    <3>1. Delim[Len(Delim)] = CR
      BY <1>1, CharIs
    <3> QED BY <3>1, DelimIs
  <2> QED BY <2>1, <2>2, <1>1, CharIs
<1>5. /\ sent.item = Home + 1 /\ sent.at = parser.matched /\ GivenBut(0, Len(Searched))
  BY <1>4 DEF InDelimiter
<1>6. <<>> \in Seq(Characters)
  OBVIOUS
<1>7. /\ given' \in Parts /\ Len(given') = Len(given)
      /\ parser.phase = "preamble" => given' = given
      /\ parser.phase = "body" =>
           /\ \A i \in 1 .. Len(given) - 1 : given'[i] = given[i]
           /\ given'[Len(given)].name = given[Len(given)].name
           /\ given'[Len(given)].data = given[Len(given)].data \o <<>>
           /\ given'[Len(given)].ended = TRUE
  BY <1>1, <1>6, GivesIs
<1>8. sent' \in Sent /\ sent'.parts = sent.parts /\ input' \in Nat /\ input' < input
  BY <1>1, TakeIs
<1>9. sent'.item = Len(given') + 1 /\ sent'.at = Len(Delim)
  <2>1. Len(Item(sent, sent.item)) > Len(Delim) /\ Home = Len(given)
    BY <1>1, <1>5, SearchIs
  <2>2. sent.at + 1 = Len(Delim)
    BY <1>5
  <2>3. sent'.item = sent.item /\ sent'.at = sent.at + 1
    <3>1. sent.at + 1 < Len(Item(sent, sent.item))
      BY <2>1, <2>2, DelimIs
    <3> QED BY <3>1, <1>1, TakeIs
  <2> QED BY <2>1, <2>2, <2>3, <1>5, <1>7
<1>10. Placed'
  BY <1>3, <1>9 DEF Placed
<1>11. /\ given \in Parts /\ input \in Nat /\ Len(given) <= Len(sent.parts)
  BY DEF UploadInv
<1>12. DOMAIN given = 1 .. Len(given) /\ DOMAIN given' = 1 .. Len(given) /\ Len(given) \in Nat
  BY <1>7, <1>11 DEF Parts
<1>13. parser'.pushed + parser'.matched + input' < ChunkMax + Len(Delim)
  <2>1. parser.pushed \in Nat /\ parser'.pushed = parser.pushed
    BY <1>2, <1>3 DEF Parsers
  <2>2. parser.matched \in Nat /\ parser'.matched = 0
    BY <1>2, <1>3, DelimIs
  <2>3. input \in Nat
    BY <1>11
  <2>4. input' \in Nat /\ input' < input
    BY <1>8
  <2>5. ChunkMax \in Nat /\ Len(Delim) \in Nat
    BY DelimIs DEF UploadConstants
  <2>6. parser.pushed + parser.matched + input < ChunkMax + Len(Delim)
    BY DEF UploadInv
  <2> QED BY ONLY <2>1, <2>2, <2>3, <2>4, <2>5, <2>6
<1>14. ASSUME NEW i \in DOMAIN given'
       PROVE  /\ given'[i].name = sent'.parts[i].name
              /\ given'[i].ended = (i < Len(given') \/ parser'.phase # "body")
              /\ given'[i].ended = TRUE => given'[i].data = sent'.parts[i].data
  <2>0. i \in DOMAIN given /\ i \in 1 .. Len(given)
    BY <1>12
  <2>1. /\ given[i].name = sent.parts[i].name
        /\ given[i].ended = (i < Len(given) \/ parser.phase # "body")
        /\ given[i].ended = TRUE => given[i].data = sent.parts[i].data
    BY <2>0 DEF UploadInv
  <2>2. (i < Len(given') \/ parser'.phase # "body") = TRUE
    BY <1>3
  <2>3. CASE parser.phase = "preamble"
    <3>1. (i < Len(given) \/ parser.phase # "body") = TRUE
      BY <2>3
    <3>2. given[i].ended = TRUE /\ given' = given
      BY <3>1, <2>1, <2>3, <1>7
    <3> QED BY <3>2, <2>1, <2>2, <1>8, Zenon
  <2>4. CASE parser.phase = "body" /\ i # Len(given)
    <3>1. given'[i] = given[i] /\ i < Len(given)
      BY <2>0, <2>4, <1>7, <1>12
    <3>2. given[i].ended = TRUE
      BY <3>1, <2>1
    <3> QED BY <3>1, <3>2, <2>1, <2>2, <1>8, Zenon
  <2>5. CASE parser.phase = "body" /\ i = Len(given)
    <3>1. /\ given[i].data \in Seq(Characters) /\ Searched = sent.parts[i].data
      BY <2>5, LastIs
    <3>2. /\ given'[i].name = given[i].name /\ given'[i].ended = TRUE
          /\ given'[i].data = given[i].data \o <<>>
      BY <2>5, <1>7
    <3>3. given'[i].data = given[i].data
      BY <3>1, <3>2, ConcatEmptySeq
    <3>4. Searched \in Seq(Characters) /\ Len(Searched) - 0 = Len(Searched)
      BY <1>1, SearchIs
    <3>5. given[i].data = SubSeq(Searched, 1, Len(Searched))
      BY <3>4, <2>5, <1>5, Zenon DEF GivenBut
    <3>6. SubSeq(Searched, 1, Len(Searched)) = Searched
      BY <3>4, SubSeqFull
    <3> QED BY <3>1, <3>2, <3>3, <3>5, <3>6, <2>1, <2>2, <1>8, Zenon
  <2> QED BY <2>3, <2>4, <2>5, <1>1
<1> QED BY <1>3, <1>7, <1>8, <1>10, <1>11, <1>13, <1>14 DEF UploadInv

(* What does not match is given, with what was held back. *)
LEMMA MismatchKeeps ==
  ASSUME UploadConstants, UploadInv, Mismatch
  PROVE  UploadInv'
PROOF
<1> DEFINE m == parser.matched
           again == Char = CR
           held == SubSeq(Delim, 1, m)
           data == IF again THEN held ELSE Append(held, Char)
           next == IF again THEN 1 ELSE 0
<1>1. /\ Take /\ parser.phase \in {"preamble", "body"} /\ Char # Delim[m + 1]
      /\ parser' = [parser EXCEPT !.matched = next, !.pushed = @ + Gave(data)]
      /\ Gives(data, FALSE)
  BY DelimIs, Zenon DEF Mismatch
<1>2. parser \in Parsers /\ m \in 0 .. Len(Delim) - 1
  BY <1>1, CharIs
<1>3. Char \in Characters
  <2>1. Item(sent, Home + 1)[1] \in Characters
    BY <1>1, SearchIs, DelimIs
  <2>2. CASE Within
    BY <2>2, <1>1, CharIs, SearchIs DEF Within
  <2>3. CASE Behind
    BY <2>3, <1>1, CharIs DEF UploadConstants
  <2>4. CASE InDelimiter
    BY <2>4, <1>1, CharIs, DelimIs
  <2> QED BY <2>2, <2>3, <2>4, <1>1, CharIs
<1>4. held \in Seq(Characters) /\ Len(held) = m
  BY <1>2, DelimIs, SubSeqProperties
<1>5. data \in Seq(Characters) /\ Len(data) + next = m + 1
  BY <1>2, <1>3, <1>4, DelimIs
<1> HIDE DEF data
<1>6. /\ parser' \in Parsers /\ parser'.phase = parser.phase /\ parser'.matched = next
      /\ parser'.pushed + parser'.matched <= parser.pushed + parser.matched + 1
  <2>1. Gave(data) \in 0 .. Len(data) /\ Len(data) \in Nat
    BY <1>5 DEF Gave
  <2>2. parser.pushed \in Nat /\ next \in 0 .. Len(Delim) - 1
    BY <1>2, DelimIs DEF Parsers
  <2>3. parser.pushed + Gave(data) \in Nat
    BY <2>1, <2>2
  <2>4. /\ parser' \in Parsers /\ parser'.phase = parser.phase /\ parser'.matched = next
        /\ parser'.pushed = parser.pushed + Gave(data)
    <3> HIDE DEF next
    <3> QED BY <1>1, <1>2, <2>2, <2>3 DEF Parsers
  <2> QED BY SMTT(30), <2>1, <2>2, <2>4, <1>2, <1>5, DelimIs
<1>7. Len(given') = Len(given)
  BY <1>1, <1>5, GivesIs
<1>8. parser.phase = "body" => given'[Len(given)].data = given[Len(given)].data \o data
  BY <1>1, <1>5, GivesIs
<1>9. Placed'
  <2>0. Searched \in Seq(Characters) /\ ~Holds(Searched) /\ Len(Searched) \in Nat
    BY <1>1, SearchIs
  <2>1. CASE Within
    <3>1. /\ sent.item = Home /\ Read \in 0 .. Len(Searched) - 1
          /\ Partial(Searched, Read, m) /\ GivenBut(m, Read)
      BY <2>1 DEF Within
    <3>2. Char = Searched[Read + 1]
      BY <2>1, <1>1, CharIs
    <3>3. Partial(Searched, Read + 1, parser'.matched)
      BY <3>1, <3>2, <2>0, <1>6, SearchGoesOn
    <3>4. SubSeq(Searched, 1, Read - m) \o data = SubSeq(Searched, 1, Read + 1 - next)
      <4>1. Read \in 0 .. Len(Searched) /\ Read < Len(Searched)
        BY <3>1, <2>0
      <4>2. /\ SubSeq(Searched, 1, Read - m) \o held = SubSeq(Searched, 1, Read)
            /\ SubSeq(Searched, 1, Read - m) \o Append(held, Char) = SubSeq(Searched, 1, Read + 1)
        BY <4>1, <3>1, <3>2, <2>0, HeldIs
      <4>3. CASE again
        <5>1. Read + 1 - next = Read /\ data = held
          BY <4>1, <4>3, <2>0 DEF data
        <5> QED BY <5>1, <4>2, Zenon
      <4>4. CASE ~again
        <5>1. Read + 1 - 0 = Read + 1 /\ next = 0
          BY <4>1, <4>4, <2>0
        <5>2. data = Append(held, Char)
          BY <4>4, Zenon DEF data
        <5> HIDE DEF next
        <5> QED BY <5>1, <5>2, <4>2, Zenon
      <4> QED BY <4>3, <4>4
    <3>5. parser.phase = "body" =>
            given'[Len(given)].data = SubSeq(Searched, 1, Read + 1 - parser'.matched)
      BY <3>1, <3>4, <1>6, <1>8, Zenon DEF GivenBut
    <3> QED BY <3>1, <3>3, <3>5, <1>1, <1>6, <1>7, WithinGoes
  <2>2. CASE Behind
    <3>1. /\ sent.item = Home + 1 /\ sent.at = 0 /\ Partial(Searched, Len(Searched), m)
          /\ GivenBut(m, Len(Searched))
      BY <2>2 DEF Behind
    <3>2. Char = CR /\ next = 1 /\ data = held
      BY <2>2, <1>1, CharIs DEF data
    <3>3. SubSeq(Searched, 1, Len(Searched) - m) \o data = SubSeq(Searched, 1, Len(Searched))
      <4>1. Len(Searched) \in 0 .. Len(Searched)
        BY <2>0
      <4> QED BY <4>1, <3>1, <3>2, <2>0, HeldIs
    <3>4. parser.phase = "body" => given'[Len(given)].data = SubSeq(Searched, 1, Len(Searched))
      BY <3>1, <3>3, <1>8, Zenon DEF GivenBut
    <3>5. sent.at \in 0 .. Len(Delim) - 2 /\ parser'.matched = sent.at + 1
      BY <3>1, <3>2, <1>6, DelimIs
    <3> QED BY <3>1, <3>4, <3>5, <1>1, <1>6, <1>7, DelimiterGoes
  <2>3. CASE InDelimiter
    BY <2>3, <1>1, CharIs
  <2> QED BY <2>1, <2>2, <2>3, <1>1, CharIs
<1> QED BY <1>1, <1>5, <1>6, <1>9, SearchKeeps

(* A step between parts, or behind the last, gives nothing. *)
LEMMA BetweenKeeps ==
  ASSUME UploadConstants, UploadInv, Take, given' = given, parser.phase \notin {"preamble", "body"},
         parser' \in Parsers, parser'.phase \notin {"preamble", "body"}, Placed',
         parser'.pushed = parser.pushed, parser'.matched = parser.matched
  PROVE  UploadInv'
PROOF
<1>1. sent' \in Sent /\ sent'.parts = sent.parts /\ input' \in Nat /\ input' < input
  BY TakeIs
<1>2. given \in Parts /\ input \in Nat /\ Len(given) <= Len(sent.parts) /\ parser \in Parsers
  BY DEF UploadInv
<1>3. parser'.pushed + parser'.matched + input' < ChunkMax + Len(Delim)
  <2>1. parser.pushed \in Nat /\ parser'.pushed = parser.pushed
    BY <1>2 DEF Parsers
  <2>2. parser.matched \in Nat /\ parser'.matched = parser.matched
    BY <1>2, DelimIs DEF Parsers
  <2>3. input \in Nat
    BY <1>2
  <2>4. input' \in Nat /\ input' < input
    BY <1>1
  <2>5. ChunkMax \in Nat /\ Len(Delim) \in Nat
    BY DelimIs DEF UploadConstants
  <2>6. parser.pushed + parser.matched + input < ChunkMax + Len(Delim)
    BY DEF UploadInv
  <2> QED BY ONLY <2>1, <2>2, <2>3, <2>4, <2>5, <2>6
<1>4. ASSUME NEW i \in DOMAIN given'
      PROVE  /\ given'[i].name = sent'.parts[i].name
             /\ given'[i].ended = (i < Len(given') \/ parser'.phase # "body")
             /\ given'[i].ended = TRUE => given'[i].data = sent'.parts[i].data
  <2>0. i \in DOMAIN given
    OBVIOUS
  <2>1. /\ given[i].name = sent.parts[i].name
        /\ given[i].ended = (i < Len(given) \/ parser.phase # "body")
        /\ given[i].ended = TRUE => given[i].data = sent.parts[i].data
    BY <2>0 DEF UploadInv
  <2>2. (i < Len(given) \/ parser.phase # "body") = TRUE
        /\ (i < Len(given') \/ parser'.phase # "body") = TRUE
    OBVIOUS
  <2> QED BY <2>1, <2>2, <1>1, Zenon
<1> QED BY <1>1, <1>2, <1>3, <1>4 DEF UploadInv

(* What comes behind a delimiter. *)
LEMMA BehindIs ==
  ASSUME UploadConstants, UploadInv, parser.phase \in {"after", "headers"}
  PROVE  /\ sent.item = Len(given) + 1 /\ Len(given) \in Nat /\ Len(given) <= Len(sent.parts)
         /\ sent.item \in DOMAIN sent.parts => IsPart(sent.parts[sent.item], Item(sent, sent.item))
         /\ sent.item \notin DOMAIN sent.parts =>
              Len(given) = Len(sent.parts) /\ IsEnd(Item(sent, sent.item))
PROOF
<1>1. sent.item = Len(given) + 1
  <2>1. Placed
    BY DEF UploadInv
  <2>2. CASE parser.phase = "after"
    BY <2>1, <2>2 DEF Placed
  <2>3. CASE parser.phase = "headers"
    BY <2>1, <2>3 DEF Placed
  <2> QED BY <2>2, <2>3
<1>2. sent \in Sent /\ given \in Parts /\ Len(given) <= Len(sent.parts)
  BY DEF UploadInv
<1>3. sent.parts \in Uploads /\ Len(given) \in Nat
  BY <1>2 DEF Sent, Parts
<1>4. Len(sent.parts) \in Nat /\ DOMAIN sent.parts = 1 .. Len(sent.parts)
  BY <1>3 DEF UploadConstants
<1>5. ASSUME sent.item \in DOMAIN sent.parts
      PROVE  IsPart(sent.parts[sent.item], Item(sent, sent.item))
  BY <1>3, <1>5, PartIs
<1>6. ASSUME sent.item \notin DOMAIN sent.parts
      PROVE  Len(given) = Len(sent.parts) /\ IsEnd(Item(sent, sent.item))
  <2>1. Len(given) = Len(sent.parts)
    BY <1>1, <1>2, <1>3, <1>4, <1>6
  <2>2. IsEnd(Item(sent, Len(sent.parts) + 1))
    BY <1>3, EndIs
  <2> QED BY <2>1, <2>2, <1>1, Zenon
<1> QED BY <1>1, <1>2, <1>3, <1>5, <1>6

(* The two characters behind the delimiter are those of a part or of the   *)
(* end.                                                                    *)
LEMMA AfterBoundaryKeeps ==
  ASSUME UploadConstants, UploadInv, AfterBoundary
  PROVE  UploadInv'
PROOF
<1> DEFINE item == Item(sent, sent.item)
<1>1. /\ Take /\ parser.phase = "after" /\ given' = given
      /\ parser' = CASE parser.first = <<>> -> [parser EXCEPT !.first = <<Char>>]
                     [] parser.first = <<Dash>> /\ Char = Dash -> [parser EXCEPT !.phase = "done"]
                     [] parser.first = <<CR>> /\ Char = LF ->
                          [parser EXCEPT !.phase = "headers", !.headers = <<>>]
                     [] OTHER -> [parser EXCEPT !.phase = "error"]
  BY DEF AfterBoundary
<1>2. parser \in Parsers /\ Placed
  BY DEF UploadInv
<1>3. sent.item = Len(given) + 1
  BY <1>1, BehindIs
<1>4. Char = item[sent.at + 1]
  BY DEF Char
<1>5. Len(item) \in Nat /\ Len(item) >= Len(Delim) + 4 /\ item \in Seq(Characters)
  <2>1. CASE sent.item \in DOMAIN sent.parts
    <3>1. IsPart(sent.parts[sent.item], item)
      BY <2>1, <1>1, BehindIs
    <3> HIDE DEF item
    <3>2. PICK n \in Nat : Len(item) = Len(Delim) + 7 + n
      BY <3>1, Zenon DEF IsPart
    <3>3. item \in Seq(Characters)
      BY <3>1 DEF IsPart
    <3> QED BY <3>2, <3>3, DelimIs
  <2>2. CASE sent.item \notin DOMAIN sent.parts
    <3>1. IsEnd(item)
      BY <2>2, <1>1, BehindIs
    <3> HIDE DEF item
    <3> QED BY <3>1, DelimIs DEF IsEnd
  <2> QED BY <2>1, <2>2
<1> HIDE DEF item
<1>6. CASE parser.first = <<>>
  <2>1. sent.at = Len(Delim)
    BY <1>1, <1>2, <1>6 DEF Placed
  <2>2. sent'.item = sent.item /\ sent'.at = Len(Delim) + 1 /\ Item(sent', sent.item) = item
    <3>1. sent.at + 1 < Len(Item(sent, sent.item))
      BY <2>1, <1>5, DelimIs DEF item
    <3> QED BY <3>1, <2>1, <1>1, TakeIs DEF item
  <2>3. parser' = [parser EXCEPT !.first = <<Char>>]
    BY <1>1, <1>6
  <2>4. Char \in Characters
    <3>1. sent.at + 1 \in 1 .. Len(item)
      BY <2>1, <1>5, DelimIs
    <3> QED BY <3>1, <1>4, <1>5, ElementOfSeq
  <2>5. /\ parser' \in Parsers /\ parser'.phase = "after" /\ parser'.first = <<Char>>
        /\ parser'.pushed = parser.pushed /\ parser'.matched = parser.matched
    <3> DEFINE one == <<Char>>
    <3>1. one \in Seq(Characters) /\ parser' = [parser EXCEPT !.first = one]
      BY <2>3, <2>4
    <3> HIDE DEF one
    <3>2. /\ parser' \in Parsers /\ parser'.phase = "after" /\ parser'.first = one
          /\ parser'.pushed = parser.pushed /\ parser'.matched = parser.matched
      BY <3>1, <1>1, <1>2 DEF Parsers
    <3> QED BY <3>2 DEF one
  <2>6. Item(sent', sent'.item)[sent'.at] = Char
    BY <2>1, <2>2, <1>4
  <2>7. Placed'
    BY <2>2, <2>5, <2>6, <1>1, <1>3 DEF Placed
  <2> QED BY <2>5, <2>7, <1>1, BetweenKeeps
<1>7. CASE parser.first # <<>>
  <2>1. sent.at = Len(Delim) + 1 /\ parser.first = <<Item(sent, sent.item)[sent.at]>>
    BY <1>1, <1>2, <1>7 DEF Placed
  <2>2. sent'.item = sent.item /\ sent'.at = Len(Delim) + 2 /\ Item(sent', sent.item) = item
    <3>1. sent.at + 1 < Len(Item(sent, sent.item))
      BY <2>1, <1>5, DelimIs DEF item
    <3> QED BY <3>1, <2>1, <1>1, TakeIs, DelimIs DEF item
  <2>3. parser.first = <<item[Len(Delim) + 1]>> /\ Char = item[Len(Delim) + 2]
    BY <2>1, <1>4, DelimIs DEF item
  <2>4. CASE sent.item \in DOMAIN sent.parts
    <3>1. item[Len(Delim) + 1] = CR /\ item[Len(Delim) + 2] = LF
      BY <2>4, <1>1, BehindIs DEF item, IsPart
    <3>2. parser' = [parser EXCEPT !.phase = "headers", !.headers = <<>>]
      <4>1. parser.first = <<CR>> /\ Char = LF /\ <<CR>> # <<Dash>> /\ <<CR>> # <<>>
        BY <2>3, <3>1 DEF CR, Dash
      <4> QED BY <4>1, <1>1
    <3>3. /\ parser' \in Parsers /\ parser'.phase = "headers" /\ parser'.headers = <<>>
          /\ parser'.pushed = parser.pushed /\ parser'.matched = parser.matched
      <4> DEFINE none == <<>>
      <4>1. none \in Seq(Characters)
            /\ parser' = [parser EXCEPT !.phase = "headers", !.headers = none]
        BY <3>2
      <4> HIDE DEF none
      <4>2. /\ parser' \in Parsers /\ parser'.phase = "headers" /\ parser'.headers = none
            /\ parser'.pushed = parser.pushed /\ parser'.matched = parser.matched
        BY <4>1, <1>2 DEF Parsers
      <4> QED BY <4>2 DEF none
    <3>4. Len(parser'.headers) = 0
      BY <3>3
    <3>5. Placed'
      <4>1. sent'.parts = sent.parts
        BY <1>1, TakeIs
      <4>2. /\ sent'.item = Len(given') + 1 /\ sent'.item \in DOMAIN sent'.parts
            /\ Len(parser'.headers) \in 0 .. 4
            /\ sent'.at = Len(Delim) + 2 + Len(parser'.headers)
        BY <4>1, <2>2, <2>4, <3>4, <1>1, <1>3, DelimIs
      <4> QED BY <4>2, <3>3, <3>4 DEF Placed
    <3> QED BY <3>3, <3>5, <1>1, BetweenKeeps
  <2>5. CASE sent.item \notin DOMAIN sent.parts
    <3>0. Len(given) = Len(sent.parts)
      BY <2>5, <1>1, BehindIs
    <3>1. item[Len(Delim) + 1] = Dash /\ item[Len(Delim) + 2] = Dash
      BY <2>5, <1>1, BehindIs DEF item, IsEnd
    <3>2. parser' = [parser EXCEPT !.phase = "done"]
      <4>1. parser.first = <<Dash>> /\ Char = Dash /\ <<CR>> # <<Dash>> /\ <<Dash>> # <<>>
        BY <2>3, <3>1 DEF CR, Dash
      <4> QED BY <4>1, <1>1
    <3>3. /\ parser' \in Parsers /\ parser'.phase = "done"
          /\ parser'.pushed = parser.pushed /\ parser'.matched = parser.matched
      BY <3>2, <1>2 DEF Parsers
    <3>5. Placed'
      <4>1. sent'.parts = sent.parts
        BY <1>1, TakeIs
      <4>2. /\ Len(given') = Len(sent'.parts) /\ sent'.item = Len(given') + 1
            /\ sent'.at \in Len(Delim) + 2 .. Len(Delim) + 3
        BY <4>1, <2>2, <3>0, <1>1, <1>3, DelimIs
      <4> QED BY <4>2, <3>3 DEF Placed
    <3> QED BY <3>3, <3>5, <1>1, BetweenKeeps
  <2> QED BY <2>4, <2>5
<1> QED BY <1>6, <1>7

(* The headers of a part are its name and an empty line, behind which its  *)
(* data begin.                                                             *)
LEMMA HeadersKeeps ==
  ASSUME UploadConstants, UploadInv, Headers
  PROVE  UploadInv'
PROOF
<1> DEFINE item == Item(sent, sent.item)
           part == sent.parts[sent.item]
           old == parser.headers
           new == Append(old, Char)
           base == Len(Delim) + 2
<1>1. Take /\ parser.phase = "headers"
  BY DEF Headers
<1>2. parser \in Parsers /\ Placed /\ given \in Parts /\ input \in Nat
  BY DEF UploadInv
<1>3. /\ sent.item = Len(given) + 1 /\ sent.item \in DOMAIN sent.parts
      /\ Len(old) \in 0 .. 4 /\ sent.at = base + Len(old)
      /\ \A i \in 1 .. Len(old) : old[i] = item[base + i]
  BY <1>1, <1>2 DEF Placed
<1>4. old \in Seq(Characters) /\ Len(old) \in Nat /\ base \in Nat
  BY <1>2, DelimIs DEF Parsers
<1>5. /\ item \in Seq(Characters) /\ part.name \in Characters /\ part.name # LF
      /\ item[base + 1] = part.name /\ item[base + 2] = CR /\ item[base + 3] = LF
      /\ item[base + 4] = CR /\ item[base + 5] = LF
  <2>1. IsPart(part, item)
    BY <1>1, <1>3, BehindIs
  <2> HIDE DEF part, item
  <2>2. /\ base + 1 = Len(Delim) + 3 /\ base + 2 = Len(Delim) + 4 /\ base + 3 = Len(Delim) + 5
        /\ base + 4 = Len(Delim) + 6 /\ base + 5 = Len(Delim) + 7
    BY DelimIs
  <2> QED BY <2>1, <2>2, Zenon DEF IsPart
<1>6. PICK n \in Nat : Len(item) = Len(Delim) + 7 + n /\ Len(part.data) = n
  <2>1. IsPart(part, item)
    BY <1>1, <1>3, BehindIs
  <2> HIDE DEF part, item
  <2> QED BY <2>1, Zenon DEF IsPart
<1>14. Char = item[sent.at + 1]
  BY DEF Char
<1>15. base = Len(Delim) + 2 /\ Len(Delim) \in Nat
  BY DelimIs
<1>16. sent.at = base + Len(old) /\ Len(old) \in 0 .. 4
  BY <1>3
<1> HIDE DEF item, part, old, base
<1>17. sent.at \in Nat /\ sent.at + 1 = base + (Len(old) + 1)
  BY ONLY <1>4, <1>15, <1>16
<1>7. Char = item[base + (Len(old) + 1)] /\ Char \in Characters
  <2>1. sent.at + 1 \in 1 .. Len(item)
    <3> DEFINE l == Len(item)
               d == Len(Delim)
               h == Len(old)
    <3>1. n \in Nat /\ l = d + 7 + n
      BY <1>6
    <3>2. base = d + 2 /\ d \in Nat /\ sent.at = base + h /\ h \in 0 .. 4
      BY <1>15, <1>16
    <3> HIDE DEF l, d, h
    <3>3. sent.at + 1 \in 1 .. l
      BY ONLY <3>1, <3>2
    <3> QED BY <3>3 DEF l
  <2> QED BY <2>1, <1>5, <1>14, <1>17, ElementOfSeq
<1>8. /\ new \in Seq(Characters) /\ Len(new) = Len(old) + 1
      /\ \A i \in 1 .. Len(new) : new[i] = item[base + i]
  <2>1. /\ new \in Seq(Characters) /\ Len(new) = Len(old) + 1 /\ new[Len(old) + 1] = Char
        /\ \A i \in 1 .. Len(old) : new[i] = old[i]
    BY <1>4, <1>7, AppendProperties
  <2> HIDE DEF new
  <2>2. ASSUME NEW i \in 1 .. Len(new) PROVE new[i] = item[base + i]
    <3>1. i \in 1 .. Len(old) \/ i = Len(old) + 1
      BY <2>1, <1>4
    <3> QED BY <3>1, <2>1, <1>3, <1>7
  <2> QED BY <2>1, <2>2
<1>9. Len(new) <= HeadersMax /\ Len(new) \in Nat
  <2>1. HeadersMax \in Nat /\ HeadersMax > 4
    BY DEF UploadConstants
  <2>2. Len(new) = Len(old) + 1
    BY <1>8
  <2> DEFINE h == Len(old)
             l == Len(new)
  <2>3. h \in 0 .. 4 /\ l = h + 1
    BY <1>16, <2>2
  <2> HIDE DEF h, l
  <2>4. l <= HeadersMax /\ l \in Nat
    BY ONLY <2>1, <2>3
  <2> QED BY <2>4 DEF l
<1>10. /\ sent' \in Sent /\ sent'.parts = sent.parts /\ input' \in Nat /\ input' < input
       /\ \A k : Item(sent', k) = Item(sent, k)
       /\ sent.at + 1 < Len(item) => sent'.item = sent.item /\ sent'.at = sent.at + 1
       /\ ~(sent.at + 1 < Len(item)) => sent'.item = sent.item + 1 /\ sent'.at = 0
  BY <1>1, TakeIs DEF item
<1>18. (CASE Len(new) > HeadersMax ->
              parser' = [parser EXCEPT !.phase = "error"] /\ UNCHANGED given
         [] Len(new) <= HeadersMax /\ IsSuffix(<<CR, LF, CR, LF>>, new) ->
              /\ parser' = [parser EXCEPT !.phase = "body", !.matched = 0, !.headers = new]
              /\ given' = Append(given, [name |-> Head(new), data |-> <<>>, ended |-> FALSE])
         [] OTHER -> parser' = [parser EXCEPT !.headers = new] /\ UNCHANGED given)
  BY Zenon DEF Headers, new, old
<1> HIDE DEF new
<1>19. ~(Len(new) > HeadersMax)
  BY <1>9 DEF UploadConstants
<1>11. CASE Len(old) < 4
  <2>1. ~IsSuffix(<<CR, LF, CR, LF>>, new)
    <3> SUFFICES ASSUME IsSuffix(<<CR, LF, CR, LF>>, new) PROVE FALSE
      OBVIOUS
    <3>1. Len(new) >= 4 /\ new[Len(new)] = LF
      BY <1>8, EndsIs
    <3>2. Len(new) = 4
      BY <3>1, <1>4, <1>8, <1>11
    <3>3. new[4] = CR
      BY <3>2, <1>5, <1>8
    <3> QED BY <3>1, <3>2, <3>3 DEF CR, LF
  <2>2. parser' = [parser EXCEPT !.headers = new] /\ given' = given
    BY <2>1, <1>18, <1>19, Zenon
  <2>3. /\ parser' \in Parsers /\ parser'.phase = "headers" /\ parser'.headers = new
        /\ parser'.pushed = parser.pushed /\ parser'.matched = parser.matched
    BY <2>2, <1>1, <1>2, <1>8 DEF Parsers
  <2>4. sent'.item = sent.item /\ sent'.at = sent.at + 1
    <3>1. sent.at + 1 < Len(item)
      BY ONLY <1>6, <1>11, <1>15, <1>16
    <3> QED BY <3>1, <1>10
  <2>5. Placed'
    <3>3. sent'.item = Len(given') + 1 /\ sent'.item \in DOMAIN sent'.parts
      BY <2>2, <2>4, <1>3, <1>10
    <3>4. Len(parser'.headers) = Len(old) + 1
      BY <2>3, <1>8
    <3>1. /\ Len(parser'.headers) \in 0 .. 4
          /\ sent'.at = Len(Delim) + 2 + Len(parser'.headers)
      BY <3>4, <2>4, <1>11, <1>15, <1>16
    <3>2. \A i \in 1 .. Len(parser'.headers) :
            parser'.headers[i] = Item(sent', sent'.item)[Len(Delim) + 2 + i]
      BY <2>3, <2>4, <1>8, <1>10 DEF item, base
    <3> QED BY <3>1, <3>2, <3>3, <2>3 DEF Placed
  <2> QED BY <2>2, <2>3, <2>5, <1>1, BetweenKeeps
<1>12. CASE Len(old) = 4
  <2>1. Len(new) = 5 /\ new[1] = part.name /\ new[2] = CR /\ new[3] = LF /\ new[4] = CR /\ new[5] = LF
    BY <1>5, <1>8, <1>12
  <2>2. IsSuffix(<<CR, LF, CR, LF>>, new)
    BY <2>1, <1>8, EndsIs
  <2> DEFINE Kind == [name : Characters, data : Seq(Characters), ended : BOOLEAN]
             none == <<>>
             more == [name |-> Head(new), data |-> none, ended |-> FALSE]
  <2>3. /\ parser' = [parser EXCEPT !.phase = "body", !.matched = 0, !.headers = new]
        /\ given' = Append(given, more)
    BY <2>2, <1>9, <1>18, <1>19, Zenon
  <2>4. none \in Seq(Characters) /\ Head(new) = part.name
    BY <2>1, <1>8
  <2>5. /\ parser' \in Parsers /\ parser'.phase = "body" /\ parser'.matched = 0
        /\ parser'.pushed = parser.pushed
    <3>1. 0 \in 0 .. Len(Delim) - 1
      BY DelimIs
    <3> QED BY <3>1, <2>3, <1>2, <1>8 DEF Parsers
  <2> HIDE DEF none
  <2>6. more \in Kind /\ more.name = part.name /\ more.data = none /\ more.ended = FALSE
    BY <2>4, <1>5
  <2> HIDE DEF Kind, more
  <2>7. given \in Seq(Kind) /\ Len(given) \in Nat
    BY <1>2 DEF Parts, Kind
  <2>8. /\ given' \in Seq(Kind) /\ Len(given') = Len(given) + 1
        /\ \A i \in 1 .. Len(given) : given'[i] = given[i]
        /\ given'[Len(given) + 1] = more
    BY <2>3, <2>6, <2>7, AppendProperties
  <2>9. Len(given') = sent.item /\ given'[Len(given')].data = none
        /\ given'[sent.item].name = part.name /\ given'[sent.item].ended = FALSE
    BY <2>6, <2>8, <1>3 DEF part
  <2>10. Searched' = part.data /\ Home' = sent.item /\ Read' = sent'.at - Len(Delim) - 7
    BY <2>5, <2>9, <1>10 DEF Searched, Home, Read, part
  <2>11. \A c \in Nat : Partial(Searched', c, parser'.matched)
    BY <2>5, DelimIs DEF Partial
  <2>12. SubSeq(Searched', 1, 0) = none
    BY SubSeqEmpty DEF none
  <2>13. sent.at + 1 = Len(Delim) + 7
    BY ONLY <1>12, <1>15, <1>16
  <2>14. Placed'
    <3>1. CASE n = 0
      <4>1. sent'.item = sent.item + 1 /\ sent'.at = 0
        <5>1. ~(sent.at + 1 < Len(item))
          BY <3>1, <2>13, <1>6, DelimIs
        <5> QED BY <5>1, <1>10
      <4>2. Len(Searched') = 0 /\ 0 - 0 = 0 /\ 0 \in Nat
        BY <3>1, <2>10, <1>6
      <4>3. Partial(Searched', Len(Searched'), parser'.matched)
        BY <4>2, <2>11
      <4>4. given'[Len(given')].data = SubSeq(Searched', 1, Len(Searched') - parser'.matched)
        BY <4>2, <2>5, <2>9, <2>12, Zenon
      <4>5. GivenBut(parser.matched, Len(Searched))'
        BY <4>4 DEF GivenBut
      <4>6. Behind'
        BY <4>1, <4>3, <4>5, <2>10 DEF Behind
      <4> QED BY <4>6, <2>5 DEF Placed
    <3>2. CASE n # 0
      <4>1. sent'.item = sent.item /\ sent'.at = Len(Delim) + 7
        <5>1. sent.at + 1 < Len(item)
          BY <3>2, <2>13, <1>6, DelimIs
        <5> QED BY <5>1, <2>13, <1>10
      <4>2. Read' = 0 /\ 0 - 0 = 0 /\ 0 \in Nat
        BY <4>1, <2>10, DelimIs
      <4>3. Partial(Searched', Read', parser'.matched)
        BY <4>2, <2>11
      <4>4. given'[Len(given')].data = SubSeq(Searched', 1, Read' - parser'.matched)
        BY <4>2, <2>5, <2>9, <2>12, Zenon
      <4>5. GivenBut(parser.matched, Read)'
        BY <4>4 DEF GivenBut
      <4>6. Read' \in 0 .. Len(Searched') - 1
        BY <3>2, <4>2, <2>10, <1>6
      <4>7. Within'
        BY <4>1, <4>3, <4>5, <4>6, <2>10 DEF Within
      <4> QED BY <4>7, <2>5 DEF Placed
    <3> QED BY <3>1, <3>2
  <2>15. parser'.pushed + parser'.matched + input' < ChunkMax + Len(Delim)
    <3>1. parser.pushed \in Nat /\ parser'.pushed = parser.pushed
      BY <2>5, <1>2 DEF Parsers
    <3>2. parser.matched \in Nat /\ parser'.matched = 0
      BY <2>5, <1>2, DelimIs DEF Parsers
    <3>3. input \in Nat
      BY <1>2
    <3>4. input' \in Nat /\ input' < input
      BY <1>10
    <3>5. ChunkMax \in Nat /\ Len(Delim) \in Nat
      BY DelimIs DEF UploadConstants
    <3>6. parser.pushed + parser.matched + input < ChunkMax + Len(Delim)
      BY DEF UploadInv
    <3> QED BY ONLY <3>1, <3>2, <3>3, <3>4, <3>5, <3>6
  <2>16. ASSUME NEW i \in DOMAIN given'
         PROVE  /\ given'[i].name = sent'.parts[i].name
                /\ given'[i].ended = (i < Len(given') \/ parser'.phase # "body")
                /\ given'[i].ended = TRUE => given'[i].data = sent'.parts[i].data
    <3>0. i \in 1 .. Len(given) + 1
      BY <2>7, <2>8
    <3>3. i = Len(given) + 1 \/ i \in 1 .. Len(given)
      BY <3>0, <2>7
    <3>1. CASE i = Len(given) + 1
      <4>1. (i < Len(given') \/ parser'.phase # "body") = FALSE
        BY <3>1, <2>5, <2>7, <2>8
      <4>2. i = sent.item /\ FALSE # TRUE
        BY <3>1, <1>3
      <4>3. given'[i].name = part.name /\ given'[i].ended = FALSE
        BY <4>2, <2>9, Zenon
      <4>4. part = sent'.parts[i]
        BY <4>2, <1>10, Zenon DEF part
      <4>5. given'[i].name = sent'.parts[i].name
        BY <4>3, <4>4, Zenon
      <4>6. given'[i].ended = (i < Len(given') \/ parser'.phase # "body")
        BY <4>1, <4>3, Zenon
      <4>7. given'[i].ended # TRUE
        BY <4>2, <4>3, Zenon
      <4> QED BY <4>5, <4>6, <4>7
    <3>2. CASE i \in 1 .. Len(given)
      <4>1. i \in DOMAIN given /\ given'[i] = given[i]
        BY <3>2, <2>7, <2>8
      <4>2. (i < Len(given') \/ parser'.phase # "body") = TRUE
        BY <3>2, <2>7, <2>8
      <4>3. (i < Len(given) \/ parser.phase # "body") = TRUE
        BY <1>1
      <4>4. /\ given[i].name = sent.parts[i].name
            /\ given[i].ended = (i < Len(given) \/ parser.phase # "body")
            /\ given[i].ended = TRUE => given[i].data = sent.parts[i].data
        BY <4>1 DEF UploadInv
      <4> QED BY <4>1, <4>2, <4>3, <4>4, <1>10, Zenon
    <3> QED BY <3>1, <3>2, <3>3, Zenon
  <2>17. Len(given') <= Len(sent'.parts)
    <3>1. sent.item \in 1 .. Len(sent.parts)
      <4>1. sent.parts \in Uploads
        BY DEF UploadInv, Sent
      <4> QED BY <4>1, <1>3 DEF UploadConstants
    <3> QED BY <3>1, <2>9, <1>10
  <2>18. given' \in Parts /\ given' # <<>>
    BY <2>7, <2>8 DEF Parts, Kind
  <2>19. /\ parser'.phase = "preamble" => given' = <<>>
         /\ parser'.phase = "body" => given' # <<>>
    BY <2>5, <2>18
  <2>20. sent' \in Sent /\ parser' \in Parsers /\ given' \in Parts /\ input' \in Nat
    BY <2>5, <2>18, <1>10
  <2> QED BY ONLY <2>14, <2>15, <2>16, <2>17, <2>19, <2>20 DEF UploadInv
<1> QED BY <1>3, <1>11, <1>12

(* What follows the closing delimiter is read to its end. *)
LEMMA IgnoreKeeps ==
  ASSUME UploadConstants, UploadInv, Ignore
  PROVE  UploadInv'
PROOF
<1>1. Take /\ parser.phase = "done" /\ parser' = parser /\ given' = given
  BY DEF Ignore
<1>2. parser \in Parsers /\ Placed /\ sent \in Sent /\ given \in Parts
  BY DEF UploadInv
<1>3. sent.parts \in Uploads /\ Len(sent.parts) \in Nat
  BY <1>2 DEF Sent, UploadConstants
<1>4. /\ Len(given) = Len(sent.parts)
      /\ \/ sent.item = Len(given) + 1 /\ sent.at \in Len(Delim) + 2 .. Len(Delim) + 3
         \/ sent.item = Len(given) + 2
  BY <1>1, <1>2 DEF Placed
<1>5. sent.item = Len(sent.parts) + 1 /\ sent.at \in Len(Delim) + 2 .. Len(Delim) + 3
  BY <1>1, <1>3, <1>4, TakeIs
<1>6. Len(Item(sent, sent.item)) = Len(Delim) + 4
  <2>1. IsEnd(Item(sent, Len(sent.parts) + 1))
    BY <1>3, EndIs
  <2> QED BY <2>1, <1>5 DEF IsEnd
<1>7. sent'.parts = sent.parts
  BY <1>1, TakeIs
<1>8. \/ sent'.item = sent.item /\ sent'.at \in Len(Delim) + 2 .. Len(Delim) + 3
      \/ sent'.item = sent.item + 1
  <2>1. CASE sent.at + 1 < Len(Item(sent, sent.item))
    <3>1. sent'.item = sent.item /\ sent'.at = sent.at + 1
      BY <2>1, <1>1, TakeIs
    <3> QED BY <3>1, <2>1, <1>5, <1>6, DelimIs
  <2>2. CASE ~(sent.at + 1 < Len(Item(sent, sent.item)))
    BY <2>2, <1>1, TakeIs
  <2> QED BY <2>1, <2>2
<1>9. Placed'
  <2>1. sent.item = Len(given) + 1 /\ Len(given) \in Nat
    BY <1>3, <1>4, <1>5
  <2>2. \/ sent'.item = Len(given) + 1 /\ sent'.at \in Len(Delim) + 2 .. Len(Delim) + 3
        \/ sent'.item = Len(given) + 2
    BY <2>1, <1>8
  <2>3. Len(given') = Len(sent'.parts) /\ parser'.phase = "done"
    BY <1>1, <1>4, <1>7
  <2> QED BY <2>2, <2>3, <1>1 DEF Placed
<1> QED BY <1>1, <1>2, <1>9, BetweenKeeps

(* A chunk that arrives. *)
LEMMA FeedKeeps ==
  ASSUME UploadConstants, UploadInv, NEW n \in 1 .. ChunkMax, Feed(n)
  PROVE  UploadInv'
PROOF
<1>1. input' = n /\ parser' = [parser EXCEPT !.pushed = 0] /\ sent' = sent /\ given' = given
  BY DEF Feed
<1>2. parser \in Parsers /\ ChunkMax \in Nat
  BY DEF UploadInv, UploadConstants
<1>3. /\ parser' \in Parsers /\ parser'.phase = parser.phase /\ parser'.matched = parser.matched
      /\ parser'.first = parser.first /\ parser'.headers = parser.headers /\ parser'.pushed = 0
  BY <1>1, <1>2 DEF Parsers
<1>4. parser'.pushed + parser'.matched + input' < ChunkMax + Len(Delim)
  <2>1. parser.matched \in 0 .. Len(Delim) - 1 /\ Len(Delim) \in Nat
    BY <1>2, DelimIs DEF Parsers
  <2> QED BY <2>1, <1>1, <1>2, <1>3
<1>5. Searched' = Searched /\ Home' = Home /\ Read' = Read
  BY <1>1, <1>3 DEF Searched, Home, Read
<1>6. Placed
  BY DEF UploadInv
<1>7. Placed'
  <2>1. (Within <=> Within') /\ (Behind <=> Behind') /\ (InDelimiter <=> InDelimiter')
    BY <1>1, <1>3, <1>5 DEF Within, Behind, InDelimiter, GivenBut
  <2>2. CASE parser.phase \in {"preamble", "body"}
    BY <2>1, <2>2, <1>3, <1>6 DEF Placed
  <2>3. CASE parser.phase = "after"
    BY <2>3, <1>1, <1>3, <1>6 DEF Placed
  <2>4. CASE parser.phase = "headers"
    BY <2>4, <1>1, <1>3, <1>6 DEF Placed
  <2>5. CASE parser.phase = "done"
    BY <2>5, <1>1, <1>3, <1>6 DEF Placed
  <2> QED BY <2>2, <2>3, <2>4, <2>5, <1>2 DEF Parsers
<1>8. sent' \in Sent /\ given' \in Parts /\ input' \in Nat
  BY <1>1, <1>2 DEF UploadInv
<1>9. ASSUME NEW i \in DOMAIN given'
      PROVE  /\ given'[i].name = sent'.parts[i].name
             /\ given'[i].ended = (i < Len(given') \/ parser'.phase # "body")
             /\ given'[i].ended = TRUE => given'[i].data = sent'.parts[i].data
  BY <1>1, <1>3 DEF UploadInv
<1>10. /\ Len(given') <= Len(sent'.parts)
       /\ parser'.phase = "preamble" => given' = <<>>
       /\ parser'.phase = "body" => given' # <<>>
  BY <1>1, <1>3 DEF UploadInv
<1> QED BY ONLY <1>3, <1>4, <1>7, <1>8, <1>9, <1>10 DEF UploadInv

(* A body that begins with the delimiter begins behind its line break.     *)
LEMMA UploadInvInit ==
  ASSUME UploadConstants
  PROVE  Init => UploadInv
PROOF
<1> SUFFICES ASSUME Init PROVE UploadInv
  OBVIOUS
<1>1. PICK parts \in Uploads, preamble \in Preambles :
        sent = [parts |-> parts, preamble |-> preamble,
                item |-> IF preamble = <<>> THEN 1 ELSE 0,
                at |-> IF preamble = <<>> THEN Len(Line) ELSE 0]
  BY DEF Init
<1>2. Len(Line) = 2 /\ Line \in Seq(Characters)
  BY DEF Line, UploadConstants
<1>3. /\ sent \in Sent /\ sent.parts = parts /\ sent.preamble = preamble
      /\ preamble = <<>> => sent.item = 1 /\ sent.at = 2
      /\ preamble # <<>> => sent.item = 0 /\ sent.at = 0
  BY <1>1, <1>2 DEF Sent
<1> DEFINE none == <<>>
<1>4. none \in Seq(Characters)
  OBVIOUS
<1>5. input = 0 /\ given = <<>>
      /\ parser = [phase |-> "preamble", matched |-> 2, first |-> none, headers |-> none,
                   pushed |-> 0]
  BY DEF Init
<1> HIDE DEF none
<1>6. /\ parser \in Parsers /\ parser.phase = "preamble" /\ parser.matched = 2
      /\ parser.pushed = 0
  BY <1>4, <1>5, DelimIs DEF Parsers
<1>7. /\ Home = 0 /\ Read = sent.at + 2
      /\ Searched = IF sent.preamble = <<>> THEN <<>> ELSE Line \o sent.preamble
  BY <1>6 DEF Home, Read, Searched
<1>8. \A c : GivenBut(c, Len(Searched)) /\ GivenBut(c, Read)
  BY <1>6 DEF GivenBut
<1>9. Placed
  <2>1. CASE preamble = <<>>
    <3>1. sent.item = Home + 1 /\ sent.at \in 1 .. Len(Delim) - 1 /\ parser.matched = sent.at
      BY <2>1, <1>3, <1>6, <1>7, DelimIs
    <3> QED BY <3>1, <1>6, <1>8 DEF Placed, InDelimiter
  <2>2. CASE preamble # <<>>
    <3>1. Searched = Line \o preamble /\ preamble \in Seq(Characters)
      BY <2>2, <1>3, <1>7 DEF UploadConstants
    <3>2. Follows(Line, preamble, Searched)
      BY <3>1, <1>2, Joined, Zenon
    <3>3. Len(preamble) \in Nat \ {0}
      BY <2>2, <3>1, EmptySeq
    <3>4. Len(Searched) = 2 + Len(preamble) /\ Searched[1] = CR /\ Searched[2] = LF
      BY <3>2, <1>2 DEF Follows, Line
    <3>5. Read = 2 /\ Read \in 0 .. Len(Searched) - 1
      BY <2>2, <3>3, <3>4, <1>3, <1>7
    <3>6. Partial(Searched, 2, 2)
      BY <3>4, DelimIs DEF Partial
    <3>7. sent.item = Home
      BY <2>2, <1>3, <1>7
    <3> QED BY <3>5, <3>6, <3>7, <1>6, <1>8 DEF Placed, Within
  <2> QED BY <2>1, <2>2
<1>10. given \in Parts /\ Len(given) = 0 /\ DOMAIN given = {}
  BY <1>5 DEF Parts
<1>11. Len(given) <= Len(sent.parts)
  BY <1>3, <1>10 DEF UploadConstants
<1>12. parser.pushed + parser.matched + input < ChunkMax + Len(Delim)
  <2>1. ChunkMax \in Nat \ {0}
    BY DEF UploadConstants
  <2>2. Len(Delim) \in Nat /\ Len(Delim) > 4
    BY DelimIs
  <2> QED BY <2>1, <2>2, <1>5, <1>6
<1> QED BY <1>3, <1>5, <1>6, <1>9, <1>10, <1>11, <1>12 DEF UploadInv

LEMMA UploadInvKept ==
  ASSUME UploadConstants
  PROVE  UploadInv /\ [Next]_partVars => UploadInv'
PROOF
<1> SUFFICES ASSUME UploadInv, [Next]_partVars PROVE UploadInv'
  OBVIOUS
<1>1. CASE \E n \in 1 .. ChunkMax : Feed(n)
  BY <1>1, FeedKeeps
<1>2. CASE Match
  BY <1>2, MatchKeeps, FoundKeeps
<1>3. CASE Mismatch
  BY <1>3, MismatchKeeps
<1>4. CASE AfterBoundary
  BY <1>4, AfterBoundaryKeeps
<1>5. CASE Headers
  BY <1>5, HeadersKeeps
<1>6. CASE Ignore
  BY <1>6, IgnoreKeeps
<1>7. CASE UNCHANGED partVars
  BY <1>7 DEF partVars, UploadInv, Placed, Within, Behind, InDelimiter, GivenBut, Searched,
              Home, Read
<1> QED BY <1>1, <1>2, <1>3, <1>4, <1>5, <1>6, <1>7 DEF Next

(* What has been given of the last part is a beginning of it, and once the *)
(* body has been sent, the parser knows that it has ended.                 *)
LEMMA UploadInvImplies ==
  ASSUME UploadConstants
  PROVE  UploadInv => PartsWhole
PROOF
<1> SUFFICES ASSUME UploadInv PROVE PartsWhole
  OBVIOUS
<1>1. parser \in Parsers /\ Placed /\ given \in Parts /\ sent \in Sent /\ input \in Nat
      /\ Len(given) <= Len(sent.parts)
  BY DEF UploadInv
<1>2. Len(sent.parts) \in Nat /\ Len(given) \in Nat /\ DOMAIN given = 1 .. Len(given)
  BY <1>1 DEF Sent, Parts, UploadConstants
<1>3. parser.phase # "error"
  BY <1>1 DEF Parsers
<1>4. parser.pushed < ChunkMax + Len(Delim)
  <2>1. parser.pushed \in Nat /\ parser.matched \in Nat
    BY <1>1, DelimIs DEF Parsers
  <2>2. parser.pushed + parser.matched + input < ChunkMax + Len(Delim)
    BY DEF UploadInv
  <2>3. ChunkMax \in Nat /\ Len(Delim) \in Nat /\ input \in Nat
    BY <1>1, DelimIs DEF UploadConstants
  <2> QED BY ONLY <2>1, <2>2, <2>3
<1>5. ASSUME NEW i \in DOMAIN given
      PROVE  /\ given[i].name = sent.parts[i].name
             /\ IsPrefix(given[i].data, sent.parts[i].data)
             /\ given[i].ended \/ i < Len(given) => given[i].data = sent.parts[i].data
  <2>1. /\ given[i].name = sent.parts[i].name
        /\ given[i].ended = (i < Len(given) \/ parser.phase # "body")
        /\ given[i].ended = TRUE => given[i].data = sent.parts[i].data
    BY DEF UploadInv
  <2>2. CASE i < Len(given) \/ parser.phase # "body"
    <3>1. given[i].data = sent.parts[i].data
      BY <2>1, <2>2
    <3>2. \A s : IsPrefix(s, s) <=> Len(s) <= Len(s)
      BY DEF IsPrefix
    <3>3. Len(given[i].data) \in Nat
      <4> DEFINE Kind == [name : Characters, data : Seq(Characters), ended : BOOLEAN]
      <4>1. given \in Seq(Kind)
        BY <1>1 DEF Parts
      <4> HIDE DEF Kind
      <4>2. given[i] \in Kind
        BY <4>1
      <4>3. given[i].data \in Seq(Characters)
        BY <4>2 DEF Kind
      <4> QED BY <4>3
    <3> QED BY <3>1, <3>2, <3>3, <2>1
  <2>3. CASE ~(i < Len(given)) /\ parser.phase = "body"
    <3>1. i = Len(given)
      BY <2>3, <1>2
    <3>2. Searched = sent.parts[i].data
      BY <3>1, <2>3, LastIs
    <3>3. Searched \in Seq(Characters) /\ Len(Searched) \in Nat
      BY <2>3, SearchIs
    <3>4. PICK c \in 0 .. Len(Searched) : given[i].data = SubSeq(Searched, 1, c)
      <4>1. parser.matched \in 0 .. Len(Delim) - 1 /\ Len(Delim) \in Nat
        BY <1>1, DelimIs DEF Parsers
      <4>2. CASE Within
        <5>1. /\ Read \in 0 .. Len(Searched) - 1 /\ parser.matched <= Read
              /\ GivenBut(parser.matched, Read)
          BY <4>2 DEF Within, Partial
        <5>2. given[i].data = SubSeq(Searched, 1, Read - parser.matched)
          BY <5>1, <3>1, <2>3 DEF GivenBut
        <5>3. Read - parser.matched \in 0 .. Len(Searched)
          BY <5>1, <4>1, <3>3
        <5> QED BY <5>2, <5>3
      <4>3. CASE Behind
        <5>1. parser.matched <= Len(Searched) /\ GivenBut(parser.matched, Len(Searched))
          BY <4>3 DEF Behind, Partial
        <5>2. given[i].data = SubSeq(Searched, 1, Len(Searched) - parser.matched)
          BY <5>1, <3>1, <2>3 DEF GivenBut
        <5>3. Len(Searched) - parser.matched \in 0 .. Len(Searched)
          BY <5>1, <4>1, <3>3
        <5> QED BY <5>2, <5>3
      <4>4. CASE InDelimiter
        <5>1. GivenBut(0, Len(Searched))
          BY <4>4 DEF InDelimiter
        <5>2. given[i].data = SubSeq(Searched, 1, Len(Searched) - 0)
          BY <5>1, <3>1, <2>3 DEF GivenBut
        <5>3. Len(Searched) - 0 \in 0 .. Len(Searched)
          BY <3>3
        <5> QED BY <5>2, <5>3
      <4> QED BY <4>2, <4>3, <4>4, <2>3, CharIs
    <3>5. IsPrefix(SubSeq(Searched, 1, c), Searched)
      <4> DEFINE start == SubSeq(Searched, 1, c)
      <4>1. start \in Seq(Characters) /\ Len(start) = c
        BY <3>3, SubSeqProperties
      <4>2. SubSeq(start, 1, Len(start)) = start
        BY <4>1, SubSeqFull
      <4> QED BY <4>1, <4>2, <3>3 DEF IsPrefix
    <3>6. ~given[i].ended
      BY <2>1, <2>3
    <3> QED BY <3>2, <3>4, <3>5, <3>6, <2>1, <2>3, Zenon
  <2> QED BY <2>2, <2>3, <1>1 DEF Parsers
<1>6. parser.phase = "done" => Len(given) = Len(sent.parts)
  BY <1>1 DEF Placed
<1>7. AllSent => parser.phase = "done"
  <2> SUFFICES ASSUME parser.phase # "done" PROVE sent.item <= Len(sent.parts) + 1
    BY <1>1, <1>2 DEF AllSent, Sent
  <2>1. CASE parser.phase \in {"after", "headers"}
    BY <2>1, <1>1, <1>2, BehindIs
  <2>2. CASE parser.phase \in {"preamble", "body"}
    <3>1. sent.item = Home \/ sent.item = Home + 1
      BY <2>2, CharIs DEF Within, Behind, InDelimiter
    <3> QED BY <3>1, <2>2, <1>2, SearchIs
  <2> QED BY <2>1, <2>2, <1>1 DEF Parsers
<1> QED BY <1>1, <1>3, <1>4, <1>5, <1>6, <1>7 DEF PartsWhole
=============================================================================
