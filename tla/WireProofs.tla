----------------------------- MODULE WireProofs -----------------------------
(***************************************************************************)
(* Proofs about what crosses the wire, for texts of any length.            *)
(* About ResponseLexer: the framing cursor never leaves the committed      *)
(* bytes, never steps over a line end and hands out exactly the server's   *)
(* responses, for every stream, of whatever size the reads are.  About     *)
(* Astring and ParseCursor: what an argument, a quoted string, a literal   *)
(* or a number was rendered from is what is read from it.                  *)
(***************************************************************************)
EXTENDS ResponseLexer, ServerTokens, WellFoundedInduction, TLAPS

(* A line scan that has advanced resumes at the last byte at the latest:   *)
(* that byte may be the CR whose LF the next read brings.                  *)
ResumesAtLastByte == mode = "line" /\ line_start < scan_pos => scan_pos < size

(* A response that was found ends with the first CRLF of its last line,    *)
(* the line behind its last literal: consume_response() drops that one     *)
(* response and nothing of the next.                                       *)
IsLineEnd(i) == At(i) = "CR" /\ At(i + 1) = "LF"
EndsAtFirstLineEnd ==
    response_end # 0 =>
        /\ line_start <= response_end - 2
        /\ IsLineEnd(response_end - 2)
        /\ \A i \in line_start..(response_end - 3) : ~IsLineEnd(i)

(* The pump does not read while a response waits to be consumed, so the    *)
(* view it was handed stays valid.                                         *)
FoundInv == (waiting => response_end = 0) /\ EndsAtFirstLineEnd

(* The inductive invariant behind the two properties of the cursor.        *)
LexerInv == LexerTypeOK /\ CursorInBounds /\ ResumesAtLastByte /\ NoLineEndSkipped
-----------------------------------------------------------------------------
(* The least element of a set of naturals.                                 *)
LEMMA MinFacts ==
    ASSUME NEW S \in SUBSET Nat, S # {}
    PROVE  Min(S) \in S /\ \A y \in S : Min(S) <= y
<1> DEFINE Less == OpToRel(<, Nat)
<1>1. IsWellFoundedOn(Less, Nat)
  BY NatLessThanWellFounded, Zenon
<1>2. \A x, y \in Nat : x < y => <<x, y>> \in Less
  BY DEF OpToRel
<1> HIDE DEF Less
<1>3. PICK x \in S : \A y \in S : ~(<<y, x>> \in Less)
  BY <1>1, WFMin
<1>4. \A y \in S : x \in Nat /\ y \in Nat /\ ~(y < x)
  BY <1>2, <1>3, Zenon
<1>5. \A y \in S : x <= y
  BY <1>4
<1> QED BY <1>5 DEF Min

(* The line end the scan finds lies at or behind the scan position, wholly *)
(* inside the committed bytes.                                             *)
LEMMA LineEndInside ==
    ASSUME LexerInv, LineEnds # {}
    PROVE  /\ eol \in Nat /\ scan_pos <= eol /\ eol + 2 <= size
           /\ IsLineEnd(eol)
           /\ \A i \in scan_pos..(eol - 1) : ~IsLineEnd(i)
<1>1. LineEnds \in SUBSET Nat
  BY DEF LineEnds, LexerInv, LexerTypeOK, size
<1>2. eol \in LineEnds /\ \A i \in LineEnds : eol <= i
  BY <1>1, MinFacts DEF eol
<1>3. eol \in Nat /\ scan_pos <= eol /\ eol + 2 <= size /\ IsLineEnd(eol)
  BY <1>2 DEF LineEnds, LexerInv, LexerTypeOK, size, IsLineEnd
<1>4. ASSUME NEW i \in scan_pos..(eol - 1) PROVE ~IsLineEnd(i)
  <2>1. i \notin LineEnds /\ i \in scan_pos..(size - 2)
    BY <1>2, <1>3 DEF LexerInv, LexerTypeOK, size
  <2> QED BY <2>1 DEF LineEnds, IsLineEnd
<1> QED BY <1>3, <1>4

(* A literal's octet count is a number.                                    *)
LEMMA TrailerType ==
    ASSUME NEW l, literal_trailer(l) # NoLiteral
    PROVE  literal_trailer(l) \in Nat
<1>1. literal_trailer(l) \in 0..Max64
  BY Zenon DEF literal_trailer
<1> QED BY <1>1, WidthAssumption

(* Every turn of the lexer's loop and of the pump around it keeps LexerInv. *)
LEMMA LexerInductive == LexerInv /\ [LexerNext]_lexerVars => LexerInv'
<1> SUFFICES ASSUME LexerInv, [LexerNext]_lexerVars PROVE LexerInv'
  OBVIOUS
<1> USE DEF LexerInv, LexerTypeOK, CursorInBounds, ResumesAtLastByte, size, At
<1>1. ASSUME LiteralShort PROVE LexerInv'
  BY <1>1 DEF LiteralShort, cursorVars, NoLineEndSkipped
<1>2. ASSUME LiteralDone PROVE LexerInv'
  BY <1>2 DEF LiteralDone, Scanning, NoLineEndSkipped
<1>3. ASSUME LineShort PROVE LexerInv'
  <2>1. /\ scan_pos' = IF size > line_start THEN size - 1 ELSE line_start
        /\ UNCHANGED <<stream, buffer, mode, line_start, literal_remaining,
                       response_end>>
        /\ waiting' = TRUE /\ mode = "line"
    BY <1>3 DEF LineShort
  <2>2. LexerTypeOK' /\ CursorInBounds' /\ ResumesAtLastByte'
    BY <2>1
  <2>3. ASSUME NEW i \in line_start..(scan_pos' - 1), i + 1 < size
        PROVE  ~(At(i) = "CR" /\ At(i + 1) = "LF")
    <3>1. CASE i < scan_pos
      BY <2>1, <2>3, <3>1 DEF NoLineEndSkipped
    <3>2. CASE i >= scan_pos
      <4>1. i \in scan_pos..(size - 2)
        BY <2>3, <3>2
      <4> QED BY <1>3, <4>1 DEF LineShort, LineEnds
    <3> QED BY <2>1, <2>3, <3>1, <3>2
  <2> QED BY <2>1, <2>2, <2>3 DEF NoLineEndSkipped
<1>4. ASSUME LineOpensLiteral PROVE LexerInv'
  <2>1. literal_remaining' \in Nat
    BY <1>4, TrailerType DEF LineOpensLiteral
  <2> QED BY <1>4, <2>1, LineEndInside DEF LineOpensLiteral, NoLineEndSkipped
<1>5. ASSUME LineComplete PROVE LexerInv'
  BY <1>5, LineEndInside DEF LineComplete, NoLineEndSkipped
<1>6. ASSUME Consume PROVE LexerInv'
  <2>1. buffer' \in Seq(STRING)
    BY <1>6 DEF Consume, View
  <2> QED BY <1>6, <2>1 DEF Consume, NoLineEndSkipped
<1>7. ASSUME NEW n \in 1..MaxRead, Commit(n) PROVE LexerInv'
  <2>1. /\ buffer' = buffer \o SubSeq(stream, 1, n) /\ n \in 1..Len(stream)
        /\ stream' = SubSeq(stream, n + 1, Len(stream))
        /\ waiting' = FALSE
        /\ UNCHANGED <<mode, scan_pos, line_start, literal_remaining, response_end>>
    BY <1>7 DEF Commit, cursorVars
  <2>2. SubSeq(stream, 1, n) \in Seq(STRING) /\ stream' \in Seq(STRING)
    BY <2>1
  <2>3. /\ buffer' \in Seq(STRING) /\ Len(buffer') >= Len(buffer)
        /\ \A j \in 1..Len(buffer) : buffer'[j] = buffer[j]
    <3> DEFINE more == SubSeq(stream, 1, n)
    <3>1. more \in Seq(STRING) /\ buffer' = buffer \o more
      BY <2>1, <2>2
    <3> HIDE DEF more
    <3> QED BY <3>1
  <2>4. LexerTypeOK'
    BY <2>1, <2>2, <2>3
  <2>5. CursorInBounds' /\ ResumesAtLastByte'
    BY <2>1, <2>3
  <2>6. NoLineEndSkipped'
    BY <2>1, <2>3 DEF NoLineEndSkipped
  <2> QED BY <2>4, <2>5, <2>6
<1>8. ASSUME UNCHANGED lexerVars PROVE LexerInv'
  BY <1>8 DEF lexerVars, cursorVars, NoLineEndSkipped
<1> QED BY <1>1, <1>2, <1>3, <1>4, <1>5, <1>6, <1>7, <1>8 DEF LexerNext

(* The invariant holds throughout.                                         *)
LEMMA LexerHolds == LexerSpec => []LexerInv
<1>1. LexerInit => LexerInv
  BY LexerAssumption
  DEF LexerInit, CursorInit, LexerInv, LexerTypeOK, CursorInBounds, ResumesAtLastByte,
      NoLineEndSkipped, size
<1> QED BY <1>1, LexerInductive, PTL DEF LexerSpec

-----------------------------------------------------------------------------
(* The unsigned differences of next_complete_response() never wrap around, *)
(* and consume_response() is never asked for more bytes than there are.    *)
THEOREM CursorInBoundsHolds == LexerSpec => []CursorInBounds
<1>1. LexerInv => CursorInBounds
  BY DEF LexerInv
<1> QED BY <1>1, LexerHolds, PTL

(* However the reads cut the stream, a CR and its LF too, the scan passes  *)
(* over no line end.                                                       *)
THEOREM NoLineEndSkippedHolds == LexerSpec => []NoLineEndSkipped
<1>1. LexerInv => NoLineEndSkipped
  BY DEF LexerInv
<1> QED BY <1>1, LexerHolds, PTL

(* What was found stays found until it is consumed.                        *)
LEMMA FoundHolds == LexerSpec => []FoundInv
<1>1. LexerInit => FoundInv
  BY DEF LexerInit, CursorInit, FoundInv, EndsAtFirstLineEnd
<1>2. LexerInv /\ FoundInv /\ [LexerNext]_lexerVars => FoundInv'
  <2> SUFFICES ASSUME LexerInv, FoundInv, [LexerNext]_lexerVars PROVE FoundInv'
    OBVIOUS
  <2> USE DEF FoundInv, EndsAtFirstLineEnd
  <2>1. ASSUME LiteralShort \/ LiteralDone \/ LineShort \/ LineOpensLiteral
        PROVE  FoundInv'
    BY <2>1 DEF LiteralShort, LiteralDone, LineShort, LineOpensLiteral, Scanning,
                cursorVars
  <2>2. ASSUME LineComplete PROVE FoundInv'
    <3>1. /\ response_end' = eol + 2 /\ ~waiting' /\ mode = "line"
          /\ UNCHANGED <<buffer, line_start, scan_pos>>
      BY <2>2 DEF LineComplete, Scanning
    <3>2. /\ eol \in Nat /\ scan_pos <= eol /\ eol + 2 <= size /\ IsLineEnd(eol)
          /\ \A i \in scan_pos..(eol - 1) : ~IsLineEnd(i)
      BY <2>2, LineEndInside DEF LineComplete
    <3>3. ASSUME NEW i \in line_start..(eol - 1) PROVE ~IsLineEnd(i)
      <4>1. CASE i < scan_pos
        BY <3>1, <3>2, <3>3, <4>1
        DEF LexerInv, LexerTypeOK, NoLineEndSkipped, IsLineEnd, size
      <4>2. CASE i >= scan_pos
        BY <3>2, <3>3, <4>2 DEF LexerInv, LexerTypeOK
      <4> QED BY <3>3, <4>1, <4>2 DEF LexerInv, LexerTypeOK
    <3>4. line_start <= eol /\ line_start \in Nat
      BY <3>2 DEF LexerInv, LexerTypeOK, CursorInBounds
    <3>5. \A i : IsLineEnd(i)' <=> IsLineEnd(i)
      BY <3>1 DEF IsLineEnd, At
    <3> QED BY <3>1, <3>2, <3>3, <3>4, <3>5
  <2>3. ASSUME Consume PROVE FoundInv'
    BY <2>3 DEF Consume
  <2>4. ASSUME NEW n \in 1..MaxRead, Commit(n) PROVE FoundInv'
    BY <2>4 DEF Commit, cursorVars
  <2>5. ASSUME UNCHANGED lexerVars PROVE FoundInv'
    BY <2>5 DEF lexerVars, cursorVars, IsLineEnd, At
  <2> QED BY <2>1, <2>2, <2>3, <2>4, <2>5 DEF LexerNext
<1> QED BY <1>1, <1>2, LexerHolds, PTL DEF LexerSpec

(* Every response handed out is framed at the first line end behind its    *)
(* last literal.                                                           *)
THEOREM ResponseEndsAtFirstLineEnd == LexerSpec => []EndsAtFirstLineEnd
<1>1. FoundInv => EndsAtFirstLineEnd
  BY DEF FoundInv
<1> QED BY <1>1, FoundHolds, PTL
-----------------------------------------------------------------------------
(* Exact framing.                                                          *)

(* The responses consumed so far, and where the buffer begins in the text. *)
Consumed == Len(extracted) - (IF response_end = 0 THEN 0 ELSE 1)
base == Begin(script, Consumed + 1)

(* The buffer and what is still to come are the rest of the text.          *)
Remainder ==
    /\ base + Len(buffer) + Len(stream) = Len(script.text)
    /\ \A i \in 1..Len(buffer) : buffer[i] = script.text[base + i]
    /\ \A i \in 1..Len(stream) : stream[i] = script.text[base + Len(buffer) + i]

(* The cursor stands in a line of the response it is looking for: at the   *)
(* start of one, or before a literal behind which one starts.              *)
InStep ==
    Consumed < Len(script.ends) =>
        /\ response_end # 0 => base + response_end = script.ends[Consumed + 1]
        /\ mode = "line" =>
             /\ base + line_start \in script.starts
             /\ base + line_start < script.ends[Consumed + 1]
        /\ mode = "literal" =>
             /\ base + scan_pos + literal_remaining \in script.starts
             /\ base + scan_pos + literal_remaining < script.ends[Consumed + 1]

(* When everything was consumed the cursor is at rest.                     *)
Delivered ==
    /\ extracted \in Seq(Seq(STRING))
    /\ response_end # 0 => Len(extracted) > 0 /\ mode = "line"
    /\ Consumed = Len(script.ends) => mode = "line"

FramingInv == script \in Streams /\ Remainder /\ InStep /\ Delivered /\ FramingExact

Framed == LexerInv /\ FoundInv /\ FramingInv
ScriptsFramed == \A s \in Streams : WellFramed(s)

(* Where the buffer begins in the text.                                    *)
LEMMA BaseFacts ==
    ASSUME ScriptsFramed, Framed
    PROVE  /\ script.text \in Seq(STRING) /\ script.ends \in Seq(Nat)
           /\ script.starts \subseteq Nat /\ script.replies \in Seq(Seq(STRING))
           /\ Len(script.ends) = Len(script.replies)
           /\ Consumed \in 0..Len(script.ends)
           /\ base \in Nat /\ base <= Len(script.text)
           /\ Consumed = Len(script.ends) => base = Len(script.text)
           /\ \A j, k \in 1..Len(script.ends) : j < k => script.ends[j] < script.ends[k]
           /\ \A k \in 1..Len(script.ends) : script.ends[k] \in Nat
<1>1. /\ script.text \in Seq(STRING) /\ script.ends \in Seq(Nat)
      /\ script.starts \subseteq Nat /\ script.replies \in Seq(Seq(STRING))
  BY LexerAssumption DEF Framed, FramingInv
<1>2. /\ Len(script.ends) = Len(script.replies)
      /\ Begin(script, Len(script.ends) + 1) = Len(script.text)
      /\ \A j, k \in 1..Len(script.ends) : j < k => script.ends[j] < script.ends[k]
      /\ \A k \in 1..Len(script.ends) : script.ends[k] <= Len(script.text)
  BY DEF Framed, FramingInv, ScriptsFramed, WellFramed
<1>3. Consumed \in 0..Len(script.ends)
  <2>1. /\ Len(extracted) \in Nat /\ Len(extracted) <= Len(script.replies)
        /\ response_end # 0 => Len(extracted) > 0
    BY DEF Framed, FramingInv, Delivered, FramingExact
  <2> QED BY <1>1, <1>2, <2>1 DEF Consumed
<1>4. base \in Nat /\ base <= Len(script.text)
  <2>1. CASE Consumed = 0
    BY <1>1, <2>1 DEF base, Begin
  <2>2. CASE Consumed # 0
    <3>1. base = script.ends[Consumed] /\ Consumed \in 1..Len(script.ends)
      BY <1>1, <1>3, <2>2 DEF base, Begin
    <3> QED BY <1>1, <1>2, <3>1
  <2> QED BY <2>1, <2>2
<1>5. Consumed = Len(script.ends) => base = Len(script.text)
  BY <1>2 DEF base
<1>6. \A k \in 1..Len(script.ends) : script.ends[k] \in Nat
  BY <1>1
<1> QED BY <1>1, <1>2, <1>3, <1>4, <1>5, <1>6

(* A line end of the buffer is one of the text.                            *)
LEMMA SameLineEnds ==
    ASSUME ScriptsFramed, Framed, NEW i \in Nat, i + 2 <= size
    PROVE  IsLineEnd(i) <=> LineEndAt(script.text, base + i)
<1>1. buffer[i + 1] = script.text[base + (i + 1)] /\ buffer[i + 2] = script.text[base + (i + 2)]
  <2>1. i + 1 \in 1..Len(buffer) /\ i + 2 \in 1..Len(buffer)
    BY DEF size, Framed, LexerInv, LexerTypeOK
  <2> QED BY <2>1 DEF Framed, FramingInv, Remainder
<1>2. base \in Nat
  BY BaseFacts
<1>3. /\ base + (i + 1) = base + i + 1 /\ base + (i + 2) = base + i + 2
      /\ i + 1 + 1 = i + 2
  BY <1>2
<1> QED BY <1>1, <1>3 DEF IsLineEnd, At, LineEndAt

(* A piece of the buffer is a piece of the text.                           *)
LEMMA SameView ==
    ASSUME ScriptsFramed, Framed, NEW a \in Nat, NEW b \in Nat, a <= b, b <= size
    PROVE  View(a, b) = SubSeq(script.text, base + a + 1, base + b)
<1> DEFINE v == View(a, b)
           w == SubSeq(script.text, base + a + 1, base + b)
<1>1. /\ base \in Nat /\ base + b <= Len(script.text) /\ script.text \in Seq(STRING)
      /\ buffer \in Seq(STRING)
      /\ \A i \in 1..Len(buffer) : buffer[i] = script.text[base + i]
  <2>1. base \in Nat /\ script.text \in Seq(STRING)
    BY BaseFacts, Zenon
  <2>2. /\ base + Len(buffer) + Len(stream) = Len(script.text)
        /\ \A i \in 1..Len(buffer) : buffer[i] = script.text[base + i]
        /\ buffer \in Seq(STRING) /\ stream \in Seq(STRING)
    BY DEF Framed, FramingInv, Remainder, LexerInv, LexerTypeOK
  <2> QED BY <2>1, <2>2 DEF size
<1>2. /\ v \in Seq(STRING) /\ Len(v) = b - a
      /\ \A i \in 1..(b - a) : v[i] = buffer[a + i]
  BY <1>1 DEF View, size
<1>3. /\ w \in Seq(STRING) /\ Len(w) = b - a
      /\ \A i \in 1..(b - a) : w[i] = script.text[base + a + i]
  BY <1>1 DEF size
<1>4. ASSUME NEW i \in 1..(b - a) PROVE v[i] = w[i]
  <2>1. a + i \in 1..Len(buffer) /\ base + (a + i) = base + a + i
    BY <1>1 DEF size
  <2> QED BY <1>1, <1>2, <1>3, <2>1
<1> HIDE DEF v, w
<1>5. v = w
  BY <1>2, <1>3, <1>4
<1> QED BY <1>5 DEF v, w

(* What WellFramed says of the line the cursor is in.                      *)
LEMMA CurrentLine ==
    ASSUME ScriptsFramed, Framed, mode = "line", response_end = 0,
           Consumed < Len(script.ends)
    PROVE  \E e \in (base + line_start)..(script.ends[Consumed + 1] - 2) :
              /\ LineEndAt(script.text, e)
              /\ \A i \in (base + line_start)..(e - 1) : ~LineEndAt(script.text, i)
              /\ LET n == literal_trailer(SubSeq(script.text, base + line_start + 1, e))
                 IN  IF n = NoLiteral THEN e + 2 = script.ends[Consumed + 1]
                     ELSE /\ e + 2 + n \in script.starts
                          /\ e + 2 + n < script.ends[Consumed + 1]
<1>1. Consumed + 1 \in 1..Len(script.ends) /\ Begin(script, Consumed + 1) = base
  BY BaseFacts DEF base
<1>2. /\ base + line_start \in script.starts
      /\ base + line_start < script.ends[Consumed + 1]
      /\ base <= base + line_start
  BY BaseFacts DEF Framed, FramingInv, InStep, LexerInv, LexerTypeOK
<1>3. LineAt(script, base + line_start, script.ends[Consumed + 1])
  <2>1. \A k \in 1..Len(script.ends) : \A p \in script.starts :
          Begin(script, k) <= p /\ p < script.ends[k] => LineAt(script, p, script.ends[k])
    BY DEF Framed, FramingInv, ScriptsFramed, WellFramed
  <2> QED BY <1>1, <1>2, <2>1
<1> QED BY <1>3 DEF LineAt

(* The line end found is the one the server ended the line with.           *)
LEMMA FoundLine ==
    ASSUME ScriptsFramed, Framed, mode = "line", response_end = 0, LineEnds # {}
    PROVE  /\ Consumed < Len(script.ends)
           /\ eol \in Nat /\ eol + 2 <= size /\ line_start <= eol
           /\ IF literal_trailer(line) = NoLiteral
              THEN base + eol + 2 = script.ends[Consumed + 1]
              ELSE /\ base + eol + 2 + literal_trailer(line) \in script.starts
                   /\ base + eol + 2 + literal_trailer(line) < script.ends[Consumed + 1]
<1>1. /\ eol \in Nat /\ scan_pos <= eol /\ eol + 2 <= size /\ IsLineEnd(eol)
      /\ \A i \in scan_pos..(eol - 1) : ~IsLineEnd(i)
  BY LineEndInside DEF Framed
<1>2. /\ line_start \in Nat /\ scan_pos \in Nat /\ size \in Nat
      /\ line_start <= scan_pos /\ base \in Nat
      /\ base + size <= Len(script.text) /\ Len(script.text) \in Nat
      /\ Consumed \in 0..Len(script.ends) /\ script.ends \in Seq(Nat)
  BY BaseFacts DEF Framed, FramingInv, Remainder, LexerInv, LexerTypeOK, CursorInBounds, size
<1>3. Consumed < Len(script.ends)
  BY <1>1, <1>2, BaseFacts
<1>4. PICK e \in (base + line_start)..(script.ends[Consumed + 1] - 2) :
        /\ LineEndAt(script.text, e)
        /\ \A i \in (base + line_start)..(e - 1) : ~LineEndAt(script.text, i)
        /\ LET n == literal_trailer(SubSeq(script.text, base + line_start + 1, e))
           IN  IF n = NoLiteral THEN e + 2 = script.ends[Consumed + 1]
               ELSE /\ e + 2 + n \in script.starts
                    /\ e + 2 + n < script.ends[Consumed + 1]
  BY <1>3, CurrentLine
<1>5. script.ends[Consumed + 1] \in Nat
  <2>1. Consumed + 1 \in 1..Len(script.ends)
    BY <1>2, <1>3
  <2> QED BY <1>2, <2>1
<1>6. \A i \in line_start..(eol - 1) : ~IsLineEnd(i)
  <2> TAKE i \in line_start..(eol - 1)
  <2>1. CASE i < scan_pos
    <3>1. i \in line_start..(scan_pos - 1) /\ i + 1 < size
      BY <1>1, <1>2, <2>1
    <3> QED BY <3>1 DEF Framed, LexerInv, NoLineEndSkipped, IsLineEnd
  <2>2. CASE i >= scan_pos
    BY <1>1, <1>2, <2>2
  <2> QED BY <1>1, <1>2, <2>1, <2>2
<1>7. e = base + eol
  <2>1. ~(e < base + eol)
    <3> SUFFICES ASSUME e < base + eol PROVE FALSE
      OBVIOUS
    <3>1. /\ e - base \in line_start..(eol - 1) /\ e - base \in Nat
          /\ e - base + 2 <= size /\ base + (e - base) = e
      BY <1>1, <1>2, <1>5
    <3>2. IsLineEnd(e - base) <=> LineEndAt(script.text, e)
      BY <3>1, SameLineEnds
    <3> QED BY <1>4, <1>6, <3>1, <3>2
  <2>2. ~(base + eol < e)
    <3> SUFFICES ASSUME base + eol < e PROVE FALSE
      OBVIOUS
    <3>1. base + eol \in (base + line_start)..(e - 1)
      BY <1>1, <1>2, <1>5
    <3>2. LineEndAt(script.text, base + eol)
      BY <1>1, SameLineEnds
    <3> QED BY <1>4, <3>1, <3>2
  <2> QED BY <1>1, <1>2, <1>5, <2>1, <2>2
<1>8. line = SubSeq(script.text, base + line_start + 1, e)
  <2>1. line_start <= eol /\ eol <= size
    BY <1>1, <1>2
  <2> QED BY <1>1, <1>2, <1>7, <2>1, SameView DEF line
<1>9. line_start <= eol
  BY <1>1, <1>2
<1> QED BY <1>1, <1>3, <1>4, <1>7, <1>8, <1>9

(* Without a line end in the buffer the response has not arrived yet.      *)
LEMMA NoLineYet ==
    ASSUME ScriptsFramed, Framed, mode = "line", response_end = 0, LineEnds = {},
           Consumed < Len(script.ends)
    PROVE  base + size < script.ends[Consumed + 1]
<1>1. PICK e \in (base + line_start)..(script.ends[Consumed + 1] - 2) :
        LineEndAt(script.text, e)
  BY CurrentLine
<1>2. /\ line_start \in Nat /\ scan_pos \in Nat /\ size \in Nat
      /\ line_start <= scan_pos
  BY DEF Framed, LexerInv, LexerTypeOK, CursorInBounds, size
<1>3. base \in Nat /\ script.ends[Consumed + 1] \in Nat
  <2>1. /\ base \in Nat /\ Consumed \in 0..Len(script.ends) /\ script.ends \in Seq(Nat)
        /\ \A k \in 1..Len(script.ends) : script.ends[k] \in Nat
    BY BaseFacts, Zenon
  <2>2. Consumed + 1 \in 1..Len(script.ends)
    BY <2>1
  <2> QED BY <2>1, <2>2
<1> SUFFICES ASSUME e + 2 <= base + size PROVE FALSE
  BY <1>1, <1>2, <1>3
<1>4. /\ e - base \in Nat /\ e - base + 2 <= size /\ base + (e - base) = e
      /\ line_start <= e - base
  BY <1>1, <1>2, <1>3
<1>5. IsLineEnd(e - base)
  BY <1>1, <1>4, SameLineEnds
<1>6. CASE e - base < scan_pos
  <2>1. e - base \in line_start..(scan_pos - 1) /\ (e - base) + 1 < size
    BY <1>2, <1>4, <1>6
  <2> QED BY <1>5, <2>1 DEF Framed, LexerInv, NoLineEndSkipped, IsLineEnd
<1>7. CASE e - base >= scan_pos
  <2>1. e - base \in scan_pos..(size - 2)
    BY <1>2, <1>4, <1>7
  <2> QED BY <1>5, <2>1 DEF LineEnds, IsLineEnd
<1> QED BY <1>2, <1>4, <1>6, <1>7

(* When the response being looked for has not arrived, no later one has.   *)
LEMMA NothingHeldBack ==
    ASSUME ScriptsFramed, Framed, response_end = 0,
           Consumed < Len(script.ends) => base + size < script.ends[Consumed + 1],
           NEW k \in 1..Len(script.replies), Arrived(k)
    PROVE  k <= Len(extracted)
<1>1. Consumed = Len(extracted) /\ Len(extracted) \in Nat
  BY DEF Consumed, Framed, FramingInv, Delivered
<1>2. /\ size \in Nat /\ Len(stream) \in Nat
      /\ base + size + Len(stream) = Len(script.text)
  BY DEF Framed, FramingInv, Remainder, LexerInv, LexerTypeOK, size
<1>3. base \in Nat /\ k \in 1..Len(script.ends) /\ Consumed \in 0..Len(script.ends)
  BY BaseFacts
<1>4. script.ends[k] \in Nat
  BY <1>3, BaseFacts
<1> SUFFICES ASSUME k > Consumed PROVE FALSE
  BY <1>1, <1>2, <1>3
<1>5. Consumed + 1 \in 1..Len(script.ends) /\ Consumed < Len(script.ends)
  BY <1>3
<1>6. script.ends[Consumed + 1] \in Nat /\ base + size < script.ends[Consumed + 1]
  BY <1>5, BaseFacts
<1>7. script.ends[Consumed + 1] <= script.ends[k]
  <2>1. CASE k = Consumed + 1
    BY <1>4, <2>1
  <2>2. CASE k > Consumed + 1
    <3>1. script.ends[Consumed + 1] < script.ends[k]
      BY <1>3, <1>5, <2>2, BaseFacts
    <3> QED BY <1>4, <1>6, <3>1
  <2> QED BY <1>3, <2>1, <2>2
<1>8. script.ends[k] <= base + size
  BY <1>2, <1>3, <1>4 DEF Arrived
<1> QED BY <1>2, <1>7, <1>8, <1>3, <1>4, <1>6
(* What a step that leaves the text's pieces and the responses alone needs *)
(* to show.                                                                *)
LEMMA FramingKept ==
    ASSUME ScriptsFramed, Framed, response_end = 0,
           UNCHANGED <<script, stream, buffer, extracted, response_end>>,
           InStep', Consumed = Len(script.ends) => mode' = "line",
           waiting' => waiting \/ (Consumed < Len(script.ends) =>
                                      base + size < script.ends[Consumed + 1])
    PROVE  FramingInv'
<1>1. Consumed' = Consumed /\ base' = base
  BY DEF Consumed, base
<1>2. script' \in Streams /\ Remainder' /\ Delivered'
  BY <1>1 DEF Framed, FramingInv, Remainder, Delivered
<1>3. FramingExact'
  <2>1. \A k : Arrived(k)' <=> Arrived(k)
    BY DEF Arrived
  <2>2. waiting' => \A k \in 1..Len(script.replies) : Arrived(k) => k <= Len(extracted)
    <3>1. CASE waiting
      BY <3>1 DEF Framed, FramingInv, FramingExact
    <3>2. CASE ~waiting
      BY <3>2, NothingHeldBack
    <3> QED BY <3>1, <3>2
  <2> QED BY <2>1, <2>2 DEF Framed, FramingInv, FramingExact
<1> QED BY <1>2, <1>3 DEF FramingInv

(* A read moves octets from the stream to the end of the buffer.           *)
LEMMA CommitKeepsFraming ==
    ASSUME ScriptsFramed, Framed, NEW n \in 1..MaxRead, Commit(n)
    PROVE  FramingInv'
<1>1. /\ buffer' = buffer \o SubSeq(stream, 1, n) /\ n \in 1..Len(stream)
      /\ stream' = SubSeq(stream, n + 1, Len(stream)) /\ waiting' = FALSE
      /\ UNCHANGED <<script, mode, scan_pos, line_start, literal_remaining,
                     response_end, extracted>>
  BY DEF Commit, cursorVars
<1>2. Consumed' = Consumed /\ base' = base
  BY <1>1 DEF Consumed, base
<1>3. buffer \in Seq(STRING) /\ stream \in Seq(STRING) /\ base \in Nat
  BY BaseFacts DEF Framed, LexerInv, LexerTypeOK
<1>4. /\ base + Len(buffer) + Len(stream) = Len(script.text)
      /\ \A i \in 1..Len(buffer) : buffer[i] = script.text[base + i]
      /\ \A i \in 1..Len(stream) : stream[i] = script.text[base + Len(buffer) + i]
  BY DEF Framed, FramingInv, Remainder
<1> DEFINE more == SubSeq(stream, 1, n)
<1>5. more \in Seq(STRING) /\ Len(more) = n /\ \A i \in 1..n : more[i] = stream[i]
  BY <1>1, <1>3
<1>6. buffer' = buffer \o more
  BY <1>1
<1> HIDE DEF more
<1>7. /\ Len(buffer') = Len(buffer) + n
      /\ \A i \in 1..Len(buffer) : buffer'[i] = buffer[i]
      /\ \A i \in 1..n : buffer'[Len(buffer) + i] = more[i]
  BY <1>3, <1>5, <1>6
<1>8. /\ Len(stream') = Len(stream) - n
      /\ \A i \in 1..Len(stream') : stream'[i] = stream[n + i]
  BY <1>1, <1>3
<1>9. Remainder'
  <2>1. base + Len(buffer') + Len(stream') = Len(script.text)
    <3>1. Len(buffer) \in Nat /\ Len(stream) \in Nat /\ n \in Nat /\ base \in Nat
      BY <1>1, <1>3
    <3>2. /\ Len(buffer') = Len(buffer) + n /\ Len(stream') = Len(stream) - n
          /\ base + Len(buffer) + Len(stream) = Len(script.text)
      BY <1>4, <1>7, <1>8
    <3> QED BY <3>1, <3>2
  <2>2. ASSUME NEW i \in 1..Len(buffer') PROVE buffer'[i] = script.text[base + i]
    <3>1. CASE i \in 1..Len(buffer)
      BY <1>4, <1>7, <3>1
    <3>2. CASE i > Len(buffer)
      <4>1. /\ i - Len(buffer) \in 1..n /\ i - Len(buffer) \in 1..Len(stream)
            /\ Len(buffer) + (i - Len(buffer)) = i
            /\ base + Len(buffer) + (i - Len(buffer)) = base + i
        BY <1>1, <1>3, <1>7, <3>2
      <4>2. buffer'[i] = stream[i - Len(buffer)]
        BY <1>5, <1>7, <4>1
      <4>3. stream[i - Len(buffer)] = script.text[base + i]
        BY <1>4, <4>1
      <4> QED BY <4>2, <4>3
    <3> QED BY <1>3, <1>7, <3>1, <3>2
  <2>3. ASSUME NEW i \in 1..Len(stream')
        PROVE  stream'[i] = script.text[base + Len(buffer') + i]
    <3>1. n + i \in 1..Len(stream) /\ base + Len(buffer) + (n + i) = base + Len(buffer') + i
      BY <1>1, <1>3, <1>7, <1>8
    <3> QED BY <1>4, <1>8, <3>1
  <2> QED BY <1>1, <1>2, <2>1, <2>2, <2>3 DEF Remainder
<1>10. InStep' /\ Delivered'
  BY <1>1, <1>2 DEF InStep, Delivered, Framed, FramingInv
<1>11. FramingExact'
  BY <1>1 DEF Framed, FramingInv, FramingExact
<1> QED BY <1>1, <1>9, <1>10, <1>11 DEF FramingInv, Framed

(* What is handed out is the response the server sent next.                *)
LEMMA CompleteKeepsFraming ==
    ASSUME ScriptsFramed, Framed, LineComplete
    PROVE  FramingInv'
<1>1. /\ mode = "line" /\ LineEnds # {} /\ ~waiting /\ response_end = 0
      /\ literal_trailer(line) = NoLiteral
      /\ response_end' = eol + 2 /\ extracted' = Append(extracted, View(0, eol))
      /\ UNCHANGED <<script, stream, buffer, mode, scan_pos, line_start,
                     literal_remaining, waiting>>
  BY DEF LineComplete, Scanning
<1>2. /\ Consumed < Len(script.ends)
      /\ eol \in Nat /\ eol + 2 <= size
      /\ base + eol + 2 = script.ends[Consumed + 1]
  BY <1>1, FoundLine
<1>3. /\ extracted \in Seq(Seq(STRING)) /\ Len(extracted) = Consumed
      /\ Len(extracted) \in Nat /\ base \in Nat /\ size \in Nat
      /\ script.replies \in Seq(Seq(STRING)) /\ buffer \in Seq(STRING)
      /\ Len(script.ends) = Len(script.replies)
  BY <1>1, BaseFacts DEF Framed, FramingInv, Delivered, Consumed, LexerInv, LexerTypeOK, size
<1>4. View(0, eol) \in Seq(STRING)
  BY <1>2, <1>3 DEF View, size
<1> DEFINE v == View(0, eol)
<1>5. extracted' = Append(extracted, v) /\ v \in Seq(STRING)
  BY <1>1, <1>4
<1> HIDE DEF v
<1>6. /\ extracted' \in Seq(Seq(STRING)) /\ Len(extracted') = Len(extracted) + 1
      /\ \A k \in 1..Len(extracted) : extracted'[k] = extracted[k]
      /\ extracted'[Len(extracted) + 1] = v
  BY <1>3, <1>5
<1>7. Consumed' = Consumed /\ base' = base
  <2>1. response_end' # 0
    BY <1>1, <1>2
  <2>2. Consumed' = Consumed
    BY <1>3, <1>6, <2>1 DEF Consumed
  <2> QED BY <1>1, <2>2 DEF base
<1>8. v = script.replies[Consumed + 1]
  <2>1. v = SubSeq(script.text, base + 0 + 1, base + eol)
    <3>1. 0 \in Nat /\ eol \in Nat /\ 0 <= eol /\ eol <= size
      BY <1>2, <1>3
    <3> QED BY <3>1, SameView DEF v
  <2>2. base + 0 + 1 = base + 1 /\ base + eol = script.ends[Consumed + 1] - 2
    BY <1>2, <1>3
  <2>3. Consumed + 1 \in 1..Len(script.ends)
    BY <1>2, <1>3
  <2>4. script.replies[Consumed + 1] =
           SubSeq(script.text, base + 1, script.ends[Consumed + 1] - 2)
    BY <2>3 DEF Framed, FramingInv, ScriptsFramed, WellFramed, base
  <2> QED BY <2>1, <2>2, <2>4
<1>9. Remainder' /\ InStep'
  <2>1. base + response_end' = script.ends[Consumed + 1]
    BY <1>1, <1>2, <1>3
  <2> QED BY <1>1, <1>7, <2>1 DEF Remainder, InStep, Framed, FramingInv
<1>10. Delivered'
  BY <1>1, <1>3, <1>6 DEF Delivered, Framed, FramingInv
<1>11. FramingExact'
  <2>1. Len(extracted') <= Len(script.replies)
    BY <1>2, <1>3, <1>6
  <2>2. \A k \in 1..Len(extracted') : extracted'[k] = script.replies[k]
    <3> TAKE k \in 1..Len(extracted')
    <3>1. k \in 1..Len(extracted) \/ k = Len(extracted) + 1
      BY <1>3, <1>6
    <3> QED BY <1>3, <1>6, <1>8, <3>1 DEF Framed, FramingInv, FramingExact
  <2> QED BY <1>1, <2>1, <2>2 DEF FramingExact
<1> QED BY <1>1, <1>9, <1>10, <1>11 DEF FramingInv, Framed

(* consume_response() leaves the text from the next response on.           *)
LEMMA ConsumeKeepsFraming ==
    ASSUME ScriptsFramed, Framed, Consume
    PROVE  FramingInv'
<1>1. /\ response_end # 0 /\ buffer' = View(response_end, size)
      /\ mode' = "line" /\ scan_pos' = 0 /\ line_start' = 0
      /\ literal_remaining' = 0 /\ response_end' = 0
      /\ UNCHANGED <<script, stream, waiting, extracted>>
  BY DEF Consume
<1>2. /\ extracted \in Seq(Seq(STRING)) /\ Len(extracted) \in Nat
      /\ Len(extracted) > 0 /\ Consumed = Len(extracted) - 1
      /\ Len(extracted) <= Len(script.replies) /\ ~waiting
  BY <1>1 DEF Framed, FramingInv, Delivered, Consumed, FramingExact, FoundInv
<1>3. Consumed' = Consumed + 1 /\ Consumed \in Nat
  BY <1>1, <1>2 DEF Consumed
<1>4. /\ Consumed < Len(script.ends) /\ Consumed + 1 \in 1..Len(script.ends)
      /\ script.ends \in Seq(Nat) /\ script.ends[Consumed + 1] \in Nat
      /\ base \in Nat
  BY <1>2, <1>3, BaseFacts
<1>5. base' = script.ends[Consumed + 1] /\ base' = base + response_end
  <2>1. base + response_end = script.ends[Consumed + 1]
    BY <1>1, <1>4 DEF Framed, FramingInv, InStep
  <2>2. base' = script.ends[Consumed + 1]
    BY <1>1, <1>3, <1>4 DEF base, Begin
  <2> QED BY <2>1, <2>2
<1>6. /\ response_end \in Nat /\ size \in Nat /\ response_end <= size
      /\ buffer \in Seq(STRING) /\ stream \in Seq(STRING) /\ size = Len(buffer)
  BY DEF Framed, LexerInv, LexerTypeOK, CursorInBounds, size
<1>7. /\ Len(buffer') = Len(buffer) - response_end
      /\ \A i \in 1..Len(buffer') : buffer'[i] = buffer[response_end + i]
  BY <1>1, <1>6 DEF View
<1>8. Remainder'
  <2>1. /\ base + Len(buffer) + Len(stream) = Len(script.text)
        /\ \A i \in 1..Len(buffer) : buffer[i] = script.text[base + i]
        /\ \A i \in 1..Len(stream) : stream[i] = script.text[base + Len(buffer) + i]
    BY DEF Framed, FramingInv, Remainder
  <2>2. base' + Len(buffer') = base + Len(buffer) /\ Len(stream) \in Nat
    BY <1>4, <1>5, <1>6, <1>7
  <2>3. base' + Len(buffer') + Len(stream) = Len(script.text)
    BY <2>1, <2>2
  <2>4. ASSUME NEW i \in 1..Len(buffer') PROVE buffer'[i] = script.text[base' + i]
    <3>1. response_end + i \in 1..Len(buffer) /\ base + (response_end + i) = base' + i
      BY <1>4, <1>5, <1>6, <1>7
    <3> QED BY <1>7, <2>1, <3>1
  <2>5. ASSUME NEW i \in 1..Len(stream)
        PROVE  stream[i] = script.text[base' + Len(buffer') + i]
    BY <2>1, <2>2
  <2> QED BY <1>1, <2>3, <2>4, <2>5 DEF Remainder
<1>9. InStep'
  <2> SUFFICES ASSUME Consumed + 1 < Len(script.ends)
      PROVE  /\ base' + 0 \in script.starts
             /\ base' + 0 < script.ends[Consumed + 1 + 1]
    BY <1>1, <1>3 DEF InStep
  <2>1. Consumed + 2 \in 1..Len(script.ends) /\ Consumed + 1 + 1 = Consumed + 2
    BY <1>3, <1>4
  <2>2. Begin(script, Consumed + 2) = script.ends[Consumed + 1]
    BY <1>3 DEF Begin
  <2>3. Begin(script, Consumed + 2) \in script.starts
    BY <2>1 DEF Framed, FramingInv, ScriptsFramed, WellFramed
  <2>4. script.ends[Consumed + 1] < script.ends[Consumed + 2]
    BY <1>3, <1>4, <2>1, BaseFacts
  <2>5. base' + 0 = script.ends[Consumed + 1]
    BY <1>4, <1>5
  <2> QED BY <2>1, <2>2, <2>3, <2>4, <2>5
<1>10. Delivered' /\ FramingExact'
  BY <1>1, <1>2 DEF Delivered, Framed, FramingInv, FramingExact
<1> QED BY <1>1, <1>8, <1>9, <1>10 DEF FramingInv, Framed

(* Every step keeps the text, the buffer and the cursor in step.           *)
LEMMA FramingInductive ==
    ASSUME ScriptsFramed, Framed, [LexerNext]_lexerVars
    PROVE  FramingInv'
<1>1. /\ line_start \in Nat /\ scan_pos \in Nat /\ size \in Nat
      /\ literal_remaining \in Nat /\ base \in Nat
  BY BaseFacts DEF Framed, LexerInv, LexerTypeOK, size
<1>2. ASSUME LiteralShort PROVE FramingInv'
  <2>1. /\ UNCHANGED <<script, stream, buffer, extracted, mode, scan_pos, line_start,
                       literal_remaining, response_end>>
        /\ response_end = 0 /\ mode = "literal"
        /\ size - scan_pos < literal_remaining
    BY <1>2 DEF LiteralShort, cursorVars, Scanning
  <2>2. Consumed' = Consumed /\ base' = base
    BY <2>1 DEF Consumed, base
  <2>3. InStep' /\ (Consumed = Len(script.ends) => mode' = "line")
    BY <2>1, <2>2 DEF InStep, Framed, FramingInv, Delivered
  <2>4. Consumed < Len(script.ends) => base + size < script.ends[Consumed + 1]
    <3> SUFFICES ASSUME Consumed < Len(script.ends)
        PROVE  base + size < script.ends[Consumed + 1]
      OBVIOUS
    <3>1. base + scan_pos + literal_remaining < script.ends[Consumed + 1]
      BY <2>1 DEF InStep, Framed, FramingInv
    <3>2. Consumed + 1 \in 1..Len(script.ends)
      BY BaseFacts
    <3>3. script.ends[Consumed + 1] \in Nat
      BY <3>2, BaseFacts
    <3> QED BY <1>1, <2>1, <3>1, <3>3
  <2> QED BY <2>1, <2>3, <2>4, FramingKept
<1>3. ASSUME LiteralDone PROVE FramingInv'
  <2>1. /\ UNCHANGED <<script, stream, buffer, extracted, response_end, waiting>>
        /\ response_end = 0 /\ mode = "literal" /\ mode' = "line"
        /\ line_start' = scan_pos + literal_remaining
    BY <1>3 DEF LiteralDone, Scanning
  <2>2. Consumed' = Consumed /\ base' = base
    BY <2>1 DEF Consumed, base
  <2>3. base + (scan_pos + literal_remaining) = base + scan_pos + literal_remaining
    BY <1>1
  <2>4. InStep'
    BY <2>1, <2>2, <2>3 DEF InStep, Framed, FramingInv
  <2> QED BY <2>1, <2>4, FramingKept
<1>4. ASSUME LineShort PROVE FramingInv'
  <2>1. /\ UNCHANGED <<script, stream, buffer, extracted, mode, line_start,
                       literal_remaining, response_end>>
        /\ response_end = 0 /\ mode = "line" /\ LineEnds = {}
    BY <1>4 DEF LineShort, Scanning
  <2>2. Consumed' = Consumed /\ base' = base
    BY <2>1 DEF Consumed, base
  <2>3. InStep'
    BY <2>1, <2>2 DEF InStep, Framed, FramingInv
  <2>4. Consumed < Len(script.ends) => base + size < script.ends[Consumed + 1]
    BY <2>1, NoLineYet
  <2> QED BY <2>1, <2>3, <2>4, FramingKept
<1>5. ASSUME LineOpensLiteral PROVE FramingInv'
  <2>1. /\ UNCHANGED <<script, stream, buffer, extracted, line_start, response_end,
                       waiting>>
        /\ response_end = 0 /\ mode = "line" /\ LineEnds # {} /\ mode' = "literal"
        /\ literal_trailer(line) # NoLiteral
        /\ literal_remaining' = literal_trailer(line) /\ scan_pos' = eol + 2
    BY <1>5 DEF LineOpensLiteral, Scanning
  <2>2. Consumed' = Consumed /\ base' = base
    BY <2>1 DEF Consumed, base
  <2>3. /\ Consumed < Len(script.ends) /\ eol \in Nat
        /\ base + eol + 2 + literal_trailer(line) \in script.starts
        /\ base + eol + 2 + literal_trailer(line) < script.ends[Consumed + 1]
    BY <2>1, FoundLine
  <2>4. literal_trailer(line) \in Nat
    BY <2>1, TrailerType
  <2>5. base + (eol + 2) + literal_trailer(line) = base + eol + 2 + literal_trailer(line)
    BY <1>1, <2>3, <2>4
  <2>6. InStep'
    BY <2>1, <2>2, <2>3, <2>5 DEF InStep
  <2>7. Consumed # Len(script.ends)
    BY <2>3, BaseFacts
  <2> QED BY <2>1, <2>6, <2>7, FramingKept
<1>6. ASSUME LineComplete PROVE FramingInv'
  BY <1>6, CompleteKeepsFraming
<1>7. ASSUME Consume PROVE FramingInv'
  BY <1>7, ConsumeKeepsFraming
<1>8. ASSUME NEW n \in 1..MaxRead, Commit(n) PROVE FramingInv'
  BY <1>8, CommitKeepsFraming
<1>9. ASSUME UNCHANGED lexerVars PROVE FramingInv'
  <2>1. UNCHANGED <<script, stream, buffer, mode, scan_pos, line_start,
                    literal_remaining, response_end, waiting, extracted>>
    BY <1>9 DEF lexerVars, cursorVars
  <2>2. Consumed' = Consumed /\ base' = base
    BY <2>1 DEF Consumed, base
  <2> QED BY <2>1, <2>2
          DEF Framed, FramingInv, Remainder, InStep, Delivered, FramingExact, Arrived
<1> QED BY <1>2, <1>3, <1>4, <1>5, <1>6, <1>7, <1>8, <1>9 DEF LexerNext

(* Whatever well-framed text the server sends and however the reads cut    *)
(* it, the lexer hands out the server's responses, one by one and octet by *)
(* octet, and holds back none that has arrived.                            *)
THEOREM FramingExactHolds ==
    ASSUME \A s \in Streams : WellFramed(s)
    PROVE  LexerSpec => []FramingExact
<1>1. ScriptsFramed
  BY DEF ScriptsFramed
<1>2. LexerInit => FramingInv
  <2> SUFFICES ASSUME LexerInit PROVE FramingInv
    OBVIOUS
  <2>1. /\ script \in Streams /\ stream = script.text /\ buffer = <<>>
        /\ mode = "line" /\ line_start = 0 /\ response_end = 0 /\ extracted = <<>>
    BY DEF LexerInit, CursorInit
  <2>2. /\ script.text \in Seq(STRING) /\ script.ends \in Seq(Nat)
        /\ script.replies \in Seq(Seq(STRING))
    BY <2>1, LexerAssumption
  <2>3. Consumed = 0 /\ base = 0 /\ Len(extracted) = 0 /\ Len(buffer) = 0
    BY <2>1 DEF Consumed, base, Begin
  <2>4. Remainder
    BY <2>1, <2>2, <2>3 DEF Remainder
  <2>5. ASSUME Len(script.ends) > 0
        PROVE  0 \in script.starts /\ 0 < script.ends[1]
    <3>1. 1 \in 1..Len(script.ends) /\ Begin(script, 1) = 0 /\ script.ends[1] \in Nat
      BY <2>2, <2>5 DEF Begin
    <3>2. Begin(script, 1) \in script.starts /\ Begin(script, 1) + 2 <= script.ends[1]
      BY <1>1, <2>1, <3>1 DEF ScriptsFramed, WellFramed
    <3> QED BY <3>1, <3>2
  <2>6. InStep
    BY <2>1, <2>2, <2>3, <2>5 DEF InStep
  <2>7. extracted \in Seq(Seq(STRING))
    BY <2>1
  <2>8. Delivered
    BY <2>1, <2>7 DEF Delivered
  <2>9. FramingExact
    <3>1. ASSUME NEW k \in 1..Len(script.replies) PROVE ~Arrived(k)
      <4>1. k \in 1..Len(script.ends)
        BY <1>1, <2>1 DEF ScriptsFramed, WellFramed
      <4>2. Begin(script, k) + 2 <= script.ends[k] /\ script.ends[k] \in Nat
        <5>1. script.ends[k] \in Nat
          BY <2>1, <2>2, <4>1
        <5>2. Begin(script, k) + 2 <= script.ends[k]
          BY <1>1, <2>1, <4>1 DEF ScriptsFramed, WellFramed
        <5> QED BY <5>1, <5>2
      <4>3. Begin(script, k) \in Nat
        BY <2>2, <4>1 DEF Begin
      <4>4. Len(script.text) \in Nat /\ Len(stream) = Len(script.text)
        BY <2>1, <2>2
      <4> QED BY <4>2, <4>3, <4>4 DEF Arrived
    <3> QED BY <2>2, <2>3, <3>1 DEF FramingExact
  <2> QED BY <2>1, <2>4, <2>6, <2>8, <2>9 DEF FramingInv
<1>3. LexerInv /\ FoundInv /\ FramingInv /\ [LexerNext]_lexerVars => FramingInv'
  BY <1>1, FramingInductive DEF Framed
<1>4. FramingInv => FramingExact
  BY DEF FramingInv
<1> QED BY <1>2, <1>3, <1>4, LexerHolds, FoundHolds, PTL DEF LexerSpec
-----------------------------------------------------------------------------
(* Induction along the indices of a text, for a set of them: what holds of *)
(* 0 and goes on to the next index up to n holds of all.                   *)
LEMMA UpTo ==
    ASSUME NEW n \in Nat, NEW S, 0 \in S,
           \A k \in 0..n : k \in S /\ k < n => k + 1 \in S
    PROVE  \A k \in 0..n : k \in S
<1> DEFINE Bad == {k \in 0..n : k \notin S}
<1>1. SUFFICES ASSUME Bad # {} PROVE FALSE
  OBVIOUS
<1>2. Bad \in SUBSET Nat
  OBVIOUS
<1>3. PICK k \in Bad : \A y \in Bad : k <= y
  BY <1>1, <1>2, MinFacts
<1>4. k \in 1..n /\ k - 1 \in 0..n /\ k - 1 < n /\ ~(k <= k - 1)
  OBVIOUS
<1>5. k - 1 \in S
  BY <1>3, <1>4
<1> QED BY <1>3, <1>4, <1>5

(* The characters of two texts put together.                               *)
LEMMA Joined ==
    ASSUME NEW C, NEW a \in Seq(C), NEW b \in Seq(C)
    PROVE  /\ a \o b \in Seq(C) /\ Len(a \o b) = Len(a) + Len(b)
           /\ \A k \in 1..Len(a) : (a \o b)[k] = a[k]
           /\ \A k \in 1..Len(b) : (a \o b)[Len(a) + k] = b[k]
OBVIOUS

(* The pieces FlattenSeq has put together after each of its steps; what    *)
(* was put together stays where it is.                                     *)
LEMMA FlattenSteps ==
    ASSUME NEW C, NEW ss \in Seq(Seq(C)), ss # <<>>
    PROVE  \E f \in [1..Len(ss) -> Seq(C)] :
              /\ FlattenSeq(ss) = f[Len(ss)]
              /\ f[1] = ss[1]
              /\ \A i \in 2..Len(ss) : f[i] = f[i - 1] \o ss[i]
              /\ \A i \in 1..Len(ss) :
                    /\ Len(f[i]) <= Len(f[Len(ss)])
                    /\ \A k \in 1..Len(f[i]) : f[Len(ss)][k] = f[i][k]
<1> DEFINE n == Len(ss)
           Eq(f, m) == /\ f[1] = ss[1]
                       /\ \A i \in 2..m : f[i] = f[i - 1] \o ss[i]
           Made == {k \in 0..(n - 1) : \E f \in [1..(k + 1) -> Seq(C)] : Eq(f, k + 1)}
<1>0. n \in Nat /\ n >= 1 /\ Len(ss) # 0 /\ \A i \in 1..n : ss[i] \in Seq(C)
  OBVIOUS
<1>1. 0 \in Made
  <2> DEFINE one == [i \in 1..1 |-> ss[1]]
  <2>1. one \in [1..1 -> Seq(C)] /\ Eq(one, 1)
    BY <1>0
  <2>2. 0 + 1 = 1 /\ 0 \in 0..(n - 1)
    BY <1>0
  <2> HIDE DEF one, Eq
  <2> QED BY <2>1, <2>2
<1>2. ASSUME NEW k \in 0..(n - 1), k \in Made, k < n - 1 PROVE k + 1 \in Made
  <2>1. PICK f \in [1..(k + 1) -> Seq(C)] : Eq(f, k + 1)
    BY <1>2
  <2> DEFINE g == [i \in 1..(k + 2) |-> IF i = k + 2 THEN f[k + 1] \o ss[k + 2] ELSE f[i]]
  <2>2. f[k + 1] \o ss[k + 2] \in Seq(C)
    BY <1>0, <1>2
  <2>3. g \in [1..(k + 2) -> Seq(C)]
    BY <1>2, <2>2
  <2>4. Eq(g, k + 2)
    <3>1. g[1] = ss[1]
      BY <1>2, <2>1
    <3>2. ASSUME NEW i \in 2..(k + 2) PROVE g[i] = g[i - 1] \o ss[i]
      <4>1. CASE i = k + 2
        <5>1. i - 1 = k + 1 /\ i - 1 \in 1..(k + 2) /\ i - 1 # k + 2 /\ i \in 1..(k + 2)
          BY <1>2, <3>2, <4>1
        <5> QED BY <4>1, <5>1
      <4>2. CASE i # k + 2
        <5>1. /\ i - 1 \in 1..(k + 2) /\ i - 1 # k + 2 /\ i \in 1..(k + 2)
              /\ i \in 2..(k + 1)
          BY <1>2, <3>2, <4>2
        <5> QED BY <2>1, <4>2, <5>1
      <4> QED BY <4>1, <4>2
    <3> QED BY <3>1, <3>2
  <2>5. (k + 1) + 1 = k + 2 /\ k + 1 \in 0..(n - 1)
    BY <1>0, <1>2
  <2> HIDE DEF g, Eq
  <2> QED BY <2>3, <2>4, <2>5
<1>3. n - 1 \in Made
  <2>1. n - 1 \in Nat /\ n - 1 \in 0..(n - 1)
    BY <1>0
  <2> HIDE DEF Made, n
  <2> QED BY <1>1, <1>2, <2>1, UpTo
<1>4. PICK f \in [1..n -> Seq(C)] : Eq(f, n)
  <2>1. (n - 1) + 1 = n
    BY <1>0
  <2> HIDE DEF Eq
  <2> QED BY <1>3, <2>1
<1> DEFINE Step(h) == [i \in 1..n |-> IF i = 1 THEN ss[i] ELSE h[i - 1] \o ss[i]]
           h0 == CHOOSE h : h = Step(h)
<1>5. f = Step(f)
  <2>1. ASSUME NEW i \in 1..n PROVE f[i] = Step(f)[i]
    <3>1. CASE i = 1
      <4>1. Step(f)[i] = ss[i]
        BY <3>1
      <4>2. f[1] = ss[1]
        BY <1>4
      <4> HIDE DEF Step
      <4> QED BY <3>1, <4>1, <4>2
    <3>2. CASE i # 1
      <4>1. Step(f)[i] = f[i - 1] \o ss[i]
        BY <3>2
      <4>2. i \in 2..n
        BY <1>0, <2>1, <3>2
      <4> HIDE DEF Step
      <4> QED BY <1>4, <4>1, <4>2
    <3> QED BY <3>1, <3>2
  <2> QED BY <1>4, <2>1
<1>6. h0 = Step(h0)
  <2> HIDE DEF Step
  <2> QED BY <1>5, Zenon
<1>7. FlattenSeq(ss) = h0[n]
  BY <1>0 DEF FlattenSeq
<1>8. \A i \in 1..n : h0[i] = f[i]
  <2> DEFINE Same == {k \in 0..(n - 1) : h0[k + 1] = f[k + 1]}
  <2> HIDE DEF h0
  <2>1. 0 \in Same
    BY <1>0, <1>4, <1>6
  <2>2. ASSUME NEW k \in 0..(n - 1), k \in Same, k < n - 1 PROVE k + 1 \in Same
    <3>1. k + 2 \in 1..n /\ k + 2 # 1 /\ (k + 2) - 1 = k + 1 /\ k + 1 \in 0..(n - 1)
          /\ (k + 1) + 1 = k + 2 /\ k + 2 \in 2..n
      BY <1>0, <2>2
    <3>2. h0[k + 2] = h0[k + 1] \o ss[k + 2]
      BY <1>6, <3>1
    <3>3. f[k + 2] = f[k + 1] \o ss[k + 2]
      BY <1>4, <3>1
    <3> QED BY <2>2, <3>1, <3>2, <3>3
  <2>3. \A k \in 0..(n - 1) : k \in Same
    <3>1. n - 1 \in Nat
      BY <1>0
    <3> HIDE DEF Same, n
    <3> QED BY <2>1, <2>2, <3>1, UpTo
  <2>4. ASSUME NEW i \in 1..n PROVE h0[i] = f[i]
    <3>1. i - 1 \in 0..(n - 1) /\ (i - 1) + 1 = i
      BY <1>0, <2>4
    <3> QED BY <2>3, <3>1
  <2> QED BY <2>4
<1>9. FlattenSeq(ss) = f[n]
  <2> HIDE DEF h0
  <2> QED BY <1>0, <1>7, <1>8
<1> DEFINE Kept(i, m) == /\ Len(f[i]) <= Len(f[m])
                         /\ \A k \in 1..Len(f[i]) : f[m][k] = f[i][k]
           Good == {k \in 0..(n - 1) : \A i \in 1..(k + 1) : Kept(i, k + 1)}
<1>10. \A i \in 1..n : Len(f[i]) \in Nat /\ f[i] \in Seq(C)
  <2> HIDE DEF n
  <2>1. \A i \in 1..n : f[i] \in Seq(C)
    BY <1>4
  <2> QED BY <2>1
<1>11. 0 \in Good
  <2>1. ASSUME NEW i \in 1..(0 + 1) PROVE Kept(i, 0 + 1)
    <3>1. i = 1 /\ 0 + 1 = 1 /\ 1 \in 1..n
      BY <1>0
    <3> HIDE DEF n
    <3> QED BY <1>10, <3>1
  <2> HIDE DEF Kept
  <2> QED BY <1>0, <2>1
<1>12. ASSUME NEW k \in 0..(n - 1), k \in Good, k < n - 1 PROVE k + 1 \in Good
  <2>1. /\ k + 1 \in 0..(n - 1) /\ k + 1 \in 1..n /\ k + 2 \in 1..n /\ k + 2 \in 2..n
        /\ (k + 1) + 1 = k + 2 /\ (k + 2) - 1 = k + 1
    BY <1>0, <1>12
  <2>2. f[k + 2] = f[k + 1] \o ss[k + 2] /\ ss[k + 2] \in Seq(C)
    BY <1>0, <1>4, <2>1
  <2> HIDE DEF n
  <2>3. /\ Len(f[k + 1]) \in Nat /\ Len(f[k + 2]) = Len(f[k + 1]) + Len(ss[k + 2])
        /\ Len(ss[k + 2]) \in Nat
        /\ \A j \in 1..Len(f[k + 1]) : f[k + 2][j] = f[k + 1][j]
    BY <1>10, <2>1, <2>2
  <2>4. ASSUME NEW i \in 1..(k + 2) PROVE Kept(i, k + 2)
    <3>1. CASE i = k + 2
      BY <1>10, <2>1, <3>1
    <3>2. CASE i # k + 2
      <4>1. i \in 1..(k + 1) /\ i \in 1..n
        BY <1>0, <2>1, <2>4, <3>2
      <4>2. /\ Len(f[i]) <= Len(f[k + 1]) /\ Len(f[i]) \in Nat
            /\ \A j \in 1..Len(f[i]) : f[k + 1][j] = f[i][j]
        <5>1. Kept(i, k + 1)
          <6> HIDE DEF Kept
          <6> QED BY <1>12, <4>1
        <5>2. Len(f[i]) \in Nat
          BY <1>10, <4>1
        <5> QED BY <5>1, <5>2
      <4>3. Len(f[i]) <= Len(f[k + 2])
        <5>1. \A a, b, c \in Nat : a <= b => a <= b + c
          OBVIOUS
        <5> QED BY <2>3, <4>2, <5>1
      <4>4. \A j \in 1..Len(f[i]) : j \in 1..Len(f[k + 1])
        BY <2>3, <4>2
      <4> QED BY <2>3, <4>2, <4>3, <4>4
    <3> QED BY <3>1, <3>2
  <2> HIDE DEF Kept
  <2> QED BY <2>1, <2>4
<1>13. n - 1 \in Good
  <2>1. n - 1 \in Nat /\ n - 1 \in 0..(n - 1)
    BY <1>0
  <2> HIDE DEF Good, n
  <2> QED BY <1>11, <1>12, <2>1, UpTo
<1>14. \A i \in 1..n : Kept(i, n)
  <2>1. (n - 1) + 1 = n
    BY <1>0
  <2> HIDE DEF Kept
  <2> QED BY <1>13, <2>1
<1> QED BY <1>4, <1>9, <1>14

(* Where the pieces stand in what FlattenSeq returns.                      *)
LEMMA FlattenLayout ==
    ASSUME NEW C, NEW ss \in Seq(Seq(C))
    PROVE  /\ FlattenSeq(ss) \in Seq(C)
           /\ \E off \in [0..Len(ss) -> Nat] :
                /\ off[0] = 0 /\ off[Len(ss)] = Len(FlattenSeq(ss))
                /\ \A i \in 1..Len(ss) :
                      /\ off[i] = off[i - 1] + Len(ss[i])
                      /\ off[i] <= Len(FlattenSeq(ss))
                      /\ \A k \in 1..Len(ss[i]) :
                            FlattenSeq(ss)[off[i - 1] + k] = ss[i][k]
<1> DEFINE n == Len(ss)
           e == FlattenSeq(ss)
           Off(off) == /\ off[0] = 0 /\ off[n] = Len(e)
                       /\ \A i \in 1..n :
                             /\ off[i] = off[i - 1] + Len(ss[i])
                             /\ off[i] <= Len(e)
                             /\ \A k \in 1..Len(ss[i]) : e[off[i - 1] + k] = ss[i][k]
<1>0. n \in Nat /\ ss \in [1..n -> Seq(C)]
  OBVIOUS
<1>j. \A a, b \in Seq(C) :
         /\ Len(a \o b) = Len(a) + Len(b)
         /\ \A k \in 1..Len(b) : (a \o b)[Len(a) + k] = b[k]
  BY Joined
<1>1. CASE n = 0
  <2>1. ss = <<>> /\ e = <<>>
    BY <1>1 DEF FlattenSeq
  <2> HIDE DEF e
  <2> DEFINE o == [i \in 0..n |-> 0]
  <2>2. o \in [0..n -> Nat] /\ Off(o)
    BY <1>1, <2>1
  <2>3. e \in Seq(C)
    BY <2>1
  <2> QED BY <2>2, <2>3 DEF e
<1>2. CASE n # 0
  <2>0. n \in Nat \ {0} /\ ss # <<>> /\ n \in 1..n
    BY <1>0, <1>2
  <2>1. PICK f \in [1..n -> Seq(C)] :
              /\ e = f[n] /\ f[1] = ss[1]
              /\ \A i \in 2..n : f[i] = f[i - 1] \o ss[i]
              /\ \A i \in 1..n : /\ Len(f[i]) <= Len(f[n])
                                 /\ \A k \in 1..Len(f[i]) : f[n][k] = f[i][k]
    <3>1. ss # <<>>
      BY <2>0
    <3> QED BY <3>1, FlattenSteps, Zenon
  <2> HIDE DEF n, e
  <2>2. \A i \in 1..n : /\ Len(f[i]) <= Len(e)
                        /\ \A k \in 1..Len(f[i]) : e[k] = f[i][k]
    BY <2>1, Zenon
  <2> DEFINE off == [i \in 0..n |-> IF i = 0 THEN 0 ELSE Len(f[i])]
  <2>3. e \in Seq(C) /\ \A i \in 1..n : f[i] \in Seq(C) /\ Len(f[i]) \in Nat
    <3>1. \A i \in 1..n : f[i] \in Seq(C)
      BY <2>1
    <3> QED BY <2>0, <2>1, <3>1
  <2>4. \A i \in 1..n : off[i] = Len(f[i])
    BY <2>0
  <2>5. off \in [0..n -> Nat] /\ off[0] = 0 /\ off[n] = Len(e)
    BY <2>0, <2>1, <2>3
  <2> HIDE DEF off
  <2>6. ASSUME NEW i \in 1..n
        PROVE  /\ off[i - 1] \in Nat /\ Len(ss[i]) \in Nat
               /\ off[i] = off[i - 1] + Len(ss[i])
               /\ \A k \in 1..Len(ss[i]) : f[i][off[i - 1] + k] = ss[i][k]
    <3>0. ss[i] \in Seq(C)
      BY <1>0, <2>6
    <3>1. CASE i = 1
      <4>1. f[i] = ss[i] /\ off[i - 1] = 0 /\ off[i] = Len(ss[i])
        BY <2>1, <2>4, <2>5, <3>1
      <4> QED BY <3>0, <4>1
    <3>2. CASE i # 1
      <4>1. i \in 2..n /\ i - 1 \in 1..n
        BY <2>0, <2>6, <3>2
      <4>2. f[i] = f[i - 1] \o ss[i] /\ f[i - 1] \in Seq(C)
        BY <2>1, <2>3, <4>1
      <4>3. off[i] = Len(f[i]) /\ off[i - 1] = Len(f[i - 1])
        BY <2>4, <2>6, <4>1
      <4>4. /\ Len(f[i]) = Len(f[i - 1]) + Len(ss[i])
            /\ \A k \in 1..Len(ss[i]) : f[i][Len(f[i - 1]) + k] = ss[i][k]
        <5>1. f[i - 1] \in Seq(C) /\ f[i] = f[i - 1] \o ss[i]
          BY <4>2
        <5>2. /\ Len(f[i - 1] \o ss[i]) = Len(f[i - 1]) + Len(ss[i])
              /\ \A k \in 1..Len(ss[i]) : (f[i - 1] \o ss[i])[Len(f[i - 1]) + k] = ss[i][k]
          BY <1>j, <3>0, <5>1
        <5> QED BY <5>1, <5>2, Zenon
      <4>5. Len(f[i - 1]) \in Nat /\ Len(ss[i]) \in Nat
        BY <3>0, <4>2
      <4> QED BY <4>3, <4>4, <4>5
    <3> QED BY <3>1, <3>2
  <2>7. ASSUME NEW i \in 1..n
        PROVE  /\ off[i] <= Len(e)
               /\ \A k \in 1..Len(ss[i]) : e[off[i - 1] + k] = ss[i][k]
    <3>1. off[i] <= Len(e) /\ \A k \in 1..off[i] : e[k] = f[i][k]
      BY <2>2, <2>4, <2>7
    <3>2. ASSUME NEW k \in 1..Len(ss[i]) PROVE off[i - 1] + k \in 1..off[i]
      BY <2>6, <2>7, <3>2
    <3> QED BY <2>6, <2>7, <3>1, <3>2
  <2>8. Off(off)
    BY <2>5, <2>6, <2>7
  <2> QED BY <2>3, <2>5, <2>8 DEF n, e
<1> QED BY <1>0, <1>1, <1>2

(* Where each character of a text stands in its escaped form.              *)
Layout(v, e, off) ==
    /\ off[0] = 0 /\ off[Len(v)] = Len(e)
    /\ \A i \in 1..Len(v) :
          /\ off[i] <= Len(e)
          /\ is_quoted_special(v[i]) => /\ off[i] = off[i - 1] + 2
                                        /\ e[off[i - 1] + 1] = "\\"
                                        /\ e[off[i - 1] + 2] = v[i]
          /\ ~is_quoted_special(v[i]) => /\ off[i] = off[i - 1] + 1
                                         /\ e[off[i - 1] + 1] = v[i]

LEMMA EscapedLayout ==
    ASSUME NEW C, "\\" \in C, NEW v \in Seq(C)
    PROVE  /\ Escaped(v) \in Seq(C)
           /\ \E off \in [0..Len(v) -> Nat] : Layout(v, Escaped(v), off)
<1> DEFINE n == Len(v)
           Piece(i) == IF is_quoted_special(v[i]) THEN <<"\\", v[i]>> ELSE <<v[i]>>
           ss == [i \in 1..n |-> Piece(i)]
<1>0. n \in Nat /\ \A i \in 1..n : v[i] \in C
  OBVIOUS
<1>1. \A i \in 1..n : Piece(i) \in Seq(C)
  BY <1>0
<1>2. ss \in Seq(Seq(C)) /\ Len(ss) = n /\ \A i \in 1..n : ss[i] = Piece(i)
  BY <1>0, <1>1
<1>3. Escaped(v) = FlattenSeq(ss)
  BY DEF Escaped
<1>4. \A i \in 1..n : is_quoted_special(v[i]) =>
         Len(ss[i]) = 2 /\ ss[i][1] = "\\" /\ ss[i][2] = v[i]
  BY <1>2
<1>5. \A i \in 1..n : ~is_quoted_special(v[i]) => Len(ss[i]) = 1 /\ ss[i][1] = v[i]
  BY <1>2
<1> HIDE DEF ss
<1>6. FlattenSeq(ss) \in Seq(C)
  BY <1>2, FlattenLayout
<1>7. PICK off \in [0..n -> Nat] :
           /\ off[0] = 0 /\ off[n] = Len(FlattenSeq(ss))
           /\ \A i \in 1..n :
                 /\ off[i] = off[i - 1] + Len(ss[i])
                 /\ off[i] <= Len(FlattenSeq(ss))
                 /\ \A k \in 1..Len(ss[i]) : FlattenSeq(ss)[off[i - 1] + k] = ss[i][k]
  BY <1>2, FlattenLayout
<1> DEFINE e == FlattenSeq(ss)
<1> HIDE DEF e
<1>8. ASSUME NEW i \in 1..n, is_quoted_special(v[i])
      PROVE  /\ off[i] = off[i - 1] + 2
             /\ e[off[i - 1] + 1] = "\\" /\ e[off[i - 1] + 2] = v[i]
  <2>1. Len(ss[i]) = 2 /\ ss[i][1] = "\\" /\ ss[i][2] = v[i]
    BY <1>4, <1>8
  <2>2. 1 \in 1..2 /\ 2 \in 1..2
    OBVIOUS
  <2> QED BY <1>7, <1>8, <2>1, <2>2 DEF e
<1>9. ASSUME NEW i \in 1..n, ~is_quoted_special(v[i])
      PROVE  off[i] = off[i - 1] + 1 /\ e[off[i - 1] + 1] = v[i]
  <2>1. Len(ss[i]) = 1 /\ ss[i][1] = v[i]
    BY <1>5, <1>9
  <2>2. 1 \in 1..1
    OBVIOUS
  <2> QED BY <1>7, <1>9, <2>1, <2>2 DEF e
<1>10. Layout(v, e, off)
  BY <1>7, <1>8, <1>9 DEF Layout, e
<1> QED BY <1>3, <1>6, <1>7, <1>10 DEF e
-----------------------------------------------------------------------------
(* The quote, by name.                                                     *)
Quote == "\""

(* What the provers need to know of it.                                    *)
LEMMA QuoteFacts ==
    /\ Quote \notin {"\\", "CR", "LF", "NUL", "{", "~"}
    /\ \A c : is_quoted_special(c) <=> c \in {Quote, "\\"}
    /\ \A t, p : read_quoted(t, p) = IF peek(t, p) = Quote THEN QuotedRest(t)[p + 1]
                                                      ELSE Malformed(p)
    /\ \A v : render_quoted(v) = <<Quote>> \o Escaped(v) \o <<Quote>>
BY Zenon DEF Quote, is_quoted_special, read_quoted, render_quoted

(* One index of QuotedRest: what is read from p on, given h for the        *)
(* indices behind.                                                         *)
QuotedStep(t, h, p) ==
    CASE at_end(t, p)            -> Malformed(p)
      [] peek(t, p) = "\""       -> Read(<<>>, p + 1)
      [] peek(t, p) = "\\"       -> IF is_quoted_special(peek(t, p + 1))
                                    THEN Behind(t[p + 1], h[p + 2])
                                    ELSE Malformed(p + 1)
      [] peek(t, p) \in {"CR", "LF"} -> Malformed(p)
      [] OTHER                   -> Behind(t[p], h[p + 1])

(* An index looks only at later ones, and never beyond the end.            *)
LEMMA QuotedStepAhead ==
    ASSUME NEW t, Len(t) \in Nat, NEW h, NEW g, NEW p \in 1..(Len(t) + 1),
           \A q \in 1..(Len(t) + 1) : q > p => h[q] = g[q]
    PROVE  QuotedStep(t, h, p) = QuotedStep(t, g, p)
<1>1. CASE at_end(t, p)
  <2>1. peek(t, p) = "NUL"
    BY <1>1 DEF peek
  <2> QED BY <1>1, <2>1 DEF QuotedStep
<1>2. CASE ~at_end(t, p)
  <2>1. p + 1 \in 1..(Len(t) + 1) /\ p + 1 > p
    BY <1>2 DEF at_end
  <2>2. h[p + 1] = g[p + 1]
    BY <2>1
  <2>3. is_quoted_special(peek(t, p + 1)) => h[p + 2] = g[p + 2]
    <3>1. ASSUME is_quoted_special(peek(t, p + 1)) PROVE ~at_end(t, p + 1)
      BY <3>1 DEF peek, is_quoted_special
    <3>2. ASSUME ~at_end(t, p + 1) PROVE p + 2 \in 1..(Len(t) + 1) /\ p + 2 > p
      BY <3>2, <2>1 DEF at_end
    <3> QED BY <3>1, <3>2
  <2> QED BY <1>2, <2>2, <2>3 DEF QuotedStep
<1> QED BY <1>1, <1>2

(* QuotedRest is a function: the equation that defines it has a solution.  *)
LEMMA QuotedRestEquation ==
    ASSUME NEW t, Len(t) \in Nat
    PROVE  \A p \in 1..(Len(t) + 1) : QuotedRest(t)[p] = QuotedStep(t, QuotedRest(t), p)
<1> DEFINE L == Len(t)
           Solves(h, k) == \A p \in (L + 1 - k)..(L + 1) : h[p] = QuotedStep(t, h, p)
           Solved == {k \in 0..L : \E h : Solves(h, k)}
<1>0. L \in Nat
  OBVIOUS
<1>1. 0 \in Solved
  <2> DEFINE h == [p \in 1..(L + 1) |-> Malformed(p)]
  <2>1. Solves(h, 0)
    <3>1. ASSUME NEW p \in (L + 1 - 0)..(L + 1) PROVE h[p] = QuotedStep(t, h, p)
      <4>1. p = L + 1 /\ p \in 1..(L + 1)
        BY <1>0
      <4>2. at_end(t, p)
        BY <1>0, <4>1 DEF at_end
      <4>3. peek(t, p) = "NUL"
        BY <4>2 DEF peek
      <4>4. QuotedStep(t, h, p) = Malformed(p)
        BY <4>2, <4>3 DEF QuotedStep
      <4> QED BY <4>1, <4>4
    <3> QED BY <3>1
  <2> HIDE DEF h, Solves
  <2> QED BY <1>0, <2>1
<1>2. ASSUME NEW k \in 0..L, k \in Solved, k < L PROVE k + 1 \in Solved
  <2>1. PICK h : Solves(h, k)
    BY <1>2
  <2> DEFINE at == L - k
             g == [p \in 1..(L + 1) |-> IF p = at THEN QuotedStep(t, h, p) ELSE h[p]]
  <2>2. at \in 1..(L + 1) /\ L + 1 - (k + 1) = at /\ L + 1 - k = at + 1 /\ k + 1 \in 0..L
    BY <1>0, <1>2
  <2>3. g[at] = QuotedStep(t, h, at) /\ \A q \in 1..(L + 1) : q > at => g[q] = h[q]
    BY <1>0, <2>2
  <2> HIDE DEF g, at
  <2>4. ASSUME NEW p \in at..(L + 1) PROVE g[p] = QuotedStep(t, g, p)
    <3>1. p \in 1..(L + 1)
      BY <1>0, <2>2, <2>4
    <3>2. \A q \in 1..(L + 1) : q > p => h[q] = g[q]
      BY <1>0, <2>2, <2>3, <2>4
    <3>3. QuotedStep(t, h, p) = QuotedStep(t, g, p)
      BY <3>1, <3>2, QuotedStepAhead
    <3>4. CASE p = at
      BY <2>3, <3>3, <3>4
    <3>5. CASE p # at
      <4>1. p > at /\ p \in (L + 1 - k)..(L + 1)
        BY <1>0, <2>2, <2>4, <3>5
      <4> QED BY <2>1, <2>3, <3>1, <3>3, <4>1
    <3> QED BY <3>4, <3>5
  <2>5. Solves(g, k + 1)
    BY <2>2, <2>4
  <2> HIDE DEF Solves
  <2> QED BY <2>2, <2>5
<1>3. L \in Solved
  <2>1. L \in 0..L
    BY <1>0
  <2> HIDE DEF Solved, L
  <2> QED BY <1>0, <1>1, <1>2, <2>1, UpTo
<1>4. PICK h : \A p \in 1..(L + 1) : h[p] = QuotedStep(t, h, p)
  <2>1. PICK h : Solves(h, L)
    BY <1>3
  <2>2. L + 1 - L = 1
    BY <1>0
  <2> QED BY <2>1, <2>2
<1> DEFINE Step(r) == [p \in 1..(L + 1) |-> QuotedStep(t, r, p)]
           f == [p \in 1..(L + 1) |-> h[p]]
<1>5. f = Step(f)
  <2>1. ASSUME NEW p \in 1..(L + 1) PROVE h[p] = QuotedStep(t, f, p)
    <3>1. \A q \in 1..(L + 1) : q > p => h[q] = f[q]
      OBVIOUS
    <3> HIDE DEF f
    <3>2. QuotedStep(t, h, p) = QuotedStep(t, f, p)
      BY <1>0, <3>1, QuotedStepAhead
    <3> QED BY <1>4, <3>2
  <2> QED BY <2>1
<1>6. QuotedRest(t) = CHOOSE r : r = Step(r)
  BY DEF QuotedRest, QuotedStep
<1>7. QuotedRest(t) = Step(QuotedRest(t))
  <2> HIDE DEF Step, f
  <2> QED BY <1>5, <1>6, Zenon
<1>8. ASSUME NEW p \in 1..(L + 1) PROVE Step(QuotedRest(t))[p] = QuotedStep(t, QuotedRest(t), p)
  OBVIOUS
<1> HIDE DEF Step
<1> QED BY <1>7, <1>8

(* The arms of QuotedRest a rendered text takes.                           *)
LEMMA QuotedRestArms ==
    ASSUME NEW t, Len(t) \in Nat, NEW p \in 1..Len(t)
    PROVE  /\ t[p] = Quote => QuotedRest(t)[p] = Read(<<>>, p + 1)
           /\ t[p] = "\\" /\ p < Len(t) /\ is_quoted_special(t[p + 1])
                 => QuotedRest(t)[p] = Behind(t[p + 1], QuotedRest(t)[p + 2])
           /\ t[p] \notin {Quote, "\\", "CR", "LF"}
                 => QuotedRest(t)[p] = Behind(t[p], QuotedRest(t)[p + 1])
<1>1. ~at_end(t, p) /\ p \in 1..(Len(t) + 1)
  BY DEF at_end
<1>2. peek(t, p) = t[p]
  BY <1>1 DEF peek
<1>3. p < Len(t) => peek(t, p + 1) = t[p + 1]
  BY DEF peek, at_end
<1>4. QuotedRest(t)[p] = QuotedStep(t, QuotedRest(t), p)
  BY <1>1, QuotedRestEquation
<1>5. ASSUME t[p] = Quote PROVE QuotedStep(t, QuotedRest(t), p) = Read(<<>>, p + 1)
  BY <1>1, <1>2, <1>5, Zenon DEF QuotedStep, Quote
<1>6. ASSUME t[p] = "\\", p < Len(t), is_quoted_special(t[p + 1])
      PROVE  QuotedStep(t, QuotedRest(t), p) = Behind(t[p + 1], QuotedRest(t)[p + 2])
  BY <1>1, <1>2, <1>3, <1>6, Zenon DEF QuotedStep
<1>7. ASSUME t[p] \notin {Quote, "\\", "CR", "LF"}
      PROVE  QuotedStep(t, QuotedRest(t), p) = Behind(t[p], QuotedRest(t)[p + 1])
  BY <1>1, <1>2, <1>7, Zenon DEF QuotedStep, Quote
<1> QED BY <1>4, <1>5, <1>6, <1>7

(* A text is what stands between two indices.                              *)
LEMMA Slice ==
    ASSUME NEW C, NEW t \in Seq(C), NEW D, NEW v \in Seq(D), NEW x \in Nat,
           x + Len(v) <= Len(t), \A k \in 1..Len(v) : t[x + k] = v[k]
    PROVE  SubSeq(t, x + 1, x + Len(v)) = v
<1> DEFINE n == Len(v)
<1>0. n \in Nat /\ Len(t) \in Nat /\ x + n <= Len(t)
  OBVIOUS
<1>1. ASSUME NEW b \in Nat, b <= Len(t), b >= x
      PROVE  /\ SubSeq(t, x + 1, b) \in Seq(C) /\ Len(SubSeq(t, x + 1, b)) = b - x
             /\ \A k \in 1..(b - x) : SubSeq(t, x + 1, b)[k] = t[x + k]
  <2>1. /\ x + 1 \in 1..(Len(t) + 1) /\ b \in x..Len(t) /\ b - (x + 1) + 1 = b - x
        /\ \A k \in 1..(b - x) : (x + 1) + k - 1 = x + k
    BY <1>0, <1>1
  <2>2. SubSeq(t, x + 1, b) \in Seq(C) /\ Len(SubSeq(t, x + 1, b)) = b - x
    <3>1. x + 1 \in Nat /\ x + 1 >= 1 /\ b \in Nat /\ b <= Len(t)
      BY <1>1
    <3>2. Len(SubSeq(t, x + 1, b)) = b - x
      BY <1>1, <2>1, <3>1
    <3>3. SubSeq(t, x + 1, b) \in Seq(C)
      BY <3>1
    <3> QED BY <3>2, <3>3
  <2>3. ASSUME NEW k \in 1..(b - x) PROVE SubSeq(t, x + 1, b)[k] = t[(x + 1) + k - 1]
    <3>1. x + 1 \in Nat /\ x + 1 >= 1 /\ k \in Nat /\ k \in 1..(b - (x + 1) + 1)
      BY <1>1, <2>1, <2>3
    <3> QED BY <3>1
  <2> QED BY <2>1, <2>2, <2>3
<1> DEFINE w == SubSeq(t, x + 1, x + n)
<1>2. x + n \in Nat /\ x + n >= x /\ (x + n) - x = n
  BY <1>0
<1>3. w \in Seq(C) /\ Len(w) = n /\ \A k \in 1..n : w[k] = t[x + k]
  <2> HIDE DEF n
  <2> QED BY <1>0, <1>1, <1>2
<1> HIDE DEF w
<1>4. \A k \in 1..n : w[k] = v[k]
  BY <1>3
<1>5. w = v
  BY <1>3, <1>4
<1> QED BY <1>5 DEF w

(* A text within a text.                                                   *)
LEMMA Within ==
    ASSUME NEW C, NEW b \in Seq(C), NEW m \in Seq(C), NEW a \in Seq(C)
    PROVE  /\ b \o m \o a \in Seq(C)
           /\ Len(b \o m \o a) = Len(b) + Len(m) + Len(a)
           /\ \A k \in 1..Len(m) : (b \o m \o a)[Len(b) + k] = m[k]
           /\ \A k \in 1..Len(a) : (b \o m \o a)[Len(b) + Len(m) + k] = a[k]
<1> DEFINE bm == b \o m
<1>1. bm \in Seq(C) /\ Len(bm) = Len(b) + Len(m)
      /\ \A k \in 1..Len(m) : bm[Len(b) + k] = m[k]
  OBVIOUS
<1>2. Len(b) \in Nat /\ Len(m) \in Nat /\ Len(a) \in Nat
  OBVIOUS
<1> HIDE DEF bm
<1>3. /\ bm \o a \in Seq(C) /\ Len(bm \o a) = Len(bm) + Len(a)
      /\ \A k \in 1..Len(bm) : (bm \o a)[k] = bm[k]
      /\ \A k \in 1..Len(a) : (bm \o a)[Len(bm) + k] = a[k]
  <2>1. bm \in Seq(C)
    BY <1>1
  <2> QED BY <2>1, Joined
<1>4. ASSUME NEW k \in 1..Len(m) PROVE Len(b) + k \in 1..Len(bm)
  BY <1>1, <1>2
<1>5. \A k \in 1..Len(m) : (bm \o a)[Len(b) + k] = m[k]
  BY <1>1, <1>3, <1>4
<1>6. Len(bm \o a) = Len(b) + Len(m) + Len(a)
  BY <1>1, <1>2, <1>3
<1>7. \A k \in 1..Len(a) : (bm \o a)[Len(b) + Len(m) + k] = a[k]
  BY <1>1, <1>3
<1> QED BY <1>3, <1>5, <1>6, <1>7 DEF bm

(* A quoted string is read back as the text it was rendered from,          *)
(* whatever of that text needed a backslash and whatever stands before and *)
(* behind it, and the cursor stops right behind the closing quote          *)
(* (render_quoted and parse_cursor::read_quoted).                          *)
THEOREM QuotedReadBack ==
    ASSUME NEW C, Quote \in C, "\\" \in C,
           NEW v \in Seq(C), \A i \in 1..Len(v) : v[i] \notin {"CR", "LF"},
           NEW before \in Seq(C), NEW after \in Seq(C)
    PROVE  read_quoted(before \o render_quoted(v) \o after, Len(before) + 1)
             = Read(v, Len(before) + Len(render_quoted(v)) + 1)
<1> DEFINE n == Len(v)
           B == Len(before)
           e == Escaped(v)
           m == render_quoted(v)
           t == before \o m \o after
<1>0. n \in Nat /\ B \in Nat /\ Len(after) \in Nat
  OBVIOUS
<1>1. e \in Seq(C)
  BY EscapedLayout
<1>2. PICK off \in [0..n -> Nat] : Layout(v, e, off)
  BY EscapedLayout
<1> HIDE DEF e
<1>3. /\ m \in Seq(C) /\ Len(m) = Len(e) + 2 /\ m[1] = Quote /\ m[Len(e) + 2] = Quote
      /\ \A k \in 1..Len(e) : m[k + 1] = e[k]
  <2>1. m = <<Quote>> \o e \o <<Quote>>
    BY QuoteFacts DEF e
  <2> HIDE DEF m
  <2>2. <<Quote>> \in Seq(C) /\ Len(<<Quote>>) = 1 /\ <<Quote>>[1] = Quote /\ 1 \in 1..1
    OBVIOUS
  <2> DEFINE q == <<Quote>>
  <2> HIDE DEF q
  <2>3. /\ q \o e \o q \in Seq(C)
        /\ Len(q \o e \o q) = Len(q) + Len(e) + Len(q)
        /\ \A k \in 1..Len(e) : (q \o e \o q)[Len(q) + k] = e[k]
        /\ \A k \in 1..Len(q) : (q \o e \o q)[Len(q) + Len(e) + k] = q[k]
    BY <1>1, <2>2, Within DEF q
  <2>4. (q \o (e \o q))[1] = q[1] /\ q \o e \o q = q \o (e \o q)
    BY <1>1, <2>2 DEF q
  <2>5. Len(e) \in Nat
    BY <1>1
  <2>6. Len(q) = 1 /\ q[1] = Quote /\ m = q \o e \o q
    BY <2>1, <2>2 DEF q
  <2>7. \A k \in 1..Len(e) : 1 + k = k + 1
    BY <2>5
  <2>8. 1 + Len(e) + 1 = Len(e) + 2 /\ 1 \in 1..1
    BY <2>5
  <2> QED BY <2>3, <2>4, <2>6, <2>7, <2>8
<1> HIDE DEF m
<1>4. Len(e) \in Nat /\ Len(m) \in Nat
  BY <1>1, <1>3
<1>5. /\ t \in Seq(C) /\ Len(t) = B + Len(m) + Len(after)
      /\ \A k \in 1..Len(m) : t[B + k] = m[k]
  <2>1. m \in Seq(C)
    BY <1>3
  <2> QED BY <2>1, Within
<1> HIDE DEF t
<1>6. /\ Len(t) \in Nat /\ Len(t) >= B + Len(e) + 2
      /\ t[B + 1] = Quote /\ t[B + Len(e) + 2] = Quote
      /\ \A k \in 1..Len(e) : t[B + 1 + k] = e[k]
  <2>1. Len(t) \in Nat /\ Len(t) >= B + Len(e) + 2
    BY <1>0, <1>3, <1>4, <1>5
  <2>2. /\ 1 \in 1..Len(m) /\ Len(e) + 2 \in 1..Len(m) /\ B + (Len(e) + 2) = B + Len(e) + 2
        /\ \A k \in 1..Len(e) : k + 1 \in 1..Len(m) /\ B + (k + 1) = B + 1 + k
    BY <1>0, <1>3, <1>4
  <2> QED BY <1>3, <1>5, <2>1, <2>2
<1> DEFINE to == B + Len(e) + 3
           rest == QuotedRest(t)
           Back == {k \in 0..n : rest[B + 2 + off[n - k]] = Read(SubSeq(v, n - k + 1, n), to)}
<1>7. \A i \in 0..n : off[i] \in Nat
  BY <1>2
<1>8. 0 \in Back
  <2>1. n - 0 = n /\ 0 \in 0..n /\ n \in 0..n /\ off[n] = Len(e)
    BY <1>0, <1>2 DEF Layout
  <2>2. SubSeq(v, n + 1, n) = <<>>
    OBVIOUS
  <2>3. B + Len(e) + 2 \in 1..Len(t) /\ B + 2 + Len(e) = B + Len(e) + 2
        /\ (B + Len(e) + 2) + 1 = to
    BY <1>0, <1>4, <1>6
  <2>4. rest[B + Len(e) + 2] = Read(<<>>, to)
    BY <1>6, <2>3, QuotedRestArms
  <2> HIDE DEF rest
  <2> QED BY <2>1, <2>2, <2>3, <2>4
<1>9. ASSUME NEW k \in 0..n, k \in Back, k < n PROVE k + 1 \in Back
  <2> DEFINE i == n - k
             p == B + 2 + off[i - 1]
  <2>1. i \in 1..n /\ i \in 0..n /\ i - 1 \in 0..n /\ k + 1 \in 0..n /\ n - (k + 1) = i - 1
        /\ (i - 1) + 1 = i
    BY <1>0, <1>9
  <2>2. rest[B + 2 + off[i]] = Read(SubSeq(v, i + 1, n), to)
    BY <1>9
  <2> HIDE DEF rest, i
  <2>3. off[i] \in Nat /\ off[i - 1] \in Nat /\ off[i] <= Len(e)
    BY <1>2, <1>7, <2>1 DEF Layout
  <2>4. /\ v[i] \in C /\ v[i] \notin {"CR", "LF"}
        /\ SubSeq(v, i + 1, n) \in Seq(C)
        /\ <<v[i]>> \o SubSeq(v, i + 1, n) = SubSeq(v, i, n)
    BY <2>1
  <2>5. Behind(v[i], Read(SubSeq(v, i + 1, n), to)) = Read(SubSeq(v, i, n), to)
    BY <2>4 DEF Behind, Read
  <2>6. CASE is_quoted_special(v[i])
    <3>1. off[i] = off[i - 1] + 2 /\ e[off[i - 1] + 1] = "\\" /\ e[off[i - 1] + 2] = v[i]
      BY <1>2, <2>1, <2>6 DEF Layout
    <3>2. /\ off[i - 1] + 1 \in 1..Len(e) /\ off[i - 1] + 2 \in 1..Len(e)
          /\ B + 1 + (off[i - 1] + 1) = p /\ B + 1 + (off[i - 1] + 2) = p + 1
          /\ p + 2 = B + 2 + off[i] /\ p \in 1..Len(t) /\ p < Len(t)
      <4>1. /\ B \in Nat /\ off[i] \in Nat /\ off[i - 1] \in Nat /\ Len(e) \in Nat
            /\ Len(t) \in Nat /\ off[i] <= Len(e) /\ Len(t) >= B + Len(e) + 2
            /\ off[i] = off[i - 1] + 2
        BY <1>0, <1>4, <1>6, <2>3, <3>1
      <4>2. \A b, o, w, l, s \in Nat :
               w <= l /\ s >= b + l + 2 /\ w = o + 2
                 => /\ o + 1 \in 1..l /\ o + 2 \in 1..l
                    /\ b + 1 + (o + 1) = b + 2 + o /\ b + 1 + (o + 2) = b + 2 + o + 1
                    /\ b + 2 + o + 2 = b + 2 + w /\ b + 2 + o \in 1..s /\ b + 2 + o < s
        OBVIOUS
      <4> HIDE DEF B
      <4> QED BY <4>1, <4>2, Zenon
    <3>3. t[p] = "\\" /\ t[p + 1] = v[i]
      <4> HIDE DEF p
      <4> QED BY <1>6, <3>1, <3>2
    <3> HIDE DEF p
    <3>4. rest[p] = Behind(v[i], rest[p + 2])
      BY <1>6, <2>6, <3>2, <3>3, QuotedRestArms DEF rest
    <3> QED BY <2>1, <2>2, <2>5, <3>2, <3>4 DEF p
  <2>7. CASE ~is_quoted_special(v[i])
    <3>1. off[i] = off[i - 1] + 1 /\ e[off[i - 1] + 1] = v[i]
      BY <1>2, <2>1, <2>7 DEF Layout
    <3>2. /\ off[i - 1] + 1 \in 1..Len(e)
          /\ B + 1 + (off[i - 1] + 1) = p
          /\ p + 1 = B + 2 + off[i] /\ p \in 1..Len(t)
      <4>1. /\ B \in Nat /\ off[i] \in Nat /\ off[i - 1] \in Nat /\ Len(e) \in Nat
            /\ Len(t) \in Nat /\ off[i] <= Len(e) /\ Len(t) >= B + Len(e) + 2
            /\ off[i] = off[i - 1] + 1
        BY <1>0, <1>4, <1>6, <2>3, <3>1
      <4>2. \A b, o, w, l, s \in Nat :
               w <= l /\ s >= b + l + 2 /\ w = o + 1
                 => /\ o + 1 \in 1..l
                    /\ b + 1 + (o + 1) = b + 2 + o
                    /\ b + 2 + o + 1 = b + 2 + w /\ b + 2 + o \in 1..s
        OBVIOUS
      <4> HIDE DEF B
      <4> QED BY <4>1, <4>2, Zenon
    <3>3. t[p] = v[i]
      <4> HIDE DEF p
      <4> QED BY <1>6, <3>1, <3>2
    <3> HIDE DEF p
    <3>4. t[p] \notin {Quote, "\\", "CR", "LF"}
      BY <2>4, <2>7, <3>3, QuoteFacts
    <3>5. rest[p] = Behind(v[i], rest[p + 1])
      <4>1. Len(t) \in Nat /\ p \in 1..Len(t)
        BY <1>6, <3>2
      <4>2. rest[p] = Behind(t[p], rest[p + 1])
        BY <3>4, <4>1, QuotedRestArms DEF rest
      <4> QED BY <3>3, <4>2, Zenon
    <3> QED BY <2>1, <2>2, <2>5, <3>2, <3>5 DEF p
  <2> QED BY <2>6, <2>7
<1>10. n \in Back
  <2>1. n \in 0..n
    BY <1>0
  <2> HIDE DEF Back, n
  <2> QED BY <1>0, <1>8, <1>9, <2>1, UpTo
<1>11. rest[B + 2] = Read(v, to)
  <2>1. n - n = 0 /\ 0 + 1 = 1 /\ off[0] = 0 /\ B + 2 + 0 = B + 2
    BY <1>0, <1>2 DEF Layout
  <2>2. SubSeq(v, 1, n) = v
    OBVIOUS
  <2> HIDE DEF rest
  <2> QED BY <1>10, <2>1, <2>2
<1>12. peek(t, B + 1) = Quote /\ (B + 1) + 1 = B + 2
  BY <1>0, <1>4, <1>6 DEF peek, at_end
<1>13. read_quoted(t, B + 1) = rest[B + 2]
  BY <1>12, QuoteFacts
<1>14. to = B + Len(m) + 1
  BY <1>0, <1>3, <1>4
<1> QED BY <1>11, <1>13, <1>14 DEF t, m

(* The character classes of arguments.                                     *)
LEMMA CharFacts ==
    /\ \A c : is_atom_char(c) => is_astring_char(c)
    /\ \A c : is_astring_char(c) => c \notin {"CR", "LF"} /\ c # Quote /\ c # "{"
    /\ \A c : is_text_char(c) => c \notin {"CR", "LF"}
<1>1. "]" # "CR" /\ "]" # "LF" /\ "]" # Quote /\ "]" # "{"
  BY Zenon DEF Quote
<1>2. \A c : is_atom_char(c) => c \notin {"CR", "LF"} /\ c # Quote /\ c # "{"
  BY Zenon DEF Quote, is_atom_char, is_atom_special, is_ctl
<1> QED BY <1>1, <1>2, Zenon DEF is_astring_char, is_text_char

(* How a server reads an atom: up to the first other character.            *)
LEMMA AtomUnderstood ==
    ASSUME NEW C, NEW v \in Seq(C), v # <<>>,
           \A i \in 1..Len(v) : is_astring_char(v[i]),
           NEW before \in Seq(C), NEW after \in Seq(C),
           after = <<>> \/ ~is_astring_char(after[1])
    PROVE  ServerAstring(before \o v \o after, Len(before) + 1)
             = Read(v, Len(before) + Len(v) + 1)
<1> DEFINE n == Len(v)
           B == Len(before)
           A == Len(after)
           t == before \o v \o after
<1>0. n \in Nat \ {0} /\ B \in Nat /\ A \in Nat
  OBVIOUS
<1>1. /\ t \in Seq(C) /\ Len(t) = B + n + A
      /\ \A k \in 1..n : t[B + k] = v[k]
      /\ \A k \in 1..A : t[B + n + k] = after[k]
  BY Within
<1> HIDE DEF t
<1> DEFINE S == {q \in (B + 1)..(Len(t) + 1) : q > Len(t) \/ ~is_astring_char(t[q])}
           end == B + n + 1
<1>2. end \in S
  <2>1. CASE after = <<>>
    <3>1. Len(t) = B + n
      BY <1>0, <1>1, <2>1
    <3> HIDE DEF n, B
    <3> QED BY <1>0, <3>1
  <2>2. CASE after # <<>>
    <3>1. A \in Nat \ {0} /\ ~is_astring_char(after[1])
      BY <1>0, <2>2
    <3> HIDE DEF n, B, A
    <3>2. 1 \in 1..A /\ end \in (B + 1)..(Len(t) + 1)
      BY <1>0, <1>1, <3>1
    <3>3. t[end] = after[1]
      BY <1>1, <3>2
    <3> QED BY <3>1, <3>2, <3>3
  <2> QED BY <2>1, <2>2
<1>3. ASSUME NEW y \in S PROVE end <= y
  <2>1. SUFFICES ASSUME y < end PROVE FALSE
    BY <1>0, <1>1
  <2> HIDE DEF n, B, A
  <2>2. y - B \in 1..n /\ B + (y - B) = y /\ ~(y > Len(t)) /\ y \in Nat
    BY <1>0, <1>1, <2>1
  <2>3. t[y] = v[y - B]
    BY <1>1, <2>2
  <2> QED BY <2>2, <2>3 DEF n
<1>4. S \in SUBSET Nat /\ end \in Nat
  BY <1>0, <1>1
<1>5. Seek(t, B + 1, LAMBDA c : ~is_astring_char(c)) = Min(S)
  <2>1. ~at_end(t, B + 1)
    BY <1>0, <1>1 DEF at_end
  <2> QED BY <2>1 DEF Seek
<1>6. Min(S) = end
  <2> HIDE DEF S, end
  <2>1. Min(S) \in S /\ \A y \in S : Min(S) <= y
    BY <1>2, <1>4, MinFacts
  <2>2. Min(S) <= end /\ end <= Min(S) /\ Min(S) \in Nat
    BY <1>2, <1>3, <1>4, <2>1
  <2> QED BY <1>4, <2>2
<1>7. peek(t, B + 1) = v[1]
  <2> HIDE DEF n, B, A
  <2>1. ~at_end(t, B + 1) /\ 1 \in 1..n
    BY <1>0, <1>1 DEF at_end
  <2> QED BY <1>1, <2>1 DEF peek
<1>8. peek(t, B + 1) # Quote /\ peek(t, B + 1) # "{"
  <2>1. is_astring_char(v[1])
    BY <1>0
  <2> QED BY <1>7, <2>1, CharFacts, Zenon
<1>9. SubSeq(t, B + 1, end - 1) = v
  <2>1. B \in Nat /\ B + n <= Len(t) /\ end - 1 = B + n /\ t \in Seq(C)
    BY <1>0, <1>1
  <2> HIDE DEF B, end
  <2>2. SubSeq(t, B + 1, B + n) = v
    BY <1>1, <2>1, Slice
  <2> QED BY <2>1, <2>2
<1>10. end > B + 1
  BY <1>0
<1> DEFINE q == Seek(t, B + 1, LAMBDA c : ~is_astring_char(c))
<1>11. q = end /\ q > B + 1 /\ SubSeq(t, B + 1, q - 1) = v
  <2> HIDE DEF S, end, B
  <2> QED BY <1>5, <1>6, <1>9, <1>10
<1>12. ServerAstring(t, B + 1) = Accept(SubSeq(t, B + 1, q - 1), q)
  <2>1. q > B + 1
    BY <1>11
  <2> HIDE DEF B
  <2> QED BY <1>8, <2>1, Zenon DEF ServerAstring, Quote
<1>13. ServerAstring(t, B + 1) = Read(v, end)
  <2> HIDE DEF q, end, B
  <2> QED BY <1>11, <1>12 DEF Accept
<1> QED BY <1>13 DEF t

(* How a server reads a quoted argument of 7-bit text.                     *)
LEMMA QuotedUnderstood ==
    ASSUME NEW C, Quote \in C, "\\" \in C,
           NEW v \in Seq(C), \A i \in 1..Len(v) : is_text_char(v[i]),
           NEW before \in Seq(C), NEW after \in Seq(C)
    PROVE  ServerAstring(before \o render_quoted(v) \o after, Len(before) + 1)
             = Read(v, Len(before) + Len(render_quoted(v)) + 1)
<1> DEFINE B == Len(before)
           m == render_quoted(v)
           t == before \o m \o after
<1>1. \A i \in 1..Len(v) : v[i] \notin {"CR", "LF"}
  BY CharFacts
<1>2. read_quoted(t, B + 1) = Read(v, B + Len(m) + 1)
  BY <1>1, QuotedReadBack
<1> HIDE DEF t
<1>3. read_quoted(t, B + 1).ok /\ read_quoted(t, B + 1).v = v
  BY <1>2 DEF Read
<1>4. peek(t, B + 1) = Quote
  <2>1. read_quoted(t, B + 1) = IF peek(t, B + 1) = Quote THEN QuotedRest(t)[(B + 1) + 1]
                                                          ELSE Malformed(B + 1)
    BY QuoteFacts, Zenon
  <2>2. ~Malformed(B + 1).ok
    BY DEF Malformed
  <2> QED BY <1>3, <2>1, <2>2, Zenon
<1>5. \A c \in ToSet(v) : is_text_char(c)
  BY DEF ToSet
<1>6. ServerAstring(t, B + 1) = read_quoted(t, B + 1)
  <2>1. peek(t, B + 1) # "{"
    BY <1>4, QuoteFacts
  <2> HIDE DEF B
  <2>2. \A c \in ToSet(read_quoted(t, B + 1).v) : is_text_char(c)
    BY <1>3, <1>5, Zenon
  <2> QED BY <1>3, <1>4, <2>1, <2>2, Zenon DEF ServerAstring, Quote
<1> QED BY <1>2, <1>6 DEF t

(* An argument is one token of one line, and the server reads from it the  *)
(* value that was rendered, whatever stands before and behind it: for      *)
(* render_astring() with every value classify_astring() does not send as a *)
(* literal, and for the mailbox commands' append_arg() with every value of *)
(* 7-bit text.                                                             *)
THEOREM ArgumentUnderstood ==
    ASSUME NEW C, Quote \in C, "\\" \in C, NEW v \in Seq(C),
           NEW before \in Seq(C), NEW after \in Seq(C),
           after = <<>> \/ ~is_astring_char(after[1]),
           NEW arg,
           \/ arg = render_astring(v) /\ classify_astring(v) # "literal"
           \/ arg = append_arg(v) /\ \A i \in 1..Len(v) : is_text_char(v[i])
    PROVE  /\ arg \in Seq(C \ {"CR", "LF"})
           /\ ServerAstring(before \o arg \o after, Len(before) + 1)
                = Read(v, Len(before) + Len(arg) + 1)
<1> DEFINE Atom == v # <<>> /\ \A i \in 1..Len(v) : is_astring_char(v[i])
           Text == \A i \in 1..Len(v) : is_text_char(v[i])
<1>2. \/ arg = v /\ Atom
      \/ arg = render_quoted(v) /\ Text
  <2>0. \A i \in 1..Len(v) : v[i] \in ToSet(v)
    BY DEF ToSet
  <2>1. CASE arg = render_astring(v) /\ classify_astring(v) # "literal"
    <3> DEFINE Safe == v # <<>> /\ \A c \in ToSet(v) : is_astring_char(c)
    <3>1. classify_astring(v) = "atom" => Safe
      BY Zenon DEF classify_astring
    <3>2. classify_astring(v) # "atom" => \A c \in ToSet(v) : is_text_char(c)
      BY <2>1, Zenon DEF classify_astring
    <3>3. arg = IF classify_astring(v) = "atom" THEN v ELSE render_quoted(v)
      BY <2>1 DEF render_astring
    <3> QED BY <2>0, <3>1, <3>2, <3>3, Zenon
  <2>2. CASE arg = append_arg(v) /\ Text
    <3>1. atom_safe(v) => Atom
      BY <2>0, CharFacts, Zenon DEF atom_safe
    <3>2. arg = IF atom_safe(v) THEN v ELSE render_quoted(v)
      BY <2>2 DEF append_arg
    <3> QED BY <2>2, <3>1, <3>2, Zenon
  <2> QED BY <2>1, <2>2
<1>3. CASE arg = v /\ Atom
  <2>1. v \in Seq(C \ {"CR", "LF"})
    <3>1. \A i \in 1..Len(v) : v[i] \in C \ {"CR", "LF"}
      <4>1. \A i \in 1..Len(v) : v[i] \in C
        OBVIOUS
      <4>2. \A i \in 1..Len(v) : v[i] \notin {"CR", "LF"}
        BY <1>3, CharFacts, Zenon
      <4> QED BY <4>1, <4>2
    <3> QED BY <3>1
  <2>2. ServerAstring(before \o v \o after, Len(before) + 1)
          = Read(v, Len(before) + Len(v) + 1)
    BY <1>3, AtomUnderstood
  <2> QED BY <1>3, <2>1, <2>2
<1>4. CASE arg = render_quoted(v) /\ Text
  <2> DEFINE D == C \ {"CR", "LF"}
  <2>1. "\\" \in D /\ Quote \in D /\ v \in Seq(D)
    <3>1. \A i \in 1..Len(v) : v[i] \in D
      <4>1. \A i \in 1..Len(v) : v[i] \in C
        OBVIOUS
      <4>2. \A i \in 1..Len(v) : v[i] \notin {"CR", "LF"}
        BY <1>4, CharFacts, Zenon
      <4> QED BY <4>1, <4>2
    <3>2. Quote \in D
      BY QuoteFacts
    <3> QED BY <3>1, <3>2
  <2> HIDE DEF D
  <2>2. Escaped(v) \in Seq(D)
    BY <2>1, EscapedLayout
  <2>3. render_quoted(v) = <<Quote>> \o Escaped(v) \o <<Quote>>
    BY QuoteFacts, Zenon
  <2>4. render_quoted(v) \in Seq(D)
    BY <2>1, <2>2, <2>3
  <2>5. ServerAstring(before \o render_quoted(v) \o after, Len(before) + 1)
          = Read(v, Len(before) + Len(render_quoted(v)) + 1)
    BY <1>4, QuotedUnderstood
  <2> QED BY <1>4, <2>4, <2>5 DEF D
<1> QED BY <1>2, <1>3, <1>4
-----------------------------------------------------------------------------
(* A property of naturals whose least counterexample cannot be.            *)
LEMMA AllNat ==
    ASSUME NEW S, \A n \in Nat : (\A m \in Nat : m < n => m \in S) => n \in S
    PROVE  \A n \in Nat : n \in S
<1> DEFINE Bad == {n \in Nat : n \notin S}
<1>1. SUFFICES ASSUME Bad # {} PROVE FALSE
  OBVIOUS
<1>2. PICK k \in Bad : \A y \in Bad : k <= y
  BY <1>1, MinFacts
<1>3. \A m \in Nat : m < k => m \in S
  BY <1>2
<1> QED BY <1>2, <1>3

(* The digits are told apart.                                              *)
LEMMA DigitFacts ==
    \A k \in 0..9 : /\ DigitChars[k + 1] \in Digits
                    /\ DigitValue[DigitChars[k + 1]] = k
<1>1. SUFFICES ASSUME NEW k \in 0..9
               PROVE  /\ DigitChars[k + 1] \in Digits
                      /\ DigitValue[DigitChars[k + 1]] = k
  BY <1>1
<1>2. k + 1 \in 1..10 /\ (k + 1) - 1 = k
  OBVIOUS
<1>3. DigitChars[k + 1] \in Digits
  BY <1>2 DEF Digits, ToSet, DigitChars
<1>4. \A i \in 1..10 : DigitChars[i] = DigitChars[k + 1] => i = k + 1
  BY <1>2 DEF DigitChars
<1>5. DigitValue[DigitChars[k + 1]] = (CHOOSE i \in 1..10 : DigitChars[i] = DigitChars[k + 1]) - 1
  BY <1>3 DEF DigitValue
<1>6. (CHOOSE i \in 1..10 : DigitChars[i] = DigitChars[k + 1]) = k + 1
  BY <1>2, <1>4
<1> QED BY <1>2, <1>3, <1>5, <1>6

(* The value of the digits up to each: the equation of Number has a        *)
(* solution, and only one.                                                 *)
Value(ds, f) == /\ f[0] = 0
                /\ \A k \in 1..Len(ds) : f[k] = 10 * f[k - 1] + DigitValue[ds[k]]

LEMMA ValueExists ==
    ASSUME NEW ds \in Seq(Digits)
    PROVE  \E f \in [0..Len(ds) -> Nat] : Value(ds, f)
<1> DEFINE L == Len(ds)
           Upto(f, k) == f[0] = 0 /\ \A j \in 1..k : f[j] = 10 * f[j - 1] + DigitValue[ds[j]]
           Made == {k \in 0..L : \E f \in [0..k -> Nat] : Upto(f, k)}
<1>0. L \in Nat /\ \A k \in 1..L : DigitValue[ds[k]] \in Nat
  <2>1. \A d \in Digits : DigitValue[d] \in Nat
    <3>1. \A d \in Digits : \E i \in 1..10 : DigitChars[i] = d
      BY DEF Digits, ToSet, DigitChars
    <3>2. ASSUME NEW d \in Digits PROVE (CHOOSE i \in 1..10 : DigitChars[i] = d) \in 1..10
      BY <3>1, Zenon
    <3>3. \A d \in Digits : DigitValue[d] = (CHOOSE i \in 1..10 : DigitChars[i] = d) - 1
      BY DEF DigitValue
    <3>4. ASSUME NEW d \in Digits PROVE DigitValue[d] \in Nat
      <4> DEFINE i0 == CHOOSE i \in 1..10 : DigitChars[i] = d
      <4>1. i0 \in 1..10 /\ DigitValue[d] = i0 - 1
        BY <3>2, <3>3
      <4> HIDE DEF i0
      <4> QED BY <4>1
    <3> QED BY <3>4
  <2> QED BY <2>1
<1>1. 0 \in Made
  <2> DEFINE z == [k \in 0..0 |-> 0]
  <2>1. z \in [0..0 -> Nat] /\ Upto(z, 0)
    OBVIOUS
  <2> HIDE DEF z, Upto
  <2> QED BY <1>0, <2>1
<1>2. ASSUME NEW k \in 0..L, k \in Made, k < L PROVE k + 1 \in Made
  <2>1. PICK f \in [0..k -> Nat] : Upto(f, k)
    BY <1>2
  <2> DEFINE g == [j \in 0..(k + 1) |-> IF j = k + 1 THEN 10 * f[k] + DigitValue[ds[k + 1]] ELSE f[j]]
  <2>2. k + 1 \in 0..L /\ k + 1 \in 1..L /\ k \in 0..k /\ k \in Nat
    BY <1>0, <1>2
  <2>3. 10 * f[k] + DigitValue[ds[k + 1]] \in Nat
    <3>1. f[k] \in Nat /\ DigitValue[ds[k + 1]] \in Nat
      BY <1>0, <2>2
    <3> QED BY <3>1
  <2>4. g \in [0..(k + 1) -> Nat]
    BY <2>2, <2>3
  <2>5. Upto(g, k + 1)
    <3>1. g[0] = 0
      BY <2>1, <2>2
    <3>2. ASSUME NEW j \in 1..(k + 1) PROVE g[j] = 10 * g[j - 1] + DigitValue[ds[j]]
      <4>1. j - 1 \in 0..(k + 1) /\ j - 1 # k + 1 /\ j \in 0..(k + 1)
        BY <2>2, <3>2
      <4>2. g[j - 1] = f[j - 1]
        BY <4>1
      <4>3. CASE j = k + 1
        <5>1. g[j] = 10 * f[k] + DigitValue[ds[k + 1]] /\ j - 1 = k
          BY <2>2, <4>1, <4>3
        <5> HIDE DEF g
        <5> QED BY <4>2, <4>3, <5>1
      <4>4. CASE j # k + 1
        <5>1. g[j] = f[j] /\ j \in 1..k
          BY <2>2, <3>2, <4>1, <4>4
        <5> HIDE DEF g
        <5> QED BY <2>1, <4>2, <5>1
      <4> QED BY <4>3, <4>4
    <3> QED BY <3>1, <3>2
  <2> HIDE DEF g, Upto
  <2> QED BY <2>2, <2>4, <2>5
<1>3. L \in Made
  <2>1. L \in 0..L
    BY <1>0
  <2> HIDE DEF Made, L
  <2> QED BY <1>0, <1>1, <1>2, <2>1, UpTo
<1> QED BY <1>3 DEF Value

(* Number returns the value of the last digit.                             *)
LEMMA NumberValue ==
    ASSUME NEW ds \in Seq(Digits), NEW f, Value(ds, f)
    PROVE  Number(ds) = f[Len(ds)]
<1> DEFINE L == Len(ds)
           Step(h) == [k \in 0..L |-> IF k = 0 THEN 0 ELSE 10 * h[k - 1] + DigitValue[ds[k]]]
           h0 == CHOOSE h : h = Step(h)
           g == [k \in 0..L |-> f[k]]
<1>0. L \in Nat /\ L \in 0..L
  OBVIOUS
<1>1. g = Step(g)
  <2>1. ASSUME NEW k \in 0..L PROVE g[k] = Step(g)[k]
    <3>1. CASE k = 0
      BY <1>0, <3>1 DEF Value
    <3>2. CASE k # 0
      <4>1. k \in 1..L /\ k - 1 \in 0..L
        BY <1>0, <2>1, <3>2
      <4>2. f[k] = 10 * f[k - 1] + DigitValue[ds[k]]
        BY <4>1 DEF Value
      <4>3. g[k] = f[k] /\ g[k - 1] = f[k - 1]
        BY <4>1
      <4>4. Step(g)[k] = 10 * g[k - 1] + DigitValue[ds[k]]
        BY <3>2
      <4> HIDE DEF g, Step
      <4> QED BY <4>2, <4>3, <4>4
    <3> QED BY <3>1, <3>2
  <2>2. Step(g) = [k \in 0..L |-> Step(g)[k]] /\ g = [k \in 0..L |-> g[k]]
    OBVIOUS
  <2> HIDE DEF g, Step
  <2> QED BY <2>1, <2>2
<1>2. h0 = Step(h0)
  <2> HIDE DEF Step, g
  <2> QED BY <1>1, Zenon
<1>3. Number(ds) = h0[L]
  BY DEF Number
<1>4. /\ h0[0] = f[0]
      /\ \A k \in 1..L : h0[k] = 10 * h0[k - 1] + DigitValue[ds[k]]
  <2> HIDE DEF h0
  <2>1. \A k \in 0..L : h0[k] = Step(h0)[k]
    BY <1>2, Zenon
  <2>2. \A k \in 0..L : Step(h0)[k] = IF k = 0 THEN 0 ELSE 10 * h0[k - 1] + DigitValue[ds[k]]
    OBVIOUS
  <2>3. 0 \in 0..L /\ \A k \in 1..L : k \in 0..L /\ k # 0
    BY <1>0
  <2>4. f[0] = 0
    BY DEF Value
  <2> HIDE DEF Step, L
  <2> QED BY <2>1, <2>2, <2>3, <2>4, Zenon
<1>5. \A k \in 1..L : f[k] = 10 * f[k - 1] + DigitValue[ds[k]]
  BY DEF Value
<1>6. \A k \in 0..L : h0[k] = f[k]
  <2> HIDE DEF h0, L
  <2> DEFINE Same == {k \in 0..L : h0[k] = f[k]}
  <2>1. 0 \in Same
    BY <1>0, <1>4
  <2>2. ASSUME NEW k \in 0..L, k \in Same, k < L PROVE k + 1 \in Same
    <3>1. k + 1 \in 1..L /\ (k + 1) - 1 = k /\ k + 1 \in 0..L /\ h0[k] = f[k]
      BY <1>0, <2>2
    <3>2. /\ h0[k + 1] = 10 * h0[k] + DigitValue[ds[k + 1]]
          /\ f[k + 1] = 10 * f[k] + DigitValue[ds[k + 1]]
      BY <1>4, <1>5, <3>1
    <3> QED BY <3>1, <3>2
  <2>3. \A k \in 0..L : k \in Same
    <3> HIDE DEF Same
    <3> QED BY <1>0, <2>1, <2>2, UpTo
  <2> QED BY <2>3
<1> HIDE DEF h0
<1> QED BY <1>0, <1>3, <1>6

(* One more digit.                                                         *)
LEMMA NumberOneMore ==
    ASSUME NEW ds \in Seq(Digits), NEW d \in Digits
    PROVE  Number(ds) \in Nat /\ Number(ds \o <<d>>) = 10 * Number(ds) + DigitValue[d]
<1> DEFINE L == Len(ds)
           es == ds \o <<d>>
<1>1. /\ es \in Seq(Digits) /\ Len(es) = L + 1 /\ es[L + 1] = d
      /\ \A k \in 1..L : es[k] = ds[k]
  OBVIOUS
<1>0. L \in Nat
  OBVIOUS
<1> HIDE DEF es
<1>2. PICK f \in [0..(L + 1) -> Nat] : Value(es, f)
  BY <1>1, ValueExists
<1>3. /\ f[0] = 0
      /\ \A k \in 1..(L + 1) : f[k] = 10 * f[k - 1] + DigitValue[es[k]]
  BY <1>1, <1>2 DEF Value
<1>4. Value(ds, f)
  <2>1. \A k \in 1..L : k \in 1..(L + 1)
    BY <1>0
  <2> QED BY <1>1, <1>3, <2>1 DEF Value
<1>5. Number(ds) = f[L]
  BY <1>4, NumberValue
<1>6. Number(es) = f[L + 1]
  BY <1>1, <1>2, NumberValue
<1>7. f[L + 1] = 10 * f[L] + DigitValue[d]
  <2>1. L + 1 \in 1..(L + 1) /\ (L + 1) - 1 = L
    BY <1>0
  <2> HIDE DEF L
  <2> QED BY <1>1, <1>3, <2>1
<1>8. f[L] \in Nat
  BY <1>0, <1>2
<1> QED BY <1>5, <1>6, <1>7, <1>8 DEF es

(* Decimal is a function: the equation that defines it has a solution.     *)
DecimalStep(f, n) == IF n < 10 THEN <<DigitChars[n + 1]>>
                     ELSE f[n \div 10] \o <<DigitChars[(n % 10) + 1]>>

LEMMA DecimalEquation ==
    \A n \in Nat : Decimal[n] = DecimalStep(Decimal, n)
<1> DEFINE Solves(f, m) == \A n \in 0..m : f[n] = DecimalStep(f, n)
           Solved == {m \in Nat : \E f : Solves(f, m)}
<1>1. \A n \in Nat : n >= 10 => n \div 10 \in Nat /\ n \div 10 < n
  OBVIOUS
<1>a. ASSUME NEW n \in Nat, NEW f, NEW g, n >= 10 => f[n \div 10] = g[n \div 10]
      PROVE  DecimalStep(f, n) = DecimalStep(g, n)
  <2>1. n < 10 \/ n >= 10
    OBVIOUS
  <2> QED BY <1>a, <2>1 DEF DecimalStep
<1>2. ASSUME NEW m \in Nat, \A k \in Nat : k < m => k \in Solved PROVE m \in Solved
  <2>1. PICK f : \A n \in 0..(m - 1) : f[n] = DecimalStep(f, n)
    <3>1. CASE m = 0
      <4>1. \A n \in 0..(m - 1) : FALSE
        BY <3>1
      <4> QED BY <4>1
    <3>2. CASE m # 0
      <4>1. m - 1 \in Nat /\ m - 1 < m
        BY <3>2
      <4> QED BY <1>2, <4>1
    <3> QED BY <3>1, <3>2
  <2> DEFINE g == [n \in 0..m |-> IF n = m THEN DecimalStep(f, m) ELSE f[n]]
  <2>2. g[m] = DecimalStep(f, m) /\ \A n \in 0..(m - 1) : g[n] = f[n]
    OBVIOUS
  <2> HIDE DEF g
  <2>3. ASSUME NEW n \in 0..m PROVE g[n] = DecimalStep(g, n)
    <3>1. n \in Nat /\ (n >= 10 => n \div 10 \in 0..(m - 1))
      BY <1>1
    <3>2. n >= 10 => f[n \div 10] = g[n \div 10]
      BY <2>2, <3>1
    <3>3. DecimalStep(f, n) = DecimalStep(g, n)
      BY <1>a, <3>1, <3>2
    <3>4. CASE n = m
      BY <2>2, <3>3, <3>4
    <3>5. CASE n # m
      <4>1. n \in 0..(m - 1)
        BY <3>5
      <4> QED BY <2>1, <2>2, <3>3, <4>1
    <3> QED BY <3>4, <3>5
  <2>4. Solves(g, m)
    BY <2>3
  <2> HIDE DEF Solves
  <2> QED BY <2>4
<1>3. \A m \in Nat : m \in Solved
  <2> HIDE DEF Solved
  <2> QED BY <1>2, AllNat
<1> DEFINE Sol(m) == CHOOSE f : Solves(f, m)
           h == [n \in Nat |-> Sol(n)[n]]
<1>4. ASSUME NEW m \in Nat PROVE Solves(Sol(m), m)
  <2>1. \E f : Solves(f, m)
    BY <1>3
  <2> HIDE DEF Solves
  <2> QED BY <2>1, Zenon
<1> HIDE DEF Sol
<1>5. ASSUME NEW m \in Nat PROVE \A n \in Nat : n <= m => Sol(m)[n] = Sol(n)[n]
  <2> DEFINE Agree == {n \in Nat : \A k \in Nat : n <= k => Sol(k)[n] = Sol(n)[n]}
  <2>1. ASSUME NEW n \in Nat, \A j \in Nat : j < n => j \in Agree PROVE n \in Agree
    <3>1. ASSUME NEW k \in Nat, n <= k PROVE Sol(k)[n] = Sol(n)[n]
      <4>1. n \in 0..k /\ n \in 0..n
        BY <3>1
      <4>2. Sol(k)[n] = DecimalStep(Sol(k), n) /\ Sol(n)[n] = DecimalStep(Sol(n), n)
        BY <1>4, <4>1
      <4>3. n >= 10 => Sol(k)[n \div 10] = Sol(n)[n \div 10]
        <5>1. SUFFICES ASSUME n >= 10 PROVE Sol(k)[n \div 10] = Sol(n)[n \div 10]
          OBVIOUS
        <5> DEFINE d == n \div 10
        <5>2. d \in Nat /\ d < n
          BY <1>1, <5>1
        <5> HIDE DEF d
        <5>3. d <= n /\ d <= k
          BY <3>1, <5>2
        <5>4. Sol(k)[d] = Sol(d)[d] /\ Sol(n)[d] = Sol(d)[d]
          BY <2>1, <5>2, <5>3
        <5> QED BY <5>4 DEF d
      <4> QED BY <1>a, <4>2, <4>3
    <3> QED BY <3>1
  <2>2. \A n \in Nat : n \in Agree
    <3> HIDE DEF Agree
    <3> QED BY <2>1, AllNat
  <2> QED BY <2>2
<1> DEFINE Step(f) == [n \in Nat |-> DecimalStep(f, n)]
<1>6. h = Step(h)
  <2>1. ASSUME NEW n \in Nat PROVE Sol(n)[n] = DecimalStep(h, n)
    <3>1. n \in 0..n
      OBVIOUS
    <3>2. Sol(n)[n] = DecimalStep(Sol(n), n)
      BY <1>4, <3>1
    <3>3. n >= 10 => Sol(n)[n \div 10] = h[n \div 10]
      <4>1. SUFFICES ASSUME n >= 10 PROVE Sol(n)[n \div 10] = h[n \div 10]
        OBVIOUS
      <4> DEFINE d == n \div 10
      <4>2. d \in Nat /\ d <= n
        BY <1>1, <4>1
      <4> HIDE DEF d
      <4>3. Sol(n)[d] = Sol(d)[d]
        BY <1>5, <4>2
      <4>4. h[d] = Sol(d)[d]
        BY <4>2
      <4> QED BY <4>3, <4>4 DEF d
    <3> HIDE DEF h
    <3> QED BY <1>a, <3>2, <3>3
  <2> QED BY <2>1
<1>7. Decimal = CHOOSE f : f = Step(f)
  BY DEF Decimal, DecimalStep
<1>8. Decimal = Step(Decimal)
  <2> HIDE DEF Step, h
  <2> QED BY <1>6, <1>7, Zenon
<1>9. ASSUME NEW n \in Nat PROVE Step(Decimal)[n] = DecimalStep(Decimal, n)
  OBVIOUS
<1> HIDE DEF Step
<1> QED BY <1>8, <1>9

(* A number is read back from its digits (std::to_chars, from_chars).      *)
LEMMA DecimalReadBack ==
    \A n \in Nat : /\ Decimal[n] \in Seq(Digits) /\ Decimal[n] # <<>>
                   /\ Number(Decimal[n]) = n
<1> DEFINE Good == {n \in Nat : /\ Decimal[n] \in Seq(Digits) /\ Decimal[n] # <<>>
                                /\ Number(Decimal[n]) = n}
<1>1. ASSUME NEW n \in Nat, \A m \in Nat : m < n => m \in Good PROVE n \in Good
  <2>1. CASE n < 10
    <3> DEFINE d == DigitChars[n + 1]
    <3>1. n \in 0..9
      BY <2>1
    <3>2. d \in Digits /\ DigitValue[d] = n
      BY <3>1, DigitFacts
    <3>3. Decimal[n] = <<d>>
      BY <2>1, DecimalEquation DEF DecimalStep
    <3> HIDE DEF d
    <3>4. <<>> \in Seq(Digits) /\ <<>> \o <<d>> = <<d>> /\ <<d>> \in Seq(Digits) /\ <<d>> # <<>>
      BY <3>2
    <3>5. Number(<<>>) = 0
      <4> DEFINE f == [k \in 0..0 |-> 0]
      <4>1. Value(<<>>, f) /\ f[0] = 0
        BY DEF Value
      <4> HIDE DEF f
      <4>2. Len(<<>>) = 0
        OBVIOUS
      <4> QED BY <3>4, <4>1, <4>2, NumberValue
    <3>6. Number(<<d>>) = 10 * 0 + DigitValue[d]
      BY <3>2, <3>4, <3>5, NumberOneMore
    <3>7. Number(<<d>>) = n
      BY <3>2, <3>6
    <3>8. /\ Decimal[n] \in Seq(Digits) /\ Decimal[n] # <<>>
          /\ Number(Decimal[n]) = n
      BY <3>3, <3>4, <3>7, Zenon
    <3> QED BY <3>8
  <2>2. CASE ~(n < 10)
    <3> DEFINE d == DigitChars[(n % 10) + 1]
               s == Decimal[n \div 10]
               high == n \div 10
               low == n % 10
    <3>1. high \in Nat /\ high < n /\ low \in 0..9 /\ n = 10 * high + low
      BY <2>2
    <3>2. d \in Digits /\ DigitValue[d] = low
      BY <3>1, DigitFacts
    <3>3. s \in Seq(Digits) /\ Number(s) = high
      <4> HIDE DEF high
      <4> QED BY <1>1, <3>1 DEF high
    <3>4. Decimal[n] = s \o <<d>>
      BY <2>2, DecimalEquation DEF DecimalStep
    <3> HIDE DEF d, s, high, low
    <3>5. s \o <<d>> \in Seq(Digits) /\ s \o <<d>> # <<>>
      BY <3>2, <3>3
    <3>6. Number(s \o <<d>>) = 10 * Number(s) + DigitValue[d]
      BY <3>2, <3>3, NumberOneMore
    <3> QED BY <3>1, <3>2, <3>3, <3>4, <3>5, <3>6
  <2> QED BY <2>1, <2>2
<1>2. \A n \in Nat : n \in Good
  <2> HIDE DEF Good
  <2> QED BY <1>1, AllNat
<1> QED BY <1>2

(* The braces of a literal, by name.                                       *)
OpenBrace == "{"
CloseBrace == "}"

(* What the provers need to know of them.                                  *)
LEMMA BraceFacts ==
    /\ OpenBrace \notin {"~", Quote} /\ CloseBrace \notin {"+"} \cup Digits
    /\ \A data, plus : render_literal(data, plus) =
          <<OpenBrace>> \o Decimal[Len(data)] \o (IF plus THEN <<"+">> ELSE <<>>)
                        \o <<CloseBrace>> \o CRLF \o data
    /\ \A t, p : peek(t, p) = OpenBrace =>
          /\ read_literal(t, p) = CountedText(t, p, read_number(t, p + 1))
          /\ ServerAstring(t, p) = read_literal(t, p)
<1>1. OpenBrace \notin {"~", Quote} /\ CloseBrace # "+"
  BY Zenon DEF OpenBrace, CloseBrace, Quote
<1>2. CloseBrace \notin Digits
  <2>1. Digits = {"0", "1", "2", "3", "4", "5", "6", "7", "8", "9"}
    BY DEF Digits, DigitChars, ToSet
  <2> QED BY <2>1, Zenon DEF CloseBrace
<1>3. \A data, plus : render_literal(data, plus) =
         <<OpenBrace>> \o Decimal[Len(data)] \o (IF plus THEN <<"+">> ELSE <<>>)
                       \o <<CloseBrace>> \o CRLF \o data
  BY Zenon DEF render_literal, OpenBrace, CloseBrace
<1>4. ASSUME NEW t, NEW p, peek(t, p) = OpenBrace
      PROVE  /\ read_literal(t, p) = CountedText(t, p, read_number(t, p + 1))
             /\ ServerAstring(t, p) = read_literal(t, p)
  <2>1. read_literal(t, p) = CountedText(t, p, read_number(t, p + 1))
    BY <1>1, <1>4, Zenon DEF read_literal, OpenBrace
  <2>2. ServerAstring(t, p) = read_literal(t, p)
    BY <1>1, <1>4, Zenon DEF ServerAstring, OpenBrace, Quote
  <2> QED BY <2>1, <2>2
<1>6. \A t, p : peek(t, p) = OpenBrace =>
         /\ read_literal(t, p) = CountedText(t, p, read_number(t, p + 1))
         /\ ServerAstring(t, p) = read_literal(t, p)
  BY <1>4, Zenon
<1>7. CloseBrace \notin {"+"} \cup Digits
  BY <1>1, <1>2, Zenon
<1> QED BY <1>1, <1>3, <1>6, <1>7, Zenon

(* A count that is followed by its octets.                                 *)
LEMMA CountedTextReads ==
    ASSUME NEW t, NEW p, NEW num, NEW close, NEW data, num.ok,
           close = IF peek(t, num.p) = "+" THEN num.p + 1 ELSE num.p,
           data = close + 3, peek(t, close) = CloseBrace,
           peek(t, close + 1) = "CR", peek(t, close + 2) = "LF",
           Len(t) - data + 1 >= num.v
    PROVE  CountedText(t, p, num) = Read(SubSeq(t, data, data + num.v - 1), data + num.v)
BY Zenon DEF CountedText, CloseBrace

(* Where the parts of a literal stand; close is the index of its "}".      *)
LiteralParts(m, dec, d, plus, close) ==
    /\ Len(m) = close + 2 + Len(d) /\ m[1] = OpenBrace
    /\ \A k \in 1..Len(dec) : m[1 + k] = dec[k]
    /\ plus => m[Len(dec) + 2] = "+"
    /\ m[close] = CloseBrace /\ m[close + 1] = "CR" /\ m[close + 2] = "LF"
    /\ \A k \in 1..Len(d) : m[close + 2 + k] = d[k]

LEMMA LiteralLayout ==
    ASSUME NEW C, {OpenBrace, CloseBrace, "+", "CR", "LF"} \cup Digits \subseteq C,
           NEW d \in Seq(C), NEW plus \in BOOLEAN,
           NEW dec \in Seq(Digits), dec = Decimal[Len(d)]
    PROVE  /\ render_literal(d, plus) \in Seq(C)
           /\ LiteralParts(render_literal(d, plus), dec, d, plus,
                           Len(dec) + (IF plus THEN 3 ELSE 2))
<1> DEFINE D == Len(dec)
           pl == IF plus THEN <<"+">> ELSE <<>>
           P == IF plus THEN 1 ELSE 0
           x1 == <<OpenBrace>> \o dec
           x2 == x1 \o pl
           x3 == x2 \o <<CloseBrace>>
           x4 == x3 \o CRLF
           m == x4 \o d
           close == D + P + 2
<1>j. \A a, b \in Seq(C) :
         /\ a \o b \in Seq(C) /\ Len(a \o b) = Len(a) + Len(b)
         /\ \A k \in 1..Len(a) : (a \o b)[k] = a[k]
         /\ \A k \in 1..Len(b) : (a \o b)[Len(a) + k] = b[k]
  BY Joined
<1>0. D \in Nat /\ Len(d) \in Nat /\ P \in Nat /\ dec \in Seq(C)
  <2>1. \A k \in 1..Len(dec) : dec[k] \in C
    OBVIOUS
  <2> QED BY <2>1
<1>7. close \in Nat /\ close = D + (IF plus THEN 3 ELSE 2)
  <2>1. CASE plus
    BY <1>0, <2>1
  <2>2. CASE ~plus
    BY <1>0, <2>2
  <2> QED BY <2>1, <2>2
<1>1. /\ x1 \in Seq(C) /\ Len(x1) = 1 + D /\ x1[1] = OpenBrace
      /\ \A k \in 1..D : x1[1 + k] = dec[k]
  <2> DEFINE o == <<OpenBrace>>
  <2>1. o \in Seq(C) /\ Len(o) = 1 /\ o[1] = OpenBrace /\ 1 \in 1..1
    OBVIOUS
  <2> HIDE DEF o
  <2>2. /\ o \o dec \in Seq(C) /\ Len(o \o dec) = Len(o) + Len(dec)
        /\ \A k \in 1..Len(o) : (o \o dec)[k] = o[k]
        /\ \A k \in 1..Len(dec) : (o \o dec)[Len(o) + k] = dec[k]
    BY <1>0, <1>j, <2>1
  <2>3. x1 = o \o dec
    BY DEF o
  <2> HIDE DEF x1
  <2> QED BY <2>1, <2>2, <2>3
<1> HIDE DEF x1
<1>2. /\ x2 \in Seq(C) /\ Len(x2) = 1 + D + P
      /\ \A k \in 1..(1 + D) : x2[k] = x1[k]
      /\ plus => x2[D + 2] = "+"
  <2>1. pl \in Seq(C) /\ Len(pl) = P /\ (plus => P = 1 /\ pl[1] = "+")
    OBVIOUS
  <2> HIDE DEF pl
  <2>2. /\ x2 \in Seq(C) /\ Len(x2) = Len(x1) + Len(pl)
        /\ \A k \in 1..Len(x1) : x2[k] = x1[k]
        /\ \A k \in 1..Len(pl) : x2[Len(x1) + k] = pl[k]
    BY <1>1, <1>j, <2>1
  <2> HIDE DEF x2, P
  <2>3. ASSUME plus PROVE x2[D + 2] = "+"
    <3>1. 1 \in 1..Len(pl) /\ Len(x1) + 1 = D + 2
      BY <1>0, <1>1, <2>1, <2>3
    <3> QED BY <2>1, <2>2, <2>3, <3>1
  <2> QED BY <1>1, <2>1, <2>2, <2>3
<1> HIDE DEF x2, P, pl
<1>3. /\ x3 \in Seq(C) /\ Len(x3) = close
      /\ \A k \in 1..(1 + D + P) : x3[k] = x2[k]
      /\ x3[close] = CloseBrace
  <2> DEFINE o == <<CloseBrace>>
  <2>1. o \in Seq(C) /\ Len(o) = 1 /\ o[1] = CloseBrace /\ 1 \in 1..1
    OBVIOUS
  <2>2. x3 = x2 \o o
    OBVIOUS
  <2> HIDE DEF o
  <2>3. /\ x2 \o o \in Seq(C) /\ Len(x2 \o o) = Len(x2) + Len(o)
        /\ \A k \in 1..Len(x2) : (x2 \o o)[k] = x2[k]
        /\ \A k \in 1..Len(o) : (x2 \o o)[Len(x2) + k] = o[k]
    BY <1>2, <1>j, <2>1
  <2> HIDE DEF x3
  <2>4. Len(x2) + 1 = close
    BY <1>0, <1>2, <1>7
  <2> QED BY <1>2, <2>1, <2>2, <2>3, <2>4
<1> HIDE DEF x3
<1>4. /\ x4 \in Seq(C) /\ Len(x4) = close + 2
      /\ \A k \in 1..close : x4[k] = x3[k]
      /\ x4[close + 1] = "CR" /\ x4[close + 2] = "LF"
  <2>1. CRLF \in Seq(C) /\ Len(CRLF) = 2 /\ CRLF[1] = "CR" /\ CRLF[2] = "LF"
        /\ 1 \in 1..2 /\ 2 \in 1..2
    BY DEF CRLF
  <2>2. /\ x4 \in Seq(C) /\ Len(x4) = Len(x3) + Len(CRLF)
        /\ \A k \in 1..Len(x3) : x4[k] = x3[k]
        /\ \A k \in 1..Len(CRLF) : x4[Len(x3) + k] = CRLF[k]
    BY <1>3, <1>j, <2>1
  <2> HIDE DEF x4, close
  <2> QED BY <1>3, <2>1, <2>2
<1> HIDE DEF x4
<1>5. /\ m \in Seq(C) /\ Len(m) = close + 2 + Len(d)
      /\ \A k \in 1..(close + 2) : m[k] = x4[k]
      /\ \A k \in 1..Len(d) : m[close + 2 + k] = d[k]
  <2>2. /\ m \in Seq(C) /\ Len(m) = Len(x4) + Len(d)
        /\ \A k \in 1..Len(x4) : m[k] = x4[k]
        /\ \A k \in 1..Len(d) : m[Len(x4) + k] = d[k]
    BY <1>4, <1>j
  <2> HIDE DEF m, close
  <2> QED BY <1>4, <2>2
<1> HIDE DEF m
<1>6. render_literal(d, plus) = m
  <2>1. render_literal(d, plus) = <<OpenBrace>> \o Decimal[Len(d)]
           \o (IF plus THEN <<"+">> ELSE <<>>) \o <<CloseBrace>> \o CRLF \o d
    BY BraceFacts, Zenon
  <2>2. m = <<OpenBrace>> \o dec \o (IF plus THEN <<"+">> ELSE <<>>)
             \o <<CloseBrace>> \o CRLF \o d
    BY Zenon DEF m, x4, x3, x2, x1, pl
  <2> QED BY <2>1, <2>2, Zenon
<1>8. /\ 1 \in 1..(1 + D) /\ \A k \in 1..(1 + D) : /\ k \in 1..(1 + D + P) /\ k \in 1..close
                                                   /\ k \in 1..(close + 2)
      /\ close \in 1..close /\ close \in 1..(close + 2) /\ close + 1 \in 1..(close + 2)
      /\ close + 2 \in 1..(close + 2)
      /\ \A k \in 1..D : 1 + k \in 1..(1 + D)
  BY <1>0, <1>7
<1>9. ASSUME NEW k \in 1..(1 + D) PROVE m[k] = x1[k]
  <2> HIDE DEF close
  <2>1. k \in 1..(1 + D + P) /\ k \in 1..close /\ k \in 1..(close + 2)
    BY <1>8, <1>9
  <2>2. x2[k] = x1[k] /\ x3[k] = x2[k]
    BY <1>2, <1>3, <1>9, <2>1
  <2>3. m[k] = x4[k] /\ x4[k] = x3[k]
    BY <1>4, <1>5, <2>1
  <2> QED BY <2>2, <2>3
<1>10. plus => m[D + 2] = "+"
  <2>1. ASSUME plus PROVE /\ D + 2 \in 1..(1 + D + P) /\ D + 2 \in 1..close
                          /\ D + 2 \in 1..(close + 2)
    BY <1>0, <2>1 DEF P
  <2> HIDE DEF close
  <2> QED BY <1>2, <1>3, <1>4, <1>5, <2>1
<1>11. m[close] = CloseBrace /\ m[close + 1] = "CR" /\ m[close + 2] = "LF"
  <2> HIDE DEF close
  <2> QED BY <1>3, <1>4, <1>5, <1>8
<1>12. m[1] = OpenBrace /\ \A k \in 1..D : m[1 + k] = dec[k]
  BY <1>1, <1>8, <1>9
<1> HIDE DEF close
<1>13. LiteralParts(m, dec, d, plus, close)
  BY <1>5, <1>10, <1>11, <1>12 DEF LiteralParts
<1> QED BY <1>5, <1>6, <1>7, <1>13, Zenon

(* A literal is read back as the octets it was rendered from, whatever     *)
(* they are -- line ends, braces and quotes too -- and whatever stands     *)
(* before and behind it, by the client's cursor and by the server: the     *)
(* count in braces is the length of what follows (render_literal and       *)
(* parse_cursor::read_literal).                                            *)
THEOREM LiteralReadBack ==
    ASSUME NEW C, {OpenBrace, CloseBrace, "+", "CR", "LF"} \cup Digits \subseteq C,
           NEW d \in Seq(C), Len(d) <= Max64, NEW plus \in BOOLEAN,
           NEW before \in Seq(C), NEW after \in Seq(C)
    PROVE  /\ read_literal(before \o render_literal(d, plus) \o after, Len(before) + 1)
                = Read(d, Len(before) + Len(render_literal(d, plus)) + 1)
           /\ ServerAstring(before \o render_literal(d, plus) \o after, Len(before) + 1)
                = Read(d, Len(before) + Len(render_literal(d, plus)) + 1)
<1> DEFINE B == Len(before)
           n == Len(d)
           m == render_literal(d, plus)
           t == before \o m \o after
           dec == Decimal[n]
           D == Len(dec)
<1>0. B \in Nat /\ n \in Nat /\ Len(after) \in Nat
  OBVIOUS
<1>1. dec \in Seq(Digits) /\ dec # <<>> /\ Number(dec) = n
  BY <1>0, DecimalReadBack
<1>2. D \in Nat \ {0}
  <2> HIDE DEF dec
  <2> QED BY <1>1
<1> HIDE DEF dec
<1> DEFINE close == D + (IF plus THEN 3 ELSE 2)
<1>c. close \in Nat /\ close >= D + 2 /\ (~plus => close = D + 2) /\ (plus => close = D + 3)
  <2>1. CASE plus
    BY <1>2, <2>1
  <2>2. CASE ~plus
    BY <1>2, <2>2
  <2> QED BY <2>1, <2>2
<1>3. /\ m \in Seq(C) /\ Len(m) = close + 2 + n /\ m[1] = OpenBrace
      /\ \A k \in 1..D : m[1 + k] = dec[k]
      /\ plus => m[D + 2] = "+"
      /\ m[close] = CloseBrace /\ m[close + 1] = "CR" /\ m[close + 2] = "LF"
      /\ \A k \in 1..n : m[close + 2 + k] = d[k]
  <2>1. dec = Decimal[Len(d)] /\ dec \in Seq(Digits)
    BY <1>1 DEF dec
  <2>2. m \in Seq(C) /\ LiteralParts(m, dec, d, plus, close)
    BY <2>1, LiteralLayout
  <2> HIDE DEF close, m
  <2> QED BY <2>2 DEF LiteralParts
<1> HIDE DEF m, D, close
<1>4. /\ t \in Seq(C) /\ Len(t) = B + Len(m) + Len(after)
      /\ \A k \in 1..Len(m) : t[B + k] = m[k]
  <2>1. m \in Seq(C)
    BY <1>3
  <2> QED BY <2>1, Within
<1> HIDE DEF t, B, n
<1>5. Len(t) \in Nat /\ Len(t) >= B + close + 2 + n /\ Len(m) = close + 2 + n /\ close >= D + 2
  <2>1. close >= D + 2 /\ close \in Nat
    BY <1>c
  <2>2. Len(m) = close + 2 + n
    BY <1>3
  <2>3. Len(t) = B + Len(m) + Len(after)
    BY <1>4
  <2>4. \A b, c, k, a \in Nat : b + (c + 2 + k) + a \in Nat /\ b + (c + 2 + k) + a >= b + c + 2 + k
    OBVIOUS
  <2> QED BY <1>0, <2>1, <2>2, <2>3, <2>4
<1>6. /\ t[B + 1] = OpenBrace
      /\ \A k \in 1..D : t[B + 1 + k] = dec[k]
      /\ plus => t[B + D + 2] = "+"
      /\ t[B + close] = CloseBrace /\ t[B + close + 1] = "CR" /\ t[B + close + 2] = "LF"
      /\ \A k \in 1..n : t[B + close + 2 + k] = d[k]
  <2>1. /\ 1 \in 1..Len(m) /\ D + 2 \in 1..Len(m) /\ close \in 1..Len(m)
        /\ close + 1 \in 1..Len(m) /\ close + 2 \in 1..Len(m)
        /\ B + (D + 2) = B + D + 2 /\ B + (close + 1) = B + close + 1
        /\ B + (close + 2) = B + close + 2
        /\ \A k \in 1..D : 1 + k \in 1..Len(m) /\ B + (1 + k) = B + 1 + k
        /\ \A k \in 1..n : close + 2 + k \in 1..Len(m) /\ B + (close + 2 + k) = B + close + 2 + k
    BY <1>0, <1>2, <1>c, <1>5
  <2> HIDE DEF n
  <2>2. t[B + 1] = OpenBrace /\ \A k \in 1..D : t[B + 1 + k] = dec[k]
    <3>1. t[B + 1] = OpenBrace
      BY <1>3, <1>4, <2>1
    <3>2. ASSUME NEW k \in 1..D PROVE t[B + 1 + k] = dec[k]
      <4>1. 1 + k \in 1..Len(m) /\ B + (1 + k) = B + 1 + k /\ m[1 + k] = dec[k]
        BY <1>3, <2>1, <3>2
      <4> QED BY <1>4, <4>1
    <3> QED BY <3>1, <3>2
  <2>3. plus => t[B + D + 2] = "+"
    BY <1>3, <1>4, <2>1
  <2>4. t[B + close] = CloseBrace /\ t[B + close + 1] = "CR" /\ t[B + close + 2] = "LF"
    BY <1>3, <1>4, <2>1
  <2>5. ASSUME NEW k \in 1..n PROVE t[B + close + 2 + k] = d[k]
    <3>1. /\ close + 2 + k \in 1..Len(m) /\ B + (close + 2 + k) = B + close + 2 + k
          /\ m[close + 2 + k] = d[k]
      BY <1>3, <2>1, <2>5
    <3> QED BY <1>4, <3>1
  <2> QED BY <2>2, <2>3, <2>4, <2>5
<1>7. \A k \in 1..Len(t) : peek(t, k) = t[k]
  BY <1>5 DEF peek, at_end
<1>8. peek(t, B + 1) = OpenBrace
  <2>1. B + 1 \in 1..Len(t)
    BY <1>0, <1>2, <1>c, <1>5
  <2> QED BY <1>6, <1>7, <2>1
<1> DEFINE S == {q \in (B + 2)..(Len(t) + 1) : q > Len(t) \/ ~is_digit(t[q])}
           end == B + D + 2
<1>9. end \in Nat /\ end \in 1..Len(t) /\ t[end] \in {"+", CloseBrace} /\ B + 2 < end
  <2>1. end \in Nat /\ end \in 1..Len(t) /\ B + 2 < end
    BY <1>0, <1>2, <1>c, <1>5
  <2>2. CASE plus
    BY <1>6, <2>1, <2>2
  <2>3. CASE ~plus
    <3>1. close = D + 2
      BY <1>c, <2>3
    <3>2. end = B + close
      BY <1>0, <1>2, <3>1
    <3> QED BY <1>6, <2>1, <3>2
  <2> QED BY <2>2, <2>3
<1>10. Min(S) = end
  <2>1. ~is_digit(t[end])
    <3>1. "+" \notin Digits
      BY DEF Digits, DigitChars, ToSet
    <3> QED BY <1>9, <3>1, BraceFacts DEF is_digit
  <2>2. end \in S /\ S \in SUBSET Nat
    <3>1. end \in (B + 2)..(Len(t) + 1)
      BY <1>0, <1>5, <1>9
    <3>2. \A q \in (B + 2)..(Len(t) + 1) : q \in Nat
      BY <1>0, <1>5
    <3> HIDE DEF end
    <3> QED BY <2>1, <3>1, <3>2
  <2>3. ASSUME NEW y \in S PROVE end <= y
    <3>1. y \in Nat /\ y >= B + 2 /\ (y > Len(t) \/ ~is_digit(t[y]))
      BY <1>0, <1>5
    <3>2. SUFFICES ASSUME y < end PROVE FALSE
      BY <1>9, <3>1
    <3>3. y - B - 1 \in 1..D /\ B + 1 + (y - B - 1) = y /\ ~(y > Len(t))
      BY <1>0, <1>2, <1>9, <3>1, <3>2
    <3>4. t[y] = dec[y - B - 1]
      BY <1>6, <3>3
    <3>5. dec[y - B - 1] \in Digits
      BY <1>1, <3>3 DEF D
    <3> QED BY <3>1, <3>3, <3>4, <3>5 DEF is_digit
  <2> HIDE DEF S, end
  <2>4. Min(S) \in S /\ \A y \in S : Min(S) <= y
    BY <2>2, MinFacts
  <2>5. Min(S) <= end /\ end <= Min(S) /\ Min(S) \in Nat /\ end \in Nat
    BY <2>2, <2>3, <2>4
  <2> QED BY <2>5
<1>11. Seek(t, B + 2, LAMBDA c : ~is_digit(c)) = end
  <2>1. ~at_end(t, B + 2)
    BY <1>0, <1>5, <1>9 DEF at_end
  <2> QED BY <1>10, <2>1 DEF Seek
<1>12. SubSeq(t, B + 2, end - 1) = dec
  <2> DEFINE x == B + 1
  <2>1. x \in Nat /\ x + D <= Len(t) /\ B + 2 = x + 1 /\ end - 1 = x + D
    BY <1>0, <1>2, <1>5, <1>c
  <2>2. \A k \in 1..D : t[x + k] = dec[k]
    BY <1>6
  <2>3. t \in Seq(C) /\ dec \in Seq(Digits) /\ Len(dec) = D
    BY <1>1, <1>4 DEF D
  <2> HIDE DEF x, end
  <2>4. SubSeq(t, x + 1, x + D) = dec
    BY <2>1, <2>2, <2>3, Slice
  <2> QED BY <2>1, <2>4
<1> DEFINE num == read_number(t, B + 2)
<1>13. num = Read(n, end)
  <2>1. Number(SubSeq(t, B + 2, end - 1)) = n /\ n <= Max64 /\ B + 2 < end
    BY <1>1, <1>9, <1>12 DEF n
  <2> HIDE DEF end
  <2> QED BY <1>11, <2>1 DEF read_number
<1> HIDE DEF num
<1>14. num.ok /\ num.v = n /\ num.p = end
  BY <1>13 DEF Read
<1> DEFINE shut == B + close
           data == B + close + 3
<1>15. /\ shut \in 1..Len(t) /\ shut + 1 \in 1..Len(t) /\ shut + 2 \in 1..Len(t)
       /\ shut + 1 = B + close + 1 /\ shut + 2 = B + close + 2 /\ data = shut + 3
       /\ Len(t) - data + 1 >= n /\ data + n - 1 = B + close + 2 + n
       /\ data + n = B + Len(m) + 1
  BY <1>0, <1>2, <1>c, <1>5
<1>16. shut = IF peek(t, num.p) = "+" THEN num.p + 1 ELSE num.p
  <2>1. peek(t, num.p) = t[end]
    BY <1>7, <1>9, <1>14
  <2>2. CASE plus
    <3>1. t[end] = "+" /\ shut = end + 1
      BY <1>0, <1>2, <1>c, <1>6, <2>2
    <3> HIDE DEF end, shut
    <3> QED BY <1>14, <2>1, <3>1
  <2>3. CASE ~plus
    <3>1. shut = end
      BY <1>0, <1>2, <1>c, <2>3
    <3>2. t[end] = CloseBrace /\ CloseBrace # "+"
      BY <1>6, <3>1, BraceFacts
    <3> HIDE DEF end, shut
    <3> QED BY <1>14, <2>1, <3>1, <3>2
  <2> QED BY <2>2, <2>3
<1>17. /\ peek(t, shut) = CloseBrace /\ peek(t, shut + 1) = "CR" /\ peek(t, shut + 2) = "LF"
  BY <1>6, <1>7, <1>15
<1>18. SubSeq(t, data, data + n - 1) = d
  <2> DEFINE x == B + close + 2
  <2>1. x \in Nat /\ x + n <= Len(t) /\ data = x + 1 /\ data + n - 1 = x + n
    BY <1>0, <1>c, <1>5
  <2>2. \A k \in 1..n : t[x + k] = d[k]
    BY <1>6
  <2>3. t \in Seq(C) /\ Len(d) = n
    BY <1>4 DEF n
  <2> HIDE DEF x, data
  <2>4. SubSeq(t, x + 1, x + n) = d
    BY <2>1, <2>2, <2>3, Slice
  <2> QED BY <2>1, <2>4
<1>19. CountedText(t, B + 1, num) = Read(d, B + Len(m) + 1)
  <2>1. Len(t) - data + 1 >= num.v /\ data = shut + 3 /\ num.ok
    BY <1>14, <1>15
  <2>2. SubSeq(t, data, data + num.v - 1) = d /\ data + num.v = B + Len(m) + 1
    BY <1>14, <1>15, <1>18
  <2> HIDE DEF shut, data
  <2>3. CountedText(t, B + 1, num) = Read(SubSeq(t, data, data + num.v - 1), data + num.v)
    BY <1>16, <1>17, <2>1, CountedTextReads
  <2> QED BY <2>2, <2>3
<1>20. (B + 1) + 1 = B + 2
  BY <1>0
<1>21. /\ read_literal(t, B + 1) = CountedText(t, B + 1, read_number(t, (B + 1) + 1))
       /\ ServerAstring(t, B + 1) = read_literal(t, B + 1)
  BY <1>8, BraceFacts, Zenon
<1> QED BY <1>19, <1>20, <1>21 DEF num, t, B, m
=============================================================================
