---------------------------- MODULE ResponseLexer ----------------------------
(***************************************************************************)
(* The framing cursor (include/bkmail/imap/detail/response_lexer.h) and    *)
(* the loop of the read pump around it: extract a response, dispatch it,   *)
(* consume it, read on when none is complete.                              *)
(*                                                                         *)
(* Offsets are the code's, from 0: the octet at offset i is buffer[i + 1]. *)
(* The socket may deliver the stream in pieces of any size; a turn of the  *)
(* for (;;) of next_complete_response() is one step.                       *)
(*                                                                         *)
(* What the server sends is a script                                       *)
(*   text     the octets, all of them                                      *)
(*   replies  its responses, each without its final CRLF                   *)
(*   ends     the offset behind each response and its CRLF                 *)
(*   starts   the offsets at which a line starts: the first of a response, *)
(*            and what follows the octets of a literal                     *)
(***************************************************************************)
EXTENDS Astring, FiniteSets

CONSTANTS
    Streams,     \* what the server may send, as scripts
    MaxRead      \* the most octets one read commits

ASSUME LexerAssumption ==
    /\ MaxRead \in Nat \ {0}
    /\ \A s \in Streams : /\ s.text \in Seq(STRING) /\ s.replies \in Seq(Seq(STRING))
                          /\ s.ends \in Seq(Nat) /\ s.starts \subseteq Nat

VARIABLES
    script,             \* what the server sends on this connection
    stream,             \* what the server has still to deliver
    buffer,             \* the committed bytes (dynamic_byte_vector_buffer)
    mode,               \* mode_
    scan_pos,           \* scan_pos_
    line_start,         \* line_start_
    literal_remaining,  \* literal_remaining_
    response_end,       \* response_end_
    waiting,            \* nullopt was returned: the pump reads
    extracted           \* the response views handed out so far

cursorVars == <<mode, scan_pos, line_start, literal_remaining, response_end>>
lexerVars  == <<script, stream, buffer, cursorVars, waiting, extracted>>

size  == Len(buffer)
At(i) == buffer[i + 1]
View(from, to) == SubSeq(buffer, from + 1, to)   \* offsets from .. to - 1

(* reset()                                                                 *)
CursorInit ==
    /\ mode = "line" /\ scan_pos = 0 /\ line_start = 0
    /\ literal_remaining = 0 /\ response_end = 0

LexerInit ==
    /\ script \in Streams
    /\ stream = script.text
    /\ buffer = <<>>
    /\ CursorInit
    /\ waiting = TRUE
    /\ extracted = <<>>
-----------------------------------------------------------------------------
(* literal_trailer(): the octet count of a trailing {n}, {n+} or ~{n} that *)
(* is a token of its own; a count past 64 bits makes the line plain text.  *)
NoLiteral == -1
literal_trailer(line) ==
    LET n     == Len(line)
        last  == IF n > 1 /\ line[n - 1] = "+" THEN n - 2 ELSE n - 1
        first == 1 + Max({0} \cup {i \in 1..last : ~is_digit(line[i])})
        open  == first - 1
        value == Number(SubSeq(line, first, last))
    IN  IF /\ n >= 3 /\ line[n] = "}"
           /\ first <= last
           /\ open > 0 /\ line[open] = "{"
           /\ open > 1 => line[open - 1] \in {" ", "~"}
           /\ value \in 0..Max64
        THEN value ELSE NoLiteral

(* The offset of the first CRLF at or after scan_pos, or size.             *)
LineEnds == {i \in scan_pos..(size - 2) : At(i) = "CR" /\ At(i + 1) = "LF"}
eol  == IF LineEnds = {} THEN size ELSE Min(LineEnds)
line == View(line_start, eol)

Scanning == ~waiting /\ response_end = 0

(* Literal mode: wait for all the octets, then step over them.             *)
LiteralShort ==
    /\ Scanning /\ mode = "literal"
    /\ size - scan_pos < literal_remaining
    /\ waiting' = TRUE
    /\ UNCHANGED <<script, stream, buffer, cursorVars, extracted>>

(* Mutant: the octets of the literal are not waited for.                   *)
LiteralDoneEarly ==
    /\ Scanning /\ mode = "literal"
    /\ scan_pos' = scan_pos + literal_remaining
    /\ line_start' = scan_pos + literal_remaining
    /\ literal_remaining' = 0
    /\ mode' = "line"
    /\ UNCHANGED <<script, stream, buffer, response_end, waiting, extracted>>

LiteralDone ==
    /\ Scanning /\ mode = "literal"
    /\ size - scan_pos >= literal_remaining
    /\ scan_pos' = scan_pos + literal_remaining
    /\ line_start' = scan_pos + literal_remaining
    /\ literal_remaining' = 0
    /\ mode' = "line"
    /\ UNCHANGED <<script, stream, buffer, response_end, waiting, extracted>>

(* Mutant: the scan resumes behind the last byte.                          *)
LineShortAtSize ==
    /\ Scanning /\ mode = "line" /\ LineEnds = {}
    /\ scan_pos' = size
    /\ waiting' = TRUE
    /\ UNCHANGED <<script, stream, buffer, mode, line_start,
                   literal_remaining, response_end, extracted>>

(* Line mode without a CRLF: resume at the last byte, it may be a CR.      *)
LineShort ==
    /\ Scanning /\ mode = "line" /\ LineEnds = {}
    /\ scan_pos' = IF size > line_start THEN size - 1 ELSE line_start
    /\ waiting' = TRUE
    /\ UNCHANGED <<script, stream, buffer, mode, line_start,
                   literal_remaining, response_end, extracted>>

LineOpensLiteral ==
    /\ Scanning /\ mode = "line" /\ LineEnds # {}
    /\ literal_trailer(line) # NoLiteral
    /\ literal_remaining' = literal_trailer(line)
    /\ scan_pos' = eol + 2
    /\ mode' = "literal"
    /\ UNCHANGED <<script, stream, buffer, line_start, response_end, waiting,
                   extracted>>

LineComplete ==
    /\ Scanning /\ mode = "line" /\ LineEnds # {}
    /\ literal_trailer(line) = NoLiteral
    /\ response_end' = eol + 2
    /\ extracted' = Append(extracted, View(0, eol))
    /\ UNCHANGED <<script, stream, buffer, mode, scan_pos, line_start,
                   literal_remaining, waiting>>

(* Mutant: the line end is left in the buffer.                             *)
ConsumeToLineEnd ==
    /\ response_end # 0
    /\ buffer' = View(response_end - 2, size)
    /\ mode' = "line" /\ scan_pos' = 0 /\ line_start' = 0
    /\ literal_remaining' = 0 /\ response_end' = 0
    /\ UNCHANGED <<script, stream, waiting, extracted>>

(* consume_response(): drop the response, reset the cursor.                *)
Consume ==
    /\ response_end # 0
    /\ buffer' = View(response_end, size)
    /\ mode' = "line" /\ scan_pos' = 0 /\ line_start' = 0
    /\ literal_remaining' = 0 /\ response_end' = 0
    /\ UNCHANGED <<script, stream, waiting, extracted>>

(* A read completes with some octets.                                      *)
Commit(n) ==
    /\ waiting
    /\ n \in 1..Len(stream)
    /\ buffer' = buffer \o SubSeq(stream, 1, n)
    /\ stream' = SubSeq(stream, n + 1, Len(stream))
    /\ waiting' = FALSE
    /\ UNCHANGED <<script, cursorVars, extracted>>

LexerNext ==
    \/ LiteralShort \/ LiteralDone
    \/ LineShort \/ LineOpensLiteral \/ LineComplete
    \/ Consume
    \/ \E n \in 1..MaxRead : Commit(n)

LexerSpec == LexerInit /\ [][LexerNext]_lexerVars
-----------------------------------------------------------------------------
LexerTypeOK ==
    /\ buffer \in Seq(STRING) /\ stream \in Seq(STRING)
    /\ mode \in {"line", "literal"}
    /\ scan_pos \in Nat /\ line_start \in Nat
    /\ literal_remaining \in Nat /\ response_end \in Nat
    /\ waiting \in BOOLEAN

(* The cursor stays inside the committed bytes: `size - scan_pos_` and     *)
(* `eol - line_start_` are differences of unsigned integers and would wrap *)
(* around otherwise, and consume() would be asked for more than there is.  *)
CursorInBounds ==
    /\ line_start <= scan_pos /\ scan_pos <= size
    /\ response_end <= size

(* Resuming the scan at the last byte skips no line end: however the CR    *)
(* and the LF were split over reads, no CRLF of the current line lies      *)
(* wholly before the scan position.                                        *)
NoLineEndSkipped ==
    mode = "line" =>
        \A i \in line_start..(scan_pos - 1) :
            i + 1 < size => ~(At(i) = "CR" /\ At(i + 1) = "LF")

(* Framing does not depend on how the reads cut the stream: what was       *)
(* extracted is, response by response, what the server sent, and whenever  *)
(* the pump goes back to reading, every response whose octets have all     *)
(* arrived has been extracted -- none is held back for a later read.       *)
Arrived(k) == script.ends[k] + Len(stream) <= Len(script.text)
FramingExact ==
    /\ Len(extracted) <= Len(script.replies)
    /\ \A k \in 1..Len(extracted) : extracted[k] = script.replies[k]
    /\ waiting => \A k \in 1..Len(script.replies) : Arrived(k) => k <= Len(extracted)
-----------------------------------------------------------------------------
(* What FramingExact asks of the server: its responses follow one another  *)
(* without a gap, and a line ends in what literal_trailer() reads as a     *)
(* count exactly where a literal of so many octets follows.  The last line *)
(* of a response does not.                                                 *)
Begin(s, k) == IF k = 1 THEN 0 ELSE s.ends[k - 1]
LineEndAt(text, i) == text[i + 1] = "CR" /\ text[i + 2] = "LF"
LineAt(s, p, end) ==
    \E e \in p..(end - 2) :
        /\ LineEndAt(s.text, e)
        /\ \A i \in p..(e - 1) : ~LineEndAt(s.text, i)
        /\ LET n == literal_trailer(SubSeq(s.text, p + 1, e))
           IN  IF n = NoLiteral THEN e + 2 = end
               ELSE e + 2 + n \in s.starts /\ e + 2 + n < end
WellFramed(s) ==
    /\ Len(s.ends) = Len(s.replies)
    /\ Begin(s, Len(s.ends) + 1) = Len(s.text)
    /\ \A j, k \in 1..Len(s.ends) : j < k => s.ends[j] < s.ends[k]
    /\ \A k \in 1..Len(s.ends) :
          /\ Begin(s, k) \in s.starts
          /\ Begin(s, k) + 2 <= s.ends[k] /\ s.ends[k] <= Len(s.text)
          /\ s.replies[k] = SubSeq(s.text, Begin(s, k) + 1, s.ends[k] - 2)
          /\ \A p \in s.starts :
                Begin(s, k) <= p /\ p < s.ends[k] => LineAt(s, p, s.ends[k])
=============================================================================
