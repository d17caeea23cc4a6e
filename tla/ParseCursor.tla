----------------------------- MODULE ParseCursor -----------------------------
(***************************************************************************)
(* The response cursor (include/bkmail/imap/detail/parse_cursor.h).        *)
(*                                                                         *)
(* A cursor is a text t and the index p of its next character.  A reader   *)
(* returns [ok, v, nil, p]: whether it succeeded, what it read, whether    *)
(* that was NIL, and where it left the cursor -- also when it failed.      *)
(***************************************************************************)
EXTENDS Astring

Read(v, p)    == [ok |-> TRUE, v |-> v, nil |-> FALSE, p |-> p]
ReadNil(p)    == [ok |-> TRUE, v |-> <<>>, nil |-> TRUE, p |-> p]
Malformed(p)  == [ok |-> FALSE, v |-> <<>>, nil |-> FALSE, p |-> p]

at_end(t, p)    == p > Len(t)
peek(t, p)      == IF at_end(t, p) THEN "NUL" ELSE t[p]
remaining(t, p) == SubSeq(t, p, Len(t))

(* The first index from p on whose character satisfies Stop, or the end.   *)
Seek(t, p, Stop(_)) ==
    IF at_end(t, p) THEN p
    ELSE Min({q \in p..(Len(t) + 1) : q > Len(t) \/ Stop(t[q])})

skip_spaces(t, p)           == Seek(t, p, LAMBDA c : c # " ")
read_until_any(t, p, stops) ==
    LET q == Seek(t, p, LAMBDA c : c \in stops) IN Read(SubSeq(t, p, q - 1), q)
read_atom(t, p) ==
    LET q == Seek(t, p, LAMBDA c : ~is_atom_char(c)) IN Read(SubSeq(t, p, q - 1), q)

(* No digits, or more than 64 bits: malformed, with the digits consumed.   *)
read_number(t, p) ==
    LET q == Seek(t, p, LAMBDA c : ~is_digit(c))
        n == Number(SubSeq(t, p, q - 1))
    IN  IF p < q /\ n <= Max64 THEN Read(n, q) ELSE Malformed(q)

(* The character c in front of what was read behind it.                    *)
Behind(c, r) == IF r.ok THEN Read(<<c>> \o r.v, r.p) ELSE r

(* The rest of a quoted string, from each index on.                        *)
QuotedRest(t) ==
    LET rest[p \in 1..(Len(t) + 1)] ==
          CASE at_end(t, p)            -> Malformed(p)
            [] peek(t, p) = "\""       -> Read(<<>>, p + 1)
            [] peek(t, p) = "\\"       -> IF is_quoted_special(peek(t, p + 1))
                                          THEN Behind(t[p + 1], rest[p + 2])
                                          ELSE Malformed(p + 1)
            [] peek(t, p) \in {"CR", "LF"} -> Malformed(p)
            [] OTHER                   -> Behind(t[p], rest[p + 1])
    IN  rest

read_quoted(t, p) ==
    IF peek(t, p) = "\"" THEN QuotedRest(t)[p + 1] ELSE Malformed(p)

(* A string with an escape is not a view of the text: it is unescaped into *)
(* scratch_, where the next such string replaces it, terminator included.  *)
(* A view that is still held then reads what is there now.  (A string too  *)
(* long for the buffer would leave the view dangling.)                     *)
InScratch(t, p, x) == peek(t, p) = "\"" /\ \E q \in p..(x.p - 1) : t[q] = "\\"
Overwritten(old, new) ==
    [i \in 1..Len(old) |-> CASE i <= Len(new)     -> new[i]
                             [] i = Len(new) + 1  -> "NUL"
                             [] OTHER             -> old[i]]

(* [~]{n[+]} CRLF and n octets, from the count num on.                     *)
CountedText(t, p, num) ==
    LET close == IF peek(t, num.p) = "+" THEN num.p + 1 ELSE num.p
        data  == close + 3
    IN  IF /\ num.ok
           /\ peek(t, close) = "}"
           /\ peek(t, close + 1) = "CR" /\ peek(t, close + 2) = "LF"
           /\ Len(t) - data + 1 >= num.v
        THEN Read(SubSeq(t, data, data + num.v - 1), data + num.v)
        ELSE Malformed(p)
read_literal(t, p) ==
    LET open == IF peek(t, p) = "~" THEN p + 1 ELSE p
    IN  IF peek(t, open) = "{" THEN CountedText(t, p, read_number(t, open + 1))
        ELSE Malformed(p)

read_string(t, p) ==
    CASE peek(t, p) = "\""        -> read_quoted(t, p)
      [] peek(t, p) \in {"{", "~"} -> read_literal(t, p)
      [] OTHER                    -> Malformed(p)

read_astring(t, p) ==
    IF peek(t, p) \in {"\"", "{", "~"} THEN read_string(t, p)
    ELSE IF read_atom(t, p).v = <<>> THEN Malformed(p) ELSE read_atom(t, p)

(* NIL with its atom boundary (also fetch_parse.h consume_nil).            *)
StartsNil(t, p) == peek(t, p) = "NIL" /\ ~is_atom_char(peek(t, p + 1))

(* Mutant: NIL is not told from a string.                                  *)
read_nstring_as_string(t, p) == read_string(t, p)

read_nstring(t, p) ==
    IF StartsNil(t, p) THEN ReadNil(p + 1) ELSE read_string(t, p)
=============================================================================
