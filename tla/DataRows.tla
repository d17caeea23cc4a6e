------------------------------ MODULE DataRows ------------------------------
(***************************************************************************)
(* The row parsers inside the mailbox and search commands: LIST, STATUS,   *)
(* SEARCH and the FLAGS list of SELECT.  They work on the payload view     *)
(* with code of their own, not with parse_cursor.                          *)
(***************************************************************************)
EXTENDS ResponseParser

(* The pieces of a text between single spaces (body.find(' ')).            *)
RECURSIVE SplitSpaces(_)
SplitSpaces(t) ==
    LET q == Seek(t, 1, LAMBDA c : c = " ")
    IN  IF q > Len(t) THEN <<t>>
        ELSE <<SubSeq(t, 1, q - 1)>> \o SplitSpaces(SubSeq(t, q + 1, Len(t)))

(* parse_quoted(): any escaped character stands for itself.                *)
RECURSIVE LenientQuoted(_, _, _)
LenientQuoted(t, p, done) ==
    CASE at_end(t, p)      -> Read(done, p)
      [] peek(t, p) = "\"" -> Read(done, p + 1)
      [] peek(t, p) = "\\" /\ p < Len(t) -> LenientQuoted(t, p + 2, Append(done, t[p + 1]))
      [] OTHER             -> LenientQuoted(t, p + 1, Append(done, t[p]))

(* parse_literal(): the digits before "}" and as many octets as there are. *)
LenientLiteral(t, p) ==
    LET close == Seek(t, p, LAMBDA c : c = "}")
        n     == read_number(t, p + 1)
        data  == IF SubSeq(t, close + 1, close + 2) = CRLF THEN close + 3 ELSE close + 1
        last  == Min({Len(t), data + n.v - 1})
    IN  IF at_end(t, close) \/ ~n.ok THEN Read(<<>>, Len(t) + 1)
        ELSE Read(SubSeq(t, data, last), last + 1)

(* parse_string(): any of the three wire forms.                            *)
LenientString(t, p, stops) ==
    CASE peek(t, p) = "\"" -> LenientQuoted(t, p + 1, <<>>)
      [] peek(t, p) = "{"  -> LenientLiteral(t, p)
      [] OTHER             -> read_until_any(t, p, stops)
-----------------------------------------------------------------------------
(* list_command::parse_row: (flags) delimiter name.                        *)
ListFlags == {"Noselect", "HasChildren", "HasNoChildren"}
ListName(t, close, delim) ==
    [flags |-> {f \in ListFlags :
                  <<"\\", f>> \in ToSet(SplitSpaces(SubSeq(t, 2, close - 1)))},
     delimiter |-> delim.v,
     name |-> LenientString(t, skip_spaces(t, delim.p), {" ", "(", ")"}).v]
ListEntryAt(t, close, d) ==
    ListName(t, close, IF peek(t, d) = "NIL" THEN Read(<<>>, d + 1)
                       ELSE LenientString(t, d, {" ", "(", ")"}))
ListEntry(t, close) == ListEntryAt(t, close, skip_spaces(t, close + 1))
ListRows(t) ==
    IF peek(t, 1) = "(" /\ ")" \in ToSet(t) THEN <<ListEntry(t, Seek(t, 1, LAMBDA c : c = ")"))>> ELSE <<>>

(* status_command::parse_row: mailbox (NAME n NAME n).  A number past 32   *)
(* bits is left out; a row without its list leaves the last row in place.  *)
StatusItems == {"MESSAGES", "RECENT", "UIDNEXT", "UIDVALIDITY", "UNSEEN"}
EmptyStatus == [i \in StatusItems |-> 0]
StatusPairs(words) ==
    LET values == [k \in 1..Len(words) |-> read_number(words[k], 1)]
        Stores(k, i) == /\ k % 2 = 1 /\ words[k] = <<i>>
                        /\ values[k + 1].ok /\ values[k + 1].v < Word32
    IN  [i \in StatusItems |->
           FoldLeft(LAMBDA v, k : IF Stores(k, i) THEN values[k + 1].v ELSE v,
                    0, [k \in 1..(Len(words) - 1) |-> k])]
StatusList(status, t, open, close) ==
    IF peek(t, open) # "(" \/ at_end(t, close) THEN status
    ELSE StatusPairs(SplitSpaces(SubSeq(t, open + 1, close - 1)))
StatusFrom(status, t, open) ==
    StatusList(status, t, open, Seek(t, open, LAMBDA c : c = ")"))
StatusRow(status, t) ==
    StatusFrom(status, t, skip_spaces(t, LenientString(t, 1, {" ", "("}).p))

(* search_command::on_untagged: numbers between spaces, modulo 2^32.  An   *)
(* iteration of the outer loop that reads nothing is repeated for ever;    *)
(* the numbers are then followed by Stuck.                                 *)
Stuck == -1
RECURSIVE SearchFrom(_, _)
SearchFrom(t, p) ==
    LET d == Seek(t, p, LAMBDA c : c \notin {" ", "CR", "LF"})
        q == Seek(t, d, LAMBDA c : ~is_digit(c))
        n == Number(SubSeq(t, d, q - 1)) % Word32
    IN  IF at_end(t, p) THEN <<>>
        ELSE IF q = p THEN <<Stuck>>
        ELSE (IF d < q THEN <<n>> ELSE <<>>) \o SearchFrom(t, q)
SearchRows(t) == SearchFrom(t, 1)

(* select_command::parse_flag_list.                                        *)
SnapshotFlags(t) ==
    LET open  == Seek(t, 1, LAMBDA c : c = "(")
        close == Seek(t, open + 1, LAMBDA c : c = ")")
    IN  IF at_end(t, open) \/ at_end(t, close) THEN {}
        ELSE UNION {map_flag(f) : f \in ToSet(SplitSpaces(SubSeq(t, open + 1, close - 1)))}
=============================================================================
