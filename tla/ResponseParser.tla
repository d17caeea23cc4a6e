--------------------------- MODULE ResponseParser ---------------------------
(***************************************************************************)
(* One complete response, parsed                                           *)
(* (include/bkmail/imap/detail/response_parser.h).                         *)
(***************************************************************************)
EXTENDS ParseCursor

NoCode == [name |-> "none", num |-> 0, words |-> <<>>, flags |-> {}]
Blank  == [type |-> "untagged", tag |-> <<>>, kind |-> "none", number |-> 0,
           code |-> NoCode, text |-> <<>>, payload |-> <<>>]
ProtocolViolation == [Blank EXCEPT !.type = "violation"]   \* std::nullopt

Status       == [s \in {"OK", "NO", "BAD", "PREAUTH", "BYE"} |->
                   CASE s = "OK" -> "ok" [] s = "NO" -> "no" [] s = "BAD" -> "bad"
                     [] s = "PREAUTH" -> "preauth" [] s = "BYE" -> "bye"]
NumberedKind == [w \in {"EXISTS", "RECENT", "EXPUNGE", "FETCH"} |->
                   CASE w = "EXISTS" -> "exists" [] w = "RECENT" -> "recent"
                     [] w = "EXPUNGE" -> "expunge" [] w = "FETCH" -> "fetch"]
NamedKind    == [w \in {"CAPABILITY", "FLAGS", "LIST", "LSUB", "STATUS", "SEARCH"} |->
                   CASE w = "CAPABILITY" -> "capability" [] w = "FLAGS" -> "flags"
                     [] w = "LIST" -> "list" [] w = "LSUB" -> "lsub"
                     [] w = "STATUS" -> "status" [] w = "SEARCH" -> "search"]
SystemFlags  == {"Seen", "Answered", "Flagged", "Deleted", "Draft", "Recent"}

(* A word read by read_atom, as a keyword of the given table; "" if none.  *)
Keyword(word, table) ==
    IF Len(word) = 1 /\ word[1] \in DOMAIN table THEN table[word[1]] ELSE ""

(* map_flag(): unknown flags and keywords are dropped.                     *)
map_flag(flag) ==
    IF Len(flag) = 2 /\ flag[1] = "\\" /\ flag[2] \in SystemFlags THEN {flag[2]} ELSE {}

make_unknown(atom, arguments) ==
    [NoCode EXCEPT !.name = "unknown",
                   !.words = <<atom, IF arguments # <<>> /\ arguments[1] = " "
                                     THEN Tail(arguments) ELSE arguments>>]
-----------------------------------------------------------------------------
(* parse_resp_code(): the loops over a code's list.                        *)
RECURSIVE CodeAtoms(_, _), CodeCharsets(_, _, _), CodeFlags(_, _, _)
CodeAtoms(t, p) ==
    LET cap == read_atom(t, p + 1)
    IN  IF peek(t, p) = " " /\ cap.v # <<>> THEN <<cap.v>> \o CodeAtoms(t, cap.p)
        ELSE <<>>
CodeCharsets(t, p, done) ==
    LET q  == skip_spaces(t, p)
        cs == read_astring(t, q)
    IN  IF peek(t, q) = ")" THEN Read(done, q + 1)
        ELSE IF ~cs.ok THEN Malformed(cs.p)
        ELSE CodeCharsets(t, cs.p, Append(done, cs.v))
CodeFlags(t, p, done) ==
    LET q == skip_spaces(t, p)
        f == read_until_any(t, q, {" ", ")"})
    IN  IF peek(t, q) = ")" THEN Read(done, q + 1)
        ELSE IF f.v = <<>> THEN Malformed(q)
        ELSE CodeFlags(t, f.p, done \cup map_flag(f.v))

NumericCodes == {"UIDNEXT", "UIDVALIDITY", "UNSEEN"}
BareCodes    == {"ALERT", "PARSE", "READ-ONLY", "READ-WRITE", "TRYCREATE"}

(* A code whose argument was read (as x); otherwise what is left is kept.  *)
CodeOr(t, atom, x, code) ==
    IF x.ok THEN code ELSE make_unknown(atom.v, remaining(t, x.p))
NumericCode(t, atom, n) ==
    CodeOr(t, atom, n, [NoCode EXCEPT !.name = atom.v[1], !.num = n.v % Word32])
CharsetCode(t, atom, cs) ==
    CodeOr(t, atom, cs, [NoCode EXCEPT !.name = "BADCHARSET", !.words = cs.v])
FlagsCode(t, atom, fl) ==
    CodeOr(t, atom, fl, [NoCode EXCEPT !.name = "PERMANENTFLAGS", !.flags = fl.v])

(* Never fails: what is not recognised becomes an unknown code.            *)
CodeOf(t, atom) ==
    LET name == IF Len(atom.v) = 1 THEN atom.v[1] ELSE ""
        sp   == peek(t, atom.p) = " "
        list == sp /\ peek(t, atom.p + 1) = "("
    IN  CASE name \in BareCodes \/ (name = "BADCHARSET" /\ ~sp) ->
               [NoCode EXCEPT !.name = name]
          [] name \in NumericCodes /\ sp ->
               NumericCode(t, atom, read_number(t, atom.p + 1))
          [] name = "CAPABILITY" ->
               [NoCode EXCEPT !.name = name, !.words = CodeAtoms(t, atom.p)]
          [] name = "BADCHARSET" /\ list ->
               CharsetCode(t, atom, CodeCharsets(t, atom.p + 2, <<>>))
          [] name = "PERMANENTFLAGS" /\ list ->
               FlagsCode(t, atom, CodeFlags(t, atom.p + 2, {}))
          [] name \in {"BADCHARSET", "PERMANENTFLAGS"} /\ sp /\ ~list ->
               make_unknown(atom.v, remaining(t, atom.p + 1))
          [] OTHER -> make_unknown(atom.v, remaining(t, atom.p))
parse_resp_code(t) == CodeOf(t, read_atom(t, 1))

(* parse_resp_text(): fails only on an unterminated bracket.               *)
BracketText(t, inner) ==
    [ok   |-> ~at_end(t, inner.p),
     code |-> parse_resp_code(inner.v),
     text |-> IF peek(t, inner.p + 1) = " " THEN remaining(t, inner.p + 2) ELSE <<>>]
parse_resp_text(t, p) ==
    CASE peek(t, p) # " " -> [ok |-> TRUE, code |-> NoCode, text |-> <<>>]
      [] peek(t, p) = " " /\ peek(t, p + 1) # "[" ->
           [ok |-> TRUE, code |-> NoCode, text |-> remaining(t, p + 1)]
      [] OTHER -> BracketText(t, read_until_any(t, p + 2, {"]"}))
-----------------------------------------------------------------------------
parse_continuation(t) ==
    [Blank EXCEPT !.type = "continuation",
                  !.text = remaining(t, IF peek(t, 2) = " " THEN 3 ELSE 2)]

(* A status response, completed with its resp-text.                        *)
WithText(r, rest) ==
    IF rest.ok THEN [r EXCEPT !.code = rest.code, !.text = rest.text]
    ELSE ProtocolViolation

Completion(t, tag, word) ==
    LET status == Keyword(word.v, Status)
    IN  IF /\ tag.v # <<>> /\ peek(t, tag.p) = " "
           /\ status \in {"ok", "no", "bad"}
        THEN WithText([Blank EXCEPT !.type = "tagged", !.tag = tag.v, !.kind = status],
                      parse_resp_text(t, word.p))
        ELSE ProtocolViolation
TaggedBy(t, tag) == Completion(t, tag, read_atom(t, tag.p + 1))
parse_tagged(t)  == TaggedBy(t, read_atom(t, 1))

(* After "* ": a number and its keyword, a status, data, or an extension.  *)
AfterWord(t, word) == IF peek(t, word.p) = " " THEN remaining(t, word.p + 1) ELSE <<>>

Numbered(t, p, n, word) ==
    LET kind == Keyword(word.v, NumberedKind)
    IN  [Blank EXCEPT !.number  = n.v,
                      !.kind    = IF kind = "" THEN "unknown" ELSE kind,
                      !.payload = CASE kind = ""      -> remaining(t, p)
                                    [] kind = "fetch" -> AfterWord(t, word)
                                    [] OTHER          -> <<>>]
NumberedBy(t, p, n) ==
    IF n.ok /\ peek(t, n.p) = " " THEN Numbered(t, p, n, read_atom(t, n.p + 1))
    ELSE ProtocolViolation
NumberedResponse(t, p) == NumberedBy(t, p, read_number(t, p))

Named(t, p, word) ==
    LET status == Keyword(word.v, Status)
        kind   == Keyword(word.v, NamedKind)
    IN  CASE word.v = <<>> -> ProtocolViolation
          [] status # "" ->
               WithText([Blank EXCEPT !.kind = status], parse_resp_text(t, word.p))
          [] kind # "" -> [Blank EXCEPT !.kind = kind, !.payload = AfterWord(t, word)]
          [] OTHER -> [Blank EXCEPT !.kind = "unknown", !.payload = remaining(t, p)]
NamedResponse(t, p) == Named(t, p, read_atom(t, p))

parse_untagged(t) ==
    IF peek(t, 2) # " " THEN ProtocolViolation
    ELSE IF is_digit(peek(t, 3)) THEN NumberedResponse(t, 3)
    ELSE NamedResponse(t, 3)

parse(t) ==
    CASE t = <<>>            -> ProtocolViolation
      [] peek(t, 1) = "+"    -> parse_continuation(t)
      [] peek(t, 1) = "*"    -> parse_untagged(t)
      [] OTHER               -> parse_tagged(t)
=============================================================================
