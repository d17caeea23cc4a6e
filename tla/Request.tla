------------------------------- MODULE Request -------------------------------
(***************************************************************************)
(* The client's side of the wire: what render() of every command writes,   *)
(* from the arguments CommandCatalog lists, and the validators of the      *)
(* arguments that go out verbatim (sequence_set.h, search_criteria.h).     *)
(*                                                                         *)
(* A request is [cmd, values, meant, plus]: a command, a value per         *)
(* argument as the command is given it, the values the server is to have,  *)
(* and whether literals are non-synchronizing.  The text is all its        *)
(* segments in order; what holds them back is the subject of Commands.     *)
(***************************************************************************)
EXTENDS CommandCatalog, ParseCursor

Tag == <<"a1">>
Space == <<" ">>
Spaced(parts) == FlattenSeq([i \in 1..Len(parts) |->
                               IF i = 1 THEN parts[i] ELSE Space \o parts[i]])
InParens(parts) == <<"(">> \o Spaced(parts) \o <<")">>
HasBreak(v) == \E c \in ToSet(v) : c \in {"CR", "LF"}
-----------------------------------------------------------------------------
(* authenticate_command::append_base64 over octets: groups of three give   *)
(* four digits, a rest of one or two is padded.                            *)
Base64Digit == [d \in 0..63 |-> "b" \o ToString(d)]
Group(octets) ==
    LET o(i) == IF i <= Len(octets) THEN octets[i] ELSE 0
        n    == 65536 * o(1) + 256 * o(2) + o(3)
        four == <<n \div 262144, (n \div 4096) % 64, (n \div 64) % 64, n % 64>>
    IN  [i \in 1..4 |-> IF i <= Len(octets) + 1 THEN Base64Digit[four[i]] ELSE "="]
append_base64(octets) ==
    FlattenSeq([g \in 1..((Len(octets) + 2) \div 3) |->
                  Group(SubSeq(octets, 3 * g - 2, Min({3 * g, Len(octets)})))])

(* not_authenticated_state::authenticate_oauth2: what it hands to the      *)
(* command is the payload in base64 (detail::base64_encode), as octets of  *)
(* the alphabet.                                                           *)
AlphabetOctet(c) ==
    LET d == CHOOSE d \in 0..63 : Base64Digit[d] = c
    IN  CASE c = "="                  -> 61
          [] c # "=" /\ d \in 0..25  -> 65 + d
          [] c # "=" /\ d \in 26..51 -> 71 + d
          [] c # "=" /\ d \in 52..61 -> d - 4
          [] OTHER                    -> IF d = 62 THEN 43 ELSE 47
authenticate_oauth2(payload) ==
    LET text == append_base64(payload) IN [i \in 1..Len(text) |-> AlphabetOctet(text[i])]

(* login_command::append_arg: a literal only for a line break.             *)
append_credential(v, plus) ==
    IF HasBreak(v) /\ ~atom_safe(v) THEN render_literal(v, plus) ELSE append_arg(v)

(* One argument with what separates it; an empty optional is left out.     *)
ArgText(kind, v, plus) ==
    CASE kind = "astring"    -> Space \o append_arg(v)
      [] kind = "name"       -> Space \o render_astring(v)
      [] kind = "names"      -> Space \o InParens([i \in 1..Len(v) |-> render_astring(v[i])])
      [] kind = "credential" -> Space \o append_credential(v, plus)
      [] kind = "literal"    -> Space \o render_literal(v, plus)
      [] kind = "list"       -> Space \o InParens(v)
      [] kind = "flags"      -> IF v = <<>> THEN <<>> ELSE Space \o InParens(v)
      [] kind = "date"       -> IF v = <<>> THEN <<>> ELSE Space \o render_quoted(v)
      [] kind = "initial"    -> Space \o (IF v = <<>> THEN <<"=">> ELSE append_base64(v))
      [] kind = "exchange"   -> CRLF \o (IF v = <<>> THEN <<"*">> ELSE append_base64(v))
      [] OTHER               -> Space \o v     \* seqset, criteria, verbatim

(* render(): the tag, the verb, the arguments, the line end.               *)
RequestText(q) ==
    Tag \o (IF q.cmd.verb = "" THEN <<>> ELSE <<" ", q.cmd.verb>>)
        \o FlattenSeq([i \in 1..Len(q.values) |->
                         ArgText(q.cmd.args[i], q.values[i], q.plus)])
        \o CRLF
-----------------------------------------------------------------------------
(* sequence_set::parse_seq_number: the index past the number, or 0.        *)
parse_seq_number(t, p) ==
    LET q == Seek(t, p, LAMBDA c : ~is_digit(c))
    IN  CASE peek(t, p) = "*" -> p + 1
          [] is_digit(peek(t, p)) /\ peek(t, p) # "0"
             /\ Number(SubSeq(t, p, q - 1)) < Word32 -> q
          [] OTHER -> 0

(* sequence_set::is_valid, from a range that begins at p.                  *)
RECURSIVE ValidRanges(_, _)
ValidRanges(t, p) ==
    LET n == parse_seq_number(t, p)
        m == IF n # 0 /\ peek(t, n) = ":" THEN parse_seq_number(t, n + 1) ELSE n
    IN  /\ n # 0 /\ m # 0
        /\ at_end(t, m) \/ (peek(t, m) = "," /\ m < Len(t) /\ ValidRanges(t, m + 1))
is_valid_sequence(t) == t # <<>> /\ ValidRanges(t, 1)

(* search_criteria::is_valid: one pass with a depth and two flags.         *)
CriteriaStep(s, c) ==
    IF c \in {"CR", "LF"} \/ ~s.ok THEN [s EXCEPT !.ok = FALSE]
    ELSE CASE s.quoted /\ s.escaped  -> [s EXCEPT !.escaped = FALSE]
           [] s.quoted /\ ~s.escaped -> [s EXCEPT !.escaped = (c = "\\"),
                                                  !.quoted = (c # "\"")]
           [] OTHER -> [s EXCEPT !.quoted = (c = "\""),
                                 !.ok     = ~(c = ")" /\ s.depth = 0),
                                 !.depth  = CASE c = "(" -> @ + 1
                                              [] c = ")" -> @ - 1
                                              [] OTHER   -> @]
is_valid_criteria(t) ==
    LET end == FoldLeft(CriteriaStep, [ok |-> TRUE, quoted |-> FALSE,
                                       escaped |-> FALSE, depth |-> 0], t)
    IN  t # <<>> /\ end.ok /\ ~end.quoted /\ end.depth = 0

(* What the client can check of a request before it is sent.               *)
Validated(q) ==
    \A i \in 1..Len(q.values) :
        /\ q.cmd.args[i] = "seqset"   => is_valid_sequence(q.values[i])
        /\ q.cmd.args[i] = "criteria" => is_valid_criteria(q.values[i])
=============================================================================
