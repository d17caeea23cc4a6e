---------------------------- MODULE ServerReader ----------------------------
(***************************************************************************)
(* How a server reads a command line: the grammar of RFC 3501 section 9    *)
(* for the arguments the commands use.  The reference the rendered         *)
(* requests and the validators are checked against; no code of the         *)
(* repository is behind it.                                                *)
(***************************************************************************)
EXTENDS Request, ServerTokens, FiniteSets

Word(t, p) == read_until_any(t, p, {" ", "(", ")", "CR", "LF"})

(* A parenthesised list, of astrings or of words.                          *)
RECURSIVE ServerListRest(_, _, _, _)
ServerItem(t, item, named, done) ==
    CASE item.ok /\ peek(t, item.p) = ")" -> Accept(Append(done, item.v), item.p + 1)
      [] item.ok /\ peek(t, item.p) = " " ->
           ServerListRest(t, item.p + 1, named, Append(done, item.v))
      [] OTHER -> Reject
ServerListRest(t, p, named, done) ==
    IF done = <<>> /\ peek(t, p) = ")" THEN Accept(done, p + 1)
    ELSE ServerItem(t, IF named THEN ServerAstring(t, p) ELSE Word(t, p), named, done)
ServerList(t, p, named) ==
    IF peek(t, p) = "(" THEN ServerListRest(t, p + 1, named, <<>>) ELSE Reject

(* base64, by its bits.                                                    *)
DigitOf(c) == CHOOSE d \in 0..63 : Base64Digit[d] = c
Octets(digits) ==
    LET Bit(i) == (DigitOf(digits[(i \div 6) + 1]) \div 2^(5 - (i % 6))) % 2
        Octet(k) == FoldLeft(LAMBDA v, i : 2 * v + Bit(8*k + i - 1), 0, [i \in 1..8 |-> i])
    IN  [k \in 1..((6 * Len(digits)) \div 8) |-> Octet(k - 1)]
Decoded(t) == Octets(SelectSeq(t, LAMBDA c : c # "="))
Base64Value(w, empty) ==
    IF w.v = <<empty>> THEN Accept(<<>>, w.p)
    ELSE IF Len(w.v) % 4 = 0 THEN Accept(Decoded(w.v), w.p) ELSE Reject
ServerBase64(t, p, empty) == Base64Value(read_until_any(t, p, {"CR"}), empty)

(* seq-set = (seq-number / seq-range) *("," ...), by its pieces.           *)
Pieces(t, sep) ==
    LET cuts == {0, Len(t) + 1} \cup {i \in 1..Len(t) : t[i] = sep}
    IN  {SubSeq(t, i + 1, Min({j \in cuts : j > i}) - 1) : i \in cuts \ {Len(t) + 1}}
SeqNumber(t) ==
    \/ t = <<"*">>
    \/ /\ t # <<>> /\ ToSet(t) \subseteq Digits /\ t[1] # "0"
       /\ Number(t) \in 1..(Word32 - 1)
SeqRange(t) == Cardinality({i \in 1..Len(t) : t[i] = ":"}) <= 1
               /\ \A n \in Pieces(t, ":") : SeqNumber(n)
SeqSet(t)   == \A r \in Pieces(t, ",") : SeqRange(r)

(* Search keys, as far as framing goes: quoted strings and parentheses     *)
(* nest, and nothing ends the line.                                        *)
RECURSIVE QuotedBody(_), Balanced(_)
QuotedBody(s) ==
    \/ s = <<>>
    \/ s[1] = "\\" /\ Len(s) > 1 /\ s[2] \notin {"CR", "LF"}
       /\ QuotedBody(SubSeq(s, 3, Len(s)))
    \/ s[1] \notin {"\\", "\"", "CR", "LF"} /\ QuotedBody(Tail(s))
Balanced(t) ==
    \/ t = <<>>
    \/ t[1] \notin {"(", ")", "\"", "CR", "LF"} /\ Balanced(Tail(t))
    \/ \E k \in 2..Len(t) :
          /\ \/ t[1] = "\"" /\ t[k] = "\"" /\ QuotedBody(SubSeq(t, 2, k - 1))
             \/ t[1] = "(" /\ t[k] = ")" /\ Balanced(SubSeq(t, 2, k - 1))
          /\ Balanced(SubSeq(t, k + 1, Len(t)))
-----------------------------------------------------------------------------
(* One argument, behind its separator.                                     *)
ServerArg(kind, t, p) ==
    LET line == SubSeq(t, p + 1, Len(t) - 2)
        LeftOut == \/ kind = "date" /\ peek(t, p + 1) # "\""
                   \/ kind = "flags" /\ peek(t, p + 1) # "("
    IN  IF LeftOut THEN Accept(<<>>, p)
        ELSE IF kind # "exchange" /\ peek(t, p) # " " THEN Reject
        ELSE CASE kind = "exchange"    -> ServerBase64(t, p + 2, "*")
          [] kind \in {"astring", "name", "credential", "date"} -> ServerAstring(t, p + 1)
          [] kind = "names"            -> ServerList(t, p + 1, TRUE)
          [] kind \in {"list", "flags"} -> ServerList(t, p + 1, FALSE)
          [] kind = "literal"          -> read_literal(t, p + 1)
          [] kind = "initial"          -> ServerBase64(t, p + 1, "=")
          [] kind = "criteria"         -> IF line # <<>> /\ Balanced(line)
                                          THEN Accept(line, Len(t) - 1) ELSE Reject
          [] kind = "seqset"           -> LET w == read_until_any(t, p + 1, {" ", "CR"})
                                          IN  IF SeqSet(w.v) THEN w ELSE Reject
          [] OTHER                     -> read_until_any(t, p + 1, {" ", "CR"})

RECURSIVE ServerArgs(_, _, _, _)
NextArg(t, a, kinds, done) ==
    IF a.ok THEN ServerArgs(t, a.p, Tail(kinds), Append(done, a.v)) ELSE Reject
ServerArgs(t, p, kinds, done) ==
    IF kinds = <<>> THEN Accept(done, p)
    ELSE NextArg(t, ServerArg(Head(kinds), t, p), kinds, done)

(* The server takes the text for this command with these arguments, and    *)
(* for nothing more.                                                       *)
TakenFor(t, a, meant) == a.ok /\ a.v = meant /\ remaining(t, a.p) = CRLF
LineTaken(t, q) ==
    TakenFor(t, ServerArgs(t, IF q.cmd.verb = "" THEN 2 ELSE 4, q.cmd.args, <<>>), q.meant)
ServerUnderstands(q) == LineTaken(RequestText(q), q)
=============================================================================
