------------------------------ MODULE MailText ------------------------------
(***************************************************************************)
(* Messages as RFC 5322 text: the header reader of fetch_parse.h, the      *)
(* header/body split of fetch_message, and the text APPEND renders from a  *)
(* mail value.  A mail is its header, field by field, and the octets of    *)
(* its body; an address is <<display name, mailbox, host>>.  The content   *)
(* type of the body is rendered and, as fetch_message_command.h says, left *)
(* empty on reading.                                                       *)
(***************************************************************************)
EXTENDS ParseCursor

TextFields    == {"Subject", "Date", "Message-ID", "In-Reply-To"}
AddressFields == {"From", "To", "Cc", "Bcc"}
HeaderFields  == TextFields \cup AddressFields
NoHeader      == [f \in HeaderFields |-> <<>>]

Blanks == {" ", "TAB", "CR", "LF"}
Without(v, front, back) ==
    LET kept == {i \in 1..Len(v) : v[i] \notin front}
        last == {i \in 1..Len(v) : v[i] \notin back}
    IN  IF kept = {} \/ last = {} THEN <<>> ELSE SubSeq(v, Min(kept), Max(last))
Trim(v) == Without(v, Blanks, Blanks)
-----------------------------------------------------------------------------
(* parse_rfc5322_addresses(): items end at commas outside quotes and <>.   *)
RECURSIVE ItemEnd(_, _, _, _), AddressItems(_, _)
ItemEnd(t, p, in_quote, angles) ==
    LET c == peek(t, p)
        quoted == IF c = "\"" THEN ~in_quote ELSE in_quote
        depth  == CASE ~quoted /\ c = "<" -> angles + 1
                    [] ~quoted /\ c = ">" /\ angles > 0 -> angles - 1
                    [] OTHER -> angles
    IN  IF at_end(t, p) \/ (~quoted /\ depth = 0 /\ c = ",") THEN p
        ELSE ItemEnd(t, p + 1, quoted, depth)
AddressItems(t, p) ==
    LET end == ItemEnd(t, p, FALSE, 0)
    IN  <<Trim(SubSeq(t, p, end - 1))>>
        \o (IF at_end(t, end) THEN <<>> ELSE AddressItems(t, end + 1))

(* display <local@host>, or the bare local@host.                           *)
Address(item) ==
    LET opens  == {i \in 1..Len(item) : item[i] = "<"}
        closes == {i \in 1..Len(item) : item[i] = ">"}
        angled == opens # {} /\ closes # {} /\ Max(closes) > Min(opens)
        before == IF angled THEN Trim(SubSeq(item, 1, Min(opens) - 1)) ELSE <<>>
        n      == Len(before)
        spec   == Trim(IF angled THEN SubSeq(item, Min(opens) + 1, Max(closes) - 1)
                       ELSE item)
        ats    == {i \in 1..Len(spec) : spec[i] = "@"}
        at     == IF ats = {} THEN Len(spec) + 1 ELSE Max(ats)
    IN  <<IF n >= 2 /\ before[1] = "\"" /\ before[n] = "\""
          THEN SubSeq(before, 2, n - 1) ELSE before,
          SubSeq(spec, 1, at - 1), SubSeq(spec, at + 1, Len(spec))>>

parse_rfc5322_addresses(t) ==
    LET items == SelectSeq(AddressItems(t, 1), LAMBDA i : i # <<>>)
    IN  [i \in 1..Len(items) |-> Address(items[i])]
-----------------------------------------------------------------------------
(* parse_mail_header_block(): a pending field is assigned when the next    *)
(* one begins; a line that starts with a blank continues it.               *)
Flush(h) ==
    LET v == Without(h.value, {}, {" ", "TAB"})
    IN  [name  |-> "", value |-> <<>>,
         out   |-> CASE h.name \in TextFields    -> [h.out EXCEPT ![h.name] = v]
                     [] h.name \in AddressFields ->
                          [h.out EXCEPT ![h.name] = @ \o parse_rfc5322_addresses(v)]
                     [] OTHER                    -> h.out]

HeaderLine(h, raw) ==
    LET line  == IF raw # <<>> /\ Last(raw) = "CR" THEN Front(raw) ELSE raw
        colon == Seek(line, 1, LAMBDA c : c = ":")
        value == SubSeq(line, colon + 1, Len(line))
        Unblanked(v) == Without(v, {" ", "TAB"}, {})
    IN  CASE line = <<>> -> Flush(h)
          [] line # <<>> /\ line[1] \in {" ", "TAB"} ->
               [h EXCEPT !.value = @ \o <<" ">> \o Unblanked(line)]
          [] OTHER -> IF at_end(line, colon) THEN Flush(h)
                      ELSE [Flush(h) EXCEPT
                              !.name  = IF colon = 2 THEN line[1] ELSE "",
                              !.value = IF Unblanked(value) = <<>> THEN value
                                        ELSE Unblanked(value)]

RECURSIVE Lines(_)
Lines(t) ==
    LET q == Seek(t, 1, LAMBDA c : c = "LF")
    IN  IF t = <<>> THEN <<>>
        ELSE <<SubSeq(t, 1, q - 1)>> \o Lines(SubSeq(t, q + 1, Len(t)))

parse_mail_header_block(t) ==
    Flush(FoldLeft(HeaderLine, [name |-> "", value |-> <<>>, out |-> NoHeader],
                   Lines(t))).out

(* fetch_message_command::on_untagged: split at the first empty line.      *)
Find(t, s) == {i \in 1..(Len(t) - Len(s) + 1) : SubSeq(t, i, i + Len(s) - 1) = s}
ParseMail(t) ==
    LET crlf == Find(t, CRLF \o CRLF)
        lf   == Find(t, <<"LF", "LF">>)
        Split(i, skip) == <<parse_mail_header_block(SubSeq(t, 1, i - 1)),
                            SubSeq(t, i + skip, Len(t))>>
    IN  CASE crlf # {}             -> Split(Min(crlf), 4)
          [] crlf = {} /\ lf # {}  -> Split(Min(lf), 2)
          [] OTHER                 -> <<parse_mail_header_block(t), <<>>>>
-----------------------------------------------------------------------------
(* append_command::render_mail.                                            *)
put_field(name, value) ==
    IF value = <<>> THEN <<>> ELSE <<name, ":", " ">> \o value \o CRLF

RenderAddress(a) ==
    LET email == IF a[3] = <<>> THEN a[2] ELSE a[2] \o <<"@">> \o a[3]
    IN  IF a[1] = <<>> THEN email
        ELSE <<"\"">> \o a[1] \o <<"\"", " ", "<">> \o email \o <<">">>
put_addresses(name, list) ==
    IF list = <<>> THEN <<>>
    ELSE <<name, ":", " ">>
         \o FlattenSeq([i \in 1..Len(list) |->
              (IF i = 1 THEN <<>> ELSE <<",", " ">>) \o RenderAddress(list[i])])
         \o CRLF

render_mail(h, content_type, data) ==
    put_field("Subject", h["Subject"])
    \o put_addresses("From", h["From"]) \o put_addresses("To", h["To"])
    \o put_addresses("Cc", h["Cc"]) \o put_addresses("Bcc", h["Bcc"])
    \o put_field("Date", h["Date"]) \o put_field("Message-ID", h["Message-ID"])
    \o put_field("In-Reply-To", h["In-Reply-To"])
    \o put_field("Content-Type", content_type)
    \o CRLF \o data
=============================================================================
