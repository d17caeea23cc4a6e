-------------------------------- MODULE Wire --------------------------------
(***************************************************************************)
(* From octets to results: the lexer frames the stream, the parser         *)
(* classifies each response, and the command the response is meant for     *)
(* reads its data.  A server message is                                    *)
(*   wire   the text the server sends, without the final CRLF              *)
(*   by     the reader of the command that asked (see ReadBy), or "none"   *)
(*   means  what the server meant: the response head and the rows          *)
(*   ask    the request (module Request) it answers                        *)
(***************************************************************************)
EXTENDS ResponseLexer, FetchParse, DataRows, MailText, ServerReader

CONSTANT Conversations   \* sequences of messages the server may send

VARIABLES
    sent,      \* the conversation the server has on this connection
    results    \* what came out of each extracted response

vars == <<lexerVars, sent, results>>

TextOf(conversation) ==
    FlattenSeq([i \in 1..Len(conversation) |-> conversation[i].wire \o CRLF])

(* The script of a conversation.                                           *)
RECURSIVE LineStarts(_, _)
LineStarts(text, p) ==
    LET ends == {i \in p..(Len(text) - 2) : LineEndAt(text, i)}
        e    == Min(ends)
        n    == literal_trailer(SubSeq(text, p + 1, e))
    IN  {p} \cup IF ends = {} THEN {}
                ELSE LineStarts(text, IF n = NoLiteral THEN e + 2 ELSE e + 2 + n)
ScriptOf(conversation) ==
    [text    |-> TextOf(conversation),
     replies |-> [i \in 1..Len(conversation) |-> conversation[i].wire],
     ends    |-> [i \in 1..Len(conversation) |-> Len(TextOf(SubSeq(conversation, 1, i)))],
     starts  |-> LineStarts(TextOf(conversation), 0)]

(* What a command stores from a payload: the FETCH forms by the attribute  *)
(* they need, the others by their verb.                                    *)
MailRows(rows, by) ==
    CASE by = "BODY[]" -> [i \in 1..Len(rows) |-> ParseMail(rows[i].sections[1])]
      [] by = "BODY[HEADER.FIELDS" ->
           [i \in 1..Len(rows) |-> parse_mail_header_block(rows[i].sections[1])]
      [] OTHER -> rows
ReadBy(by, payload) ==
    CASE by \in {"attributes", "ENVELOPE", "BODY[]", "BODY[HEADER.FIELDS"} ->
           MailRows(FetchRows(payload, by), by)
      [] by = "LIST"   -> ListRows(payload)
      [] by = "STATUS" -> <<StatusRow(EmptyStatus, payload)>>
      [] by = "SEARCH" -> SearchRows(payload)
      [] by = "FLAGS"  -> <<SnapshotFlags(payload)>>
      [] OTHER         -> payload

(* The head of a response, without the payload view.                       *)
HeadOf(r) == <<r.type, r.tag, r.kind, r.number, r.code, r.text>>

Interpret(r, by) == [head |-> HeadOf(r), by |-> by, rows |-> ReadBy(by, r.payload)]

Init ==
    /\ sent \in Conversations
    /\ script = ScriptOf(sent)
    /\ LexerInit
    /\ results = <<>>

(* dispatch(): the extracted view is parsed before it is consumed.         *)
Dispatch ==
    LET k == Len(results) + 1
        by == IF k <= Len(sent) THEN sent[k].by ELSE "none"
    IN  /\ LineComplete
        /\ results' = Append(results, Interpret(parse(View(0, eol)), by))

Lex ==
    /\ \/ LiteralShort \/ LiteralDone \/ LineShort \/ LineOpensLiteral \/ Consume
       \/ \E n \in 1..MaxRead : Commit(n)
    /\ UNCHANGED results

Next == (Dispatch \/ Lex) /\ UNCHANGED sent

Spec == Init /\ [][Next]_vars
-----------------------------------------------------------------------------
(* The round trip: every response is understood as the server meant it --  *)
(* its kind, number, code and text, and the rows its command stores --     *)
(* through quoting, literals, nesting and NIL, and through escapes as long *)
(* as no two escaped strings follow each other in a parameter list.        *)
Understood(k) ==
    /\ results[k].head = sent[k].means.head
    /\ results[k].rows = sent[k].means.rows
RoundTrip == \A k \in 1..Len(results) : k <= Len(sent) => Understood(k)

(* The way there: the server takes what a command rendered for that        *)
(* command with those arguments and for one line only -- whatever the      *)
(* arguments hold that needs quoting, escaping or a literal -- and the     *)
(* validators of sequence sets and search criteria admit exactly the texts *)
(* for which that is so.                                                   *)
RequestUnderstood ==
    \A k \in 1..Len(results) :
        k <= Len(sent) => (Validated(sent[k].ask) <=> ServerUnderstands(sent[k].ask))
=============================================================================
