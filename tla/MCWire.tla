------------------------------- MODULE MCWire -------------------------------
(***************************************************************************)
(* The server's side of the wire (RFC 3501 section 9), for model-checking  *)
(* Wire: values and the texts that may render them, and the conversations  *)
(* built from them.                                                        *)
(***************************************************************************)
EXTENDS Wire

SP == <<" ">>
Join(parts) == FlattenSeq([i \in 1..Len(parts) |->
                             IF i = 1 THEN parts[i] ELSE SP \o parts[i]])
Paren(parts) == <<"(">> \o Join(parts) \o <<")">>

(* The wire forms of a string, of an nstring and of an astring.            *)
Quotable(v)   == \A c \in ToSet(v) : is_text_char(c)
StringForms(v) ==
    {render_literal(v, FALSE), <<"~">> \o render_literal(v, FALSE)}
    \cup (IF Quotable(v) THEN {render_quoted(v)} ELSE {})
AstringForms(v) ==
    StringForms(v) \cup (IF classify_astring(v) = "atom" /\ "]" \notin ToSet(v)
                         THEN {v} ELSE {})
Strings == {<<>>, <<"x">>, <<"NIL">>, <<"a", " ", "b">>, <<"\"", "\\">>, <<")", "]">>,
            <<"a", "CR", "LF", "b">>, <<" ", "{", "1", "}", "CR", "LF">>, <<"x", "CR">>}
NIL == <<"NIL">>

Message(text, by, head, rows) ==
    [wire |-> text, by |-> by, means |-> [head |-> head, rows |-> rows],
     ask |-> [cmd |-> noop_command, values |-> <<>>, meant |-> <<>>, plus |-> FALSE]]

HeadFor(kind, number) == <<"untagged", <<>>, kind, number, NoCode, <<>>>>
-----------------------------------------------------------------------------
(* Status responses: every code, with and without text.                    *)
Codes ==
    {<<<<"READ-ONLY">>, [NoCode EXCEPT !.name = "READ-ONLY"]>>,
     <<<<"UIDNEXT", " ", "6", "3">>, [NoCode EXCEPT !.name = "UIDNEXT", !.num = 63]>>,
     <<<<"UNSEEN", " ", "x">>, make_unknown(<<"UNSEEN">>, <<"x">>)>>,
     <<<<"CAPABILITY", " ", "X", " ", "Y">>,
       [NoCode EXCEPT !.name = "CAPABILITY", !.words = <<<<"X">>, <<"Y">>>>]>>,
     <<<<"BADCHARSET">>, [NoCode EXCEPT !.name = "BADCHARSET"]>>,
     <<<<"BADCHARSET", " ">> \o Paren(<<<<"x">>, render_quoted(<<"a", " ", "b">>)>>),
       [NoCode EXCEPT !.name = "BADCHARSET", !.words = <<<<"x">>, <<"a", " ", "b">>>>]>>,
     <<<<"PERMANENTFLAGS", " ">> \o Paren(<<<<"\\", "Seen">>, <<"junk">>, <<"\\", "*">>>>),
       [NoCode EXCEPT !.name = "PERMANENTFLAGS", !.flags = {"Seen"}]>>,
     <<<<"X-NEW", " ", "(", "y">>, make_unknown(<<"X-NEW">>, <<"(", "y">>)>>}

RespTexts ==
    {[wire |-> <<>>, code |-> NoCode, text |-> <<>>],
     [wire |-> <<" ", "hi", " ", "]">>, code |-> NoCode, text |-> <<"hi", " ", "]">>]}
    \cup {[wire |-> <<" ", "[">> \o c[1] \o <<"]", " ", "hi">>, code |-> c[2],
           text |-> <<"hi">>] : c \in Codes}

StatusMessages ==
    {Message(<<"a1", " ", "NO">> \o r.wire, "none",
             <<"tagged", <<"a1">>, "no", 0, r.code, r.text>>, <<>>) : r \in RespTexts}
    \cup {Message(<<"*", " ", "OK">> \o r.wire, "none",
                  <<"untagged", <<>>, "ok", 0, r.code, r.text>>, <<>>) : r \in RespTexts}
    \cup {Message(<<"+", " ", "go">>, "none",
                  <<"continuation", <<>>, "none", 0, NoCode, <<"go">>>>, <<>>)}
PlainMessages ==
    {Message(<<"*", " ", "1", "2", " ", "EXISTS">>, "none", HeadFor("exists", 12), <<>>),
     Message(<<"*", " ", "3", " ", "VANISHED">>, "none", HeadFor("unknown", 3),
             <<"3", " ", "VANISHED">>),
     Message(<<"*", " ", "X-NEW", " ", "{", "1", "}", "CR", "LF", "LF">>, "none",
             HeadFor("unknown", 0), <<"X-NEW", " ", "{", "1", "}", "CR", "LF", "LF">>)}

(* FETCH rows.                                                             *)
FetchMessage(attrs, by, rows) ==
    Message(<<"*", " ", "4", " ", "FETCH", " ">> \o Paren(attrs), by,
            HeadFor("fetch", 4), rows)
FlagsAttr(flags) == <<<<"FLAGS">>, Paren([i \in 1..Len(flags) |-> <<"\\", flags[i]>>])>>
UidAttr   == <<<<"UID">>, <<"9">>>>
SizeAttr  == <<<<"RFC822.SIZE">>, <<"2", "0">>>>
Addresses == Paren(<<Paren(<<render_quoted(<<"x">>), NIL, render_quoted(<<"m">>), NIL>>)>>)
EnvelopeAttr(date, subject, id) ==
    <<<<"ENVELOPE">>, Paren(<<date, subject, Addresses, NIL, NIL, NIL, NIL, NIL,
                              NIL, id>>)>>
Addr == <<<<<<"x">>, <<>>, <<"m">>, <<>>>>>>
EnvelopeValue(date, subject, id) ==
    <<date, subject, Addr, <<>>, <<>>, <<>>, <<>>, <<>>, <<>>, id>>
Section(spec, text) == <<<<"BODY", "[">> \o spec \o <<"]">>, text>>

(* [forms, value] for every way a string, or NIL, may be sent.             *)
Sendable  == UNION {{<<f, v>> : f \in StringForms(v)} : v \in Strings}
Nullable  == Sendable \cup {<<NIL, <<>>>>}

AttributeMessages ==
    LET Value(seen, rest) == <<[rest EXCEPT !.flags = seen, !.uid = 9]>>
        Text == <<"TEXT">>
    IN  {FetchMessage(FlagsAttr(<<"Seen", "Draft">>) \o UidAttr \o SizeAttr, "attributes",
                      Value({"Seen", "Draft"}, [NoAttributes EXCEPT !.rfc822_size = 20])),
         FetchMessage(<<<<"X-NEW">>, Paren(<<<<"y">>, Paren(<<>>)>>)>> \o UidAttr,
                      "attributes", Value({}, NoAttributes)),
         FetchMessage(<<<<"INTERNALDATE">>, render_quoted(<<"d">>)>> \o UidAttr,
                      "attributes", Value({}, [NoAttributes EXCEPT !.internal_date = <<"d">>]))}
        \cup {FetchMessage(UidAttr \o Section(Text, s[1]) \o FlagsAttr(<<>>), "attributes",
                           Value({}, [NoAttributes EXCEPT !.sections = <<<<Text, s[2]>>>>])) :
                s \in Nullable}

(* The date, next to the parenthesis, is quoted or NIL here.               *)
EnvelopeRow(d, s, i, by) ==
    <<[NoAttributes EXCEPT !.found = (by = "ENVELOPE"),
                           !.envelope = EnvelopeValue(d[2], s[2], i[2])]>>
EnvelopeMessages ==
    LET d == <<render_quoted(<<"d">>), <<"d">>>>
        n == <<NIL, <<>>>>
    IN  {FetchMessage(EnvelopeAttr(d[1], s[1], n[1]), by, EnvelopeRow(d, s, n, by)) :
            s \in Nullable, by \in {"attributes", "ENVELOPE"}}
        \cup {FetchMessage(UidAttr \o EnvelopeAttr(n[1], d[1], s[1]), "ENVELOPE",
                           EnvelopeRow(n, d, s, "ENVELOPE")) : s \in Nullable}

(* BODYSTRUCTURE, nested to the given depth, extension data at each level. *)
LeafWith(params) ==
    Join(<<render_quoted(<<"text">>), render_quoted(<<"plain">>), Paren(params), NIL, NIL,
           render_quoted(<<"7bit">>), <<"5">>, <<"1">>, NIL>>)
LeafMeans(params) == <<<<"text">>, <<"plain">>, params, <<>>, <<>>, <<"7bit">>, 5>>
Leaf      == LeafWith(<<render_quoted(<<"cs">>), render_quoted(<<"u">>)>>)
LeafValue == LeafMeans(<<<<<<"cs">>, <<"u">>>>>>)
RECURSIVE BodyText(_), BodyValue(_)
BodyText(depth) ==
    IF depth = 0 THEN <<"(">> \o Leaf \o <<")">>
    ELSE <<"(">> \o BodyText(depth - 1) \o BodyText(0) \o SP
         \o render_quoted(<<"mixed">>) \o SP \o Paren(<<NIL>>) \o <<")">>
BodyValue(depth) ==
    IF depth = 0 THEN LeafValue
    ELSE <<"multipart", <<"mixed">>, <<BodyValue(depth - 1), LeafValue>>>>
(* Parameters in every form: [name, value], each [form, value].            *)
BodyOf(params) ==
    FetchMessage(<<<<"BODYSTRUCTURE">>,
                   <<"(">> \o LeafWith([i \in 1..Len(params) |->
                                          Join(<<params[i][1][1], params[i][2][1]>>)]) \o <<")">>>>,
                 "attributes",
                 <<[NoAttributes EXCEPT !.body_structure =
                      LeafMeans([i \in 1..Len(params) |->
                                   <<params[i][1][2], params[i][2][2]>>])]>>)
Atomic   == <<<<"x">>, <<"x">>>>
Counted  == <<render_literal(<<"\"">>, FALSE), <<"\"">>>>
Escapes  == <<render_quoted(<<"\"", "u">>), <<"\"", "u">>>>
Escapes2 == <<render_quoted(<<"\\">>), <<"\\">>>>
ParamMessages ==
    {BodyOf(<<>>),
     BodyOf(<<<<Atomic, Escapes>>, <<Escapes2, Counted>>, <<Counted, Escapes>>,
              <<Escapes2, Atomic>>>>)}
BodyMessages ==
    {FetchMessage(<<<<"BODYSTRUCTURE">>, BodyText(k)>>, "attributes",
                  <<[NoAttributes EXCEPT !.body_structure = BodyValue(k)]>>) :
        k \in 0..kMaxBodyStructureDepth}
    \cup {FetchMessage(<<<<"BODYSTRUCTURE">>, BodyText(kMaxBodyStructureDepth + 1)>>,
                       "attributes", <<>>)}

(* Messages as APPEND renders them, and headers folded at their spaces.    *)
Mails ==
    {<<[NoHeader EXCEPT !["Subject"] = s, !["From"] = f, !["Message-ID"] = <<"i">>], b>> :
        s \in {<<>>, <<"a", ":", "b", " ", "c">>},
        f \in {<<>>,
               <<<<<<"p", ",", " ", "q">>, <<"m">>, <<"h">>>>, <<<<>>, <<"n">>, <<"h">>>>>>},
        b \in {<<>>, <<"b">>, CRLF \o <<"b">> \o CRLF \o CRLF \o <<"c">>}}
MailMessages ==
    UNION {{FetchMessage(<<<<"BODY", "[", "]">>, f>> \o UidAttr, "BODY[]", <<m>>) :
                f \in UNION {StringForms(render_mail(m[1], type, m[2])) :
                               type \in {<<>>, <<"text", "/", "plain">>}}} : m \in Mails}
Folded(t) == FlattenSeq([i \in 1..Len(t) |->
                IF t[i] = " " /\ i > 1 /\ t[i - 1] # ":" THEN CRLF \o SP ELSE <<t[i]>>])
HeaderMessages ==
    UNION {{FetchMessage(<<<<"BODY", "[", "HEADER.FIELDS", " ">>
                           \o Paren(<<<<"Subject">>, <<"From">>>>) \o <<"]">>, f>>,
                         "BODY[HEADER.FIELDS", <<m[1]>>) :
                f \in StringForms(Folded(render_mail(m[1], <<>>, <<>>)))} : m \in Mails}

(* LIST, STATUS, SEARCH and FLAGS rows.                                    *)
ListMessages ==
    UNION {{Message(<<"*", " ", "LIST", " ">>
                    \o Join(<<Paren(<<<<"\\", "Noselect">>, <<"\\", "Marked">>>>), d, f>>),
                    "LIST", HeadFor("list", 0),
                    <<[flags |-> {"Noselect"}, delimiter |-> IF d = NIL THEN <<>> ELSE <<"/">>,
                       name |-> v]>>) :
                d \in {NIL, render_quoted(<<"/">>)},
                f \in {render_literal(v, FALSE), append_arg(v)}} :
            v \in {u \in Strings : Quotable(u)}}
StatusRowMessages ==
    UNION {{Message(<<"*", " ", "STATUS", " ">>
                    \o Join(<<f, Paren(<<<<"MESSAGES">>, <<"7">>, <<"X">>, <<"1">>,
                                         <<"UNSEEN">>, <<"3">>>>)>>),
                    "STATUS", HeadFor("status", 0),
                    <<[EmptyStatus EXCEPT !["MESSAGES"] = 7, !["UNSEEN"] = 3]>>) :
                f \in {render_literal(v, FALSE), append_arg(v)}} :
            v \in {u \in Strings : Quotable(u)}}
SearchMessages ==
    {Message(<<"*", " ", "SEARCH">> \o s[1], "SEARCH", HeadFor("search", 0), s[2]) :
        s \in {<<<<>>, <<>>>>, <<SP, <<>>>>, <<<<" ", "2", " ", "6", "3">>, <<2, 63>>>>,
               <<<<" ", "6", " ", " ", "4", " ">>, <<6, 4>>>>}}
FlagMessages ==
    {Message(<<"*", " ", "FLAGS", " ">> \o Paren(<<<<"\\", "Seen">>, <<"k">>, <<"\\", "Draft">>>>),
             "FLAGS", HeadFor("flags", 0), <<{"Seen", "Draft"}>>)}
-----------------------------------------------------------------------------
Done == Message(<<"a2", " ", "OK">>, "none",
                <<"tagged", <<"a2">>, "ok", 0, NoCode, <<>>>>, <<>>)
Answered(messages) == {<<m, Done>> : m \in messages}

(* Requests: every command, with values for its arguments.                 *)
Names       == {v \in Strings : Quotable(v)} \cup {<<"a", "]">>}
Texts(alphabet) == UNION {[1..n -> alphabet] : n \in 0..3}
SequenceSets == Texts({"1", "0", "9", "*", ":", ","})
Criteria     == Texts({"x", "\"", "\\", "(", ")", "LF"})
Responses    == {<<>>, <<255>>, <<0, 97>>, <<1, 128, 63>>, <<0, 0, 0, 7>>}
Ask(cmd, values, plus) ==
    [cmd |-> cmd, values |-> values, meant |-> values, plus |-> plus]
Asks ==
    {Ask(c, <<>>, FALSE) : c \in {noop_command, logout_command, starttls_command,
                                  idle_command, capability_command, close_command,
                                  expunge_command}}
    \cup {Ask(c, <<n>>, FALSE) :
            c \in {create_command, delete_command, subscribe_command,
                   unsubscribe_command, select_command, examine_command}, n \in Names}
    \cup {Ask(c, <<n, m>>, FALSE) : c \in {rename_command, list_command},
                                   n \in Names, m \in {<<>>, <<"\"", "\\">>}}
    \cup {Ask(status_command, <<n, <<<<"MESSAGES">>, <<"UNSEEN">>>>>>, FALSE) : n \in Names}
    \cup {Ask(c, <<<<"1">>, n>>, FALSE) :
            c \in {copy_command, uid_copy_command, move_command, uid_move_command},
            n \in Names}
    \cup {Ask(c, <<<<"1">>, <<"+FLAGS">>, f>>, FALSE) :
            c \in {store_command, uid_store_command}, f \in {<<>>, <<<<"Seen">>, <<"Draft">>>>}}
    \cup {Ask(c, <<<<"*">>, <<<<"FLAGS">>>>>>, FALSE) :
            c \in {fetch_envelopes_command, fetch_message_command, uid_fetch_command,
                   uid_fetch_envelopes_command, uid_fetch_message_command}}
    \cup {Ask(c, <<<<"*">>, <<n, <<"Subject">>>>>>, FALSE) :
            c \in {fetch_headers_command, uid_fetch_headers_command}, n \in Names}
    \cup {Ask(fetch_command, <<s, <<<<"UID">>, <<"FLAGS">>>>>>, FALSE) : s \in SequenceSets}
    \cup {Ask(c, <<s>>, FALSE) : c \in {search_command, uid_search_command}, s \in Criteria}
    \cup {Ask(raw_command, <<<<"X">>>>, FALSE)}
    \cup {Ask(login_command(TRUE, plus), <<u, p>>, plus) :
            u \in Strings, p \in {<<"x">>, <<"x", "CR">>}, plus \in BOOLEAN}
    \cup {Ask(append_command(plus), <<n, f, d, m>>, plus) :
            n \in {<<"x">>, <<"a", " ", "b">>}, f \in {<<>>, <<<<"Seen">>>>}, d \in {<<>>, <<"d">>},
            m \in {<<>>, <<"a", "CR", "LF", "b">>}, plus \in BOOLEAN}
    \cup {Ask(authenticate_command(ir), <<<<"PLAIN">>, r>>, FALSE) :
            ir \in BOOLEAN, r \in Responses}
(* Names a mailbox command cannot send as an atom or a quoted string.      *)
LiteralAsks == {Ask(create_command, <<n>>, FALSE) : n \in {<<"8BIT">>, <<"a", "CR", "LF", "b">>}}
(* The XOAUTH2 convenience, for a payload.                                 *)
Oauth2Asks ==
    {[Ask(authenticate_command(FALSE), <<<<"XOAUTH2">>, authenticate_oauth2(r)>>, FALSE)
        EXCEPT !.meant = <<<<"XOAUTH2">>, r>>] : r \in Responses \ {<<>>}}
Replies(asks) == {<<[Done EXCEPT !.ask = q]>> : q \in asks}

Understandable ==
    Replies(Asks) \cup
    Answered(StatusMessages \cup PlainMessages \cup AttributeMessages \cup EnvelopeMessages
             \cup BodyMessages \cup ParamMessages \cup MailMessages \cup HeaderMessages \cup ListMessages
             \cup StatusRowMessages \cup SearchMessages \cup FlagMessages)

(* An envelope with a flag list before it, and one with a date literal.    *)
VolunteeredFlags ==
    LET q == <<render_quoted(<<"d">>), <<"d">>>>
    IN  Answered({FetchMessage(FlagsAttr(<<"Seen">>) \o EnvelopeAttr(q[1], q[1], NIL),
                               "ENVELOPE", EnvelopeRow(q, q, <<NIL, <<>>>>, "ENVELOPE"))})
DateLiterals ==
    LET q == <<render_literal(<<"d">>, FALSE), <<"d">>>>
    IN  Answered({FetchMessage(EnvelopeAttr(q[1], NIL, NIL), "ENVELOPE",
                               EnvelopeRow(q, <<NIL, <<>>>>, <<NIL, <<>>>>, "ENVELOPE"))})
(* Parameters whose name and value both have escapes.                      *)
EscapedParams == Answered({BodyOf(<<<<Escapes, Escapes2>>>>)})
(* The whole message asked for with fetch_command.                         *)
WholeSections ==
    Answered({FetchMessage(Section(<<>>, render_quoted(<<"m">>)), "attributes",
                           <<[NoAttributes EXCEPT !.sections = <<<<<<>>, <<"m">>>>>>]>>)})

UnderstandableScripts == {ScriptOf(c) : c \in Understandable}
VolunteeredFlagsScripts == {ScriptOf(c) : c \in VolunteeredFlags}
DateLiteralsScripts == {ScriptOf(c) : c \in DateLiterals}
EscapedParamsScripts == {ScriptOf(c) : c \in EscapedParams}
LiteralNames == Replies(LiteralAsks)
LiteralNamesScripts == {ScriptOf(c) : c \in LiteralNames}
Oauth2 == Replies(Oauth2Asks)
Oauth2Scripts == {ScriptOf(c) : c \in Oauth2}
WholeSectionsScripts == {ScriptOf(c) : c \in WholeSections}

(* The texts a server may send satisfy what the framing theorem asks for.  *)
ASSUME FramedAssumption == \A s \in UnderstandableScripts : WellFramed(s)
=============================================================================
