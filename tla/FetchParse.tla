----------------------------- MODULE FetchParse -----------------------------
(***************************************************************************)
(* The FETCH attribute grammar                                             *)
(* (include/bkmail/imap/detail/fetch_parse.h), at the cursor level.        *)
(***************************************************************************)
EXTENDS ResponseParser

CONSTANT kMaxBodyStructureDepth

ASSUME DepthAssumption == kMaxBodyStructureDepth \in Nat

Repeat(kind, n) == [i \in 1..n |-> kind]

(* Expect c at p, after a reader that succeeded with value v.              *)
Closed(t, x, c) ==
    IF x.ok /\ peek(t, x.p) = c THEN Read(x.v, x.p + 1) ELSE Malformed(x.p)

(* The readers, by the kind of thing they read.  A list is "(" kind ... ")"*)
(* with free spacing; fields follow each other, spaces skipped between.    *)
RECURSIVE ReadAs(_, _, _), ListRest(_, _, _, _), Fields(_, _, _, _)

ListMore(t, x, kind, done) ==
    IF x.ok THEN ListRest(t, x.p, kind, Append(done, x.v)) ELSE Malformed(x.p)
ListAt(t, q, kind, done) ==
    CASE peek(t, q) = ")" -> Read(done, q + 1)
      [] at_end(t, q)     -> Malformed(q)
      [] OTHER            -> ListMore(t, ReadAs(t, q, kind), kind, done)
ListRest(t, p, kind, done) == ListAt(t, skip_spaces(t, p), kind, done)
ReadList(t, p, kind) ==
    IF peek(t, p) = "(" THEN ListRest(t, p + 1, kind, <<>>) ELSE Malformed(p)

FieldRead(t, x, kinds, done) ==
    IF x.ok THEN Fields(t, IF Len(kinds) = 1 THEN x.p ELSE skip_spaces(t, x.p),
                        Tail(kinds), Append(done, x.v))
    ELSE Malformed(x.p)
Fields(t, p, kinds, done) ==
    IF kinds = <<>> THEN Read(done, p)
    ELSE FieldRead(t, ReadAs(t, p, Head(kinds)), kinds, done)

NonEmpty(x) == IF x.v = <<>> THEN Malformed(x.p) ELSE x

(* skip_value(): a list, a string, or a run of ATOM-CHARs.                 *)
skip_value(t, p) ==
    CASE peek(t, p) = "("           -> ReadList(t, p, "value")
      [] peek(t, p) = "\""          -> read_quoted(t, p)
      [] peek(t, p) \in {"{", "~"}  -> read_literal(t, p)
      [] OTHER                      -> NonEmpty(read_atom(t, p))

(* One address (name adl mailbox host), a list of them or NIL.             *)
parse_address(t, p) ==
    IF peek(t, p) = "(" THEN Closed(t, Fields(t, p + 1, Repeat("nstring", 4), <<>>), ")")
    ELSE Malformed(p)
parse_address_list(t, p) ==
    IF StartsNil(t, p) THEN Read(<<>>, p + 1) ELSE ReadList(t, p, "address")

(* Name/value pairs, or NIL.  The view of the name is held while the value *)
(* is read, and copied afterwards.                                         *)
ParamAt(t, p, name, q, value) ==
    IF value.ok
    THEN Read(<<IF InScratch(t, p, name) /\ InScratch(t, q, value)
                THEN Overwritten(name.v, value.v) ELSE name.v, value.v>>, value.p)
    ELSE value
ParamNamed(t, p, name, q) ==
    IF name.ok THEN ParamAt(t, p, name, q, read_astring(t, q)) ELSE name
ReadParam(t, p, name) == ParamNamed(t, p, name, skip_spaces(t, name.p))
parse_body_params(t, p) ==
    IF StartsNil(t, p) THEN Read(<<>>, p + 1) ELSE ReadList(t, p, "param")

ReadAs(t, p, kind) ==
    CASE kind = "value"   -> skip_value(t, p)
      [] kind = "flag"    -> NonEmpty(read_until_any(t, p, {" ", "(", ")"}))
      [] kind = "nstring" -> read_nstring(t, p)
      [] kind = "astring" -> read_astring(t, p)
      [] kind = "number"  -> read_number(t, p)
      [] kind = "address" -> parse_address(t, p)
      [] kind = "addresses" -> parse_address_list(t, p)
      [] kind = "param"   -> ReadParam(t, p, read_astring(t, p))
      [] kind = "params"  -> parse_body_params(t, p)
-----------------------------------------------------------------------------
FlagsOf(l) == IF l.ok THEN Read(UNION {map_flag(f) : f \in ToSet(l.v)}, l.p) ELSE l
parse_flag_list(t, p) == FlagsOf(ReadList(t, p, "flag"))

EnvelopeFields == Repeat("nstring", 2) \o Repeat("addresses", 6) \o Repeat("nstring", 2)
parse_envelope(t, p) ==
    IF peek(t, p) = "(" THEN Closed(t, Fields(t, p + 1, EnvelopeFields, <<>>), ")")
    ELSE Malformed(p)

(* The values up to, and with, the closing parenthesis, dropped.           *)
RECURSIVE SkipTail(_, _, _)
SkipMore(t, x, node) == IF x.ok THEN SkipTail(t, x.p, node) ELSE Malformed(x.p)
SkipAt(t, q, node) ==
    IF at_end(t, q) \/ peek(t, q) = ")" THEN Closed(t, Read(node, q), ")")
    ELSE SkipMore(t, skip_value(t, q), node)
SkipTail(t, p, node) == SkipAt(t, skip_spaces(t, p), node)

(* parse_body_structure(): a node is <<"multipart", subtype, parts>> or    *)
(* the seven fields of a basic part; deeper than the bound is malformed.   *)
BasicFields == <<"astring", "astring", "params", "nstring", "nstring", "astring", "number">>
RECURSIVE parse_body_structure(_, _, _), BodyParts(_, _, _, _)
PartRead(t, child, depth, parts) ==
    IF child.ok THEN BodyParts(t, skip_spaces(t, child.p), depth, Append(parts, child.v))
    ELSE Malformed(child.p)
BodyParts(t, p, depth, parts) ==
    IF peek(t, p) = "(" THEN PartRead(t, parse_body_structure(t, p, depth + 1), depth, parts)
    ELSE Read(parts, p)

Multipart(t, parts, subtype) ==
    IF parts.ok /\ subtype.ok
    THEN SkipTail(t, subtype.p, <<"multipart", subtype.v, parts.v>>)
    ELSE Malformed(parts.p)
MultipartAt(t, parts) == Multipart(t, parts, read_astring(t, parts.p))
BasicPart(t, x) == IF x.ok THEN SkipTail(t, x.p, x.v) ELSE Malformed(x.p)
NodeAt(t, q, depth) ==
    IF peek(t, q) = "(" THEN MultipartAt(t, BodyParts(t, q, depth, <<>>))
    ELSE BasicPart(t, Fields(t, q, BasicFields, <<>>))
parse_body_structure(t, p, depth) ==
    IF depth > kMaxBodyStructureDepth \/ peek(t, p) # "(" THEN Malformed(p)
    ELSE NodeAt(t, skip_spaces(t, p + 1), depth)
-----------------------------------------------------------------------------
(* walk_fetch_attributes(): keys end at a space or ")" outside brackets.   *)
RECURSIVE KeyEnd(_, _, _)
KeyEnd(t, p, brackets) ==
    CASE at_end(t, p) -> p
      [] peek(t, p) = "[" -> KeyEnd(t, p + 1, brackets + 1)
      [] peek(t, p) = "]" -> KeyEnd(t, p + 1, IF brackets > 0 THEN brackets - 1 ELSE 0)
      [] peek(t, p) \in {" ", ")"} /\ brackets = 0 -> p
      [] OTHER -> KeyEnd(t, p + 1, brackets)

NoAttributes == [flags |-> {}, uid |-> 0, internal_date |-> <<>>, rfc822_size |-> 0,
                 envelope |-> <<>>, body_structure |-> <<>>, sections |-> <<>>,
                 found |-> FALSE]

(* The sink of parse_fetch_attributes(): [x] is what was read, [out] the   *)
(* attributes with it.  BODY[...] needs a non-empty section specifier.     *)
IsSection(key) == /\ Len(key) > 3 /\ key[1] = "BODY" /\ key[2] = "["
                  /\ key[Len(key)] = "]"
AttributeNames == {"FLAGS", "UID", "INTERNALDATE", "RFC822.SIZE", "ENVELOPE", "BODYSTRUCTURE"}
AttributeOf(key) ==
    CASE IsSection(key) -> "SECTION"
      [] Len(key) = 1 /\ key[1] \in AttributeNames -> key[1]
      [] OTHER -> "other"
ReadAttribute(t, p, name) ==
    CASE name = "SECTION"              -> read_nstring(t, p)
      [] name = "FLAGS"                -> parse_flag_list(t, p)
      [] name \in {"UID", "RFC822.SIZE"} -> read_number(t, p)
      [] name = "INTERNALDATE"         -> read_astring(t, p)
      [] name = "ENVELOPE"             -> parse_envelope(t, p)
      [] name = "BODYSTRUCTURE"        -> parse_body_structure(t, p, 0)
      [] OTHER                         -> skip_value(t, p)
StoreAttribute(x, key, name, out) ==
    [x |-> x,
     out |-> CASE ~x.ok \/ name = "other"  -> out
               [] x.ok /\ name = "SECTION" ->
                    [out EXCEPT !.sections = Append(@, <<SubSeq(key, 3, Len(key) - 1), x.v>>)]
               [] x.ok /\ name = "FLAGS"   -> [out EXCEPT !.flags = @ \cup x.v]
               [] x.ok /\ name = "UID"     -> [out EXCEPT !.uid = x.v % Word32]
               [] x.ok /\ name = "INTERNALDATE"  -> [out EXCEPT !.internal_date = x.v]
               [] x.ok /\ name = "RFC822.SIZE"   -> [out EXCEPT !.rfc822_size = x.v]
               [] x.ok /\ name = "ENVELOPE"      -> [out EXCEPT !.envelope = x.v]
               [] x.ok /\ name = "BODYSTRUCTURE" -> [out EXCEPT !.body_structure = x.v]]
AttributeAs(t, p, key, name, out) ==
    StoreAttribute(ReadAttribute(t, p, name), key, name, out)
AllAttributes(t, p, key, out) == AttributeAs(t, p, key, AttributeOf(key), out)

(* The sinks of parse_envelope_attribute and parse_body_section_attribute: *)
(* a NIL section is found but leaves the value out.                        *)
FoundEnvelope(e, out) == [x |-> e, out |-> [out EXCEPT !.found = TRUE, !.envelope = e.v]]
FoundSection(s, out) ==
    [x |-> s, out |-> [out EXCEPT !.found = TRUE,
                                  !.sections = IF s.nil THEN @ ELSE <<s.v>>]]
OneEnvelope(t, p, key, out) ==
    IF key = <<"ENVELOPE">> THEN FoundEnvelope(parse_envelope(t, p), out)
    ELSE [x |-> skip_value(t, p), out |-> out]
OneSection(t, p, key, prefix, out) ==
    IF IsPrefix(prefix, key) THEN FoundSection(read_nstring(t, p), out)
    ELSE [x |-> skip_value(t, p), out |-> out]

Whole       == <<"BODY", "[", "]">>
HeaderOf    == <<"BODY", "[", "HEADER.FIELDS">>
Sink(t, p, key, want, out) ==
    CASE want = "ENVELOPE"           -> OneEnvelope(t, p, key, out)
      [] want = "BODY[]"             -> OneSection(t, p, key, Whole, out)
      [] want = "BODY[HEADER.FIELDS" -> OneSection(t, p, key, HeaderOf, out)
      [] OTHER                       -> AllAttributes(t, p, key, out)

RECURSIVE WalkFrom(_, _, _, _)
WalkOn(t, s, want) ==
    IF s.x.ok THEN WalkFrom(t, s.x.p, want, s.out) ELSE [ok |-> FALSE, out |-> s.out]
WalkKey(t, q, end, want, out) ==
    IF at_end(t, q) \/ end = q THEN [ok |-> FALSE, out |-> out]
    ELSE WalkOn(t, Sink(t, skip_spaces(t, end), SubSeq(t, q, end - 1), want, out), want)
WalkAt(t, q, want, out) ==
    IF peek(t, q) = ")" THEN [ok |-> TRUE, out |-> out]
    ELSE WalkKey(t, q, KeyEnd(t, q, 0), want, out)
WalkFrom(t, p, want, out) == WalkAt(t, skip_spaces(t, p), want, out)
walk_fetch_attributes(t, want) ==
    IF peek(t, 1) = "(" THEN WalkFrom(t, 2, want, NoAttributes)
    ELSE [ok |-> FALSE, out |-> NoAttributes]

(* The FETCH commands' on_untagged(): the row is kept when the walk went   *)
(* through and, for the single-attribute forms, the attribute was there.   *)
RowKept(walk, want) ==
    walk.ok /\ CASE want = "ENVELOPE" -> walk.out.found
                 [] want \in {"BODY[]", "BODY[HEADER.FIELDS"} -> walk.out.sections # <<>>
                 [] OTHER -> TRUE
KeepRow(walk, want) == IF RowKept(walk, want) THEN <<walk.out>> ELSE <<>>
FetchRows(t, want)  == KeepRow(walk_fetch_attributes(t, want), want)
=============================================================================
