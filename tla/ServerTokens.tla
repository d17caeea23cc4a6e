---------------------------- MODULE ServerTokens ----------------------------
(***************************************************************************)
(* How a server reads one argument of a command line: the astring of       *)
(* RFC 3501 section 9.  The reference ServerReader builds the command line *)
(* from; no code of the repository is behind it.                           *)
(***************************************************************************)
EXTENDS ParseCursor

Accept(v, p) == Read(v, p)
Reject       == Malformed(0)

(* astring: an atom of ASTRING-CHARs, a quoted string of 7-bit text, or a  *)
(* literal.                                                                *)
ServerAstring(t, p) ==
    LET q == Seek(t, p, LAMBDA c : ~is_astring_char(c))
        s == read_quoted(t, p)
    IN  CASE peek(t, p) = "\"" -> IF s.ok /\ \A c \in ToSet(s.v) : is_text_char(c)
                                  THEN s ELSE Reject
          [] peek(t, p) = "{"  -> read_literal(t, p)
          [] OTHER             -> IF q > p THEN Accept(SubSeq(t, p, q - 1), q) ELSE Reject
=============================================================================
