------------------------------- MODULE Astring -------------------------------
(***************************************************************************)
(* Character classes and argument rendering                                *)
(* (include/bkmail/imap/detail/astring.h, and the append_arg() copies the  *)
(* mailbox commands carry).                                                *)
(*                                                                         *)
(* A text is a sequence of characters, a character a string.  A protocol   *)
(* keyword ("FETCH") or a word of payload is a single character that is an *)
(* ATOM-CHAR: it stands for all its letters in any case, and counts as one *)
(* octet throughout.                                                       *)
(***************************************************************************)
EXTENDS Integers, Sequences, SequencesExt

CONSTANTS
    Max64,    \* the largest value of a std::uint64_t
    Word32    \* 2^32: the modulus of a std::uint32_t

ASSUME WidthAssumption == Max64 \in Nat /\ Word32 \in Nat \ {0}

DigitChars == <<"0", "1", "2", "3", "4", "5", "6", "7", "8", "9">>
Digits     == ToSet(DigitChars)
DigitValue == [d \in Digits |-> (CHOOSE i \in 1..10 : DigitChars[i] = d) - 1]

is_char(c)           == c \notin {"NUL", "8BIT"}
is_ctl(c)            == c \in {"NUL", "CR", "LF"}
is_quoted_special(c) == c \in {"\"", "\\"}
is_atom_special(c)   == is_ctl(c) \/ c \in {"(", ")", "{", " ", "%", "*", "\"", "\\", "]"}
is_atom_char(c)      == is_char(c) /\ ~is_atom_special(c)
is_astring_char(c)   == is_atom_char(c) \/ c = "]"
is_text_char(c)      == is_char(c) /\ c \notin {"CR", "LF"}
is_digit(c)          == c \in Digits

CRLF == <<"CR", "LF">>

(* std::from_chars over digits, and std::to_chars.                         *)
Number(digits) ==
    LET value[k \in 0..Len(digits)] ==
          IF k = 0 THEN 0 ELSE 10 * value[k - 1] + DigitValue[digits[k]]
    IN  value[Len(digits)]
Decimal[n \in Nat] ==
    IF n < 10 THEN <<DigitChars[n + 1]>>
    ELSE Decimal[n \div 10] \o <<DigitChars[(n % 10) + 1]>>
-----------------------------------------------------------------------------
classify_astring(value) ==
    LET chars == ToSet(value)
        Atom  == value # <<>> /\ \A c \in chars : is_astring_char(c)
    IN  CASE Atom                                         -> "atom"
          [] ~Atom /\ (\A c \in chars : is_text_char(c)) -> "quoted"
          [] OTHER                                        -> "literal"

(* Mutant: only the quote is escaped.                                      *)
EscapedQuotes(value) ==
    FlattenSeq([i \in 1..Len(value) |->
                  IF value[i] = "\"" THEN <<"\\", value[i]>> ELSE <<value[i]>>])

Escaped(value) ==
    FlattenSeq([i \in 1..Len(value) |->
                  IF is_quoted_special(value[i]) THEN <<"\\", value[i]>>
                                                 ELSE <<value[i]>>])
render_quoted(value) == <<"\"">> \o Escaped(value) \o <<"\"">>

(* Precondition: not of class literal.                                     *)
render_astring(value) ==
    IF classify_astring(value) = "atom" THEN value ELSE render_quoted(value)

render_literal(data, plus) ==
    <<"{">> \o Decimal[Len(data)] \o (IF plus THEN <<"+">> ELSE <<>>)
            \o <<"}">> \o CRLF \o data

(* The mailbox commands' atom_safe() and append_arg(): "]" is not safe     *)
(* here, and a value with a line break or 8-bit data is quoted all the     *)
(* same.                                                                   *)
atom_safe(v)  == v # <<>> /\ \A c \in ToSet(v) : is_atom_char(c)
append_arg(v) == IF atom_safe(v) THEN v ELSE render_quoted(v)
=============================================================================
