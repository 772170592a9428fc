----------------------------- MODULE RegexpText -----------------------------
(***************************************************************************)
(* Characters as the regular-expression engine reads them: UTF-16 code     *)
(* units, surrogate pairs, line terminators, word characters, and the      *)
(* CESU-8 byte offsets of a subject string.      *)
(* Characters are the numbers of their code points.                        *)
(***************************************************************************)
EXTENDS UnicodeCase

is_hi_surrogate(c) == c \in 55296 .. 56319
is_lo_surrogate(c) == c \in 56320 .. 57343

from_surrogate(hi, lo) == 65536 + (hi - 55296) * 1024 + (lo - 56320)

is_line_terminator(c) == c \in {10, 13, 8232, 8233}

\* char_range_s, which lre_is_space agrees with.
lre_is_space(c) ==
    c \in (9 .. 13) \cup {32, 160, 5760, 8232, 8233, 8239, 8287, 12288, 65279}
            \cup (8192 .. 8202)

lre_is_word_byte(c) ==
    c \in (48 .. 57) \cup (65 .. 90) \cup (97 .. 122) \cup {95}

---------------------------------------------------------------------------
(***************************************************************************)
(* Reading a subject at a code-unit position p (0-based); width is 1 for   *)
(* 8- and 16-bit subjects and 2 when surrogate pairs are combined.         *)
(***************************************************************************)
PairAt(subject, p, utf16) ==
    /\ utf16
    /\ 0 <= p /\ p + 1 < Len(subject)
    /\ is_hi_surrogate(subject[p + 1])
    /\ is_lo_surrogate(subject[p + 2])

\* GET_CHAR / PEEK_CHAR at p: the character and the position after it.
CharAt(subject, p, utf16) ==
    IF PairAt(subject, p, utf16)
    THEN [c |-> from_surrogate(subject[p + 1], subject[p + 2]), at |-> p + 2]
    ELSE [c |-> subject[p + 1], at |-> p + 1]

\* GET_PREV_CHAR / PEEK_PREV_CHAR / PREV_CHAR before p: the character and the
\* position it starts at.  start is the first position that may be read.
CharBefore(subject, p, start, utf16) ==
    IF p - 2 >= start /\ PairAt(subject, p - 2, utf16)
    THEN [c |-> from_surrogate(subject[p - 1], subject[p]), at |-> p - 2]
    ELSE [c |-> subject[p], at |-> p - 1]

\* The bytes one code unit takes in CESU-8.
UnitBytes(c) == IF c < 128 THEN 1 ELSE IF c < 2048 THEN 2 ELSE 3

\* cesu8_to_utf16's table: the byte offset at which each code unit starts,
\* and the length in bytes at the end.
ByteOffsets(subject) ==
    LET at[k \in 0 .. Len(subject)] ==
            IF k = 0 THEN 0 ELSE at[k - 1] + UnitBytes(subject[k])
    IN  at

=============================================================================
