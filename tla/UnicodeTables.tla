--------------------------- MODULE UnicodeTables ---------------------------
(***************************************************************************)
(* Lookups in the run-length tables of libunicode: the properties of a     *)
(* character and its combining class.  A table is a sequence of bytes and  *)
(* an offset into it counts from 0; an index of three-byte entries gives   *)
(* the offset of a run near the character.                                 *)
(***************************************************************************)
EXTENDS Integers, Sequences

LOCAL INSTANCE UnicodeData

UNICODE_INDEX_BLOCK_LEN == 32

\* get_le24 of the index entry k.
get_le24(index, k) ==
    index[3 * k + 1] + 256 * index[3 * k + 2] + 65536 * index[3 * k + 3]

\* An entry is the first character after a block and, in its high three bits,
\* how far the run of that character lies behind the start of the next block.
IndexCode(index, k) == get_le24(index, k) % 2097152
IndexSkip(index, k) == get_le24(index, k) \div 2097152

\* get_index_pos: the offset to read from and the character the run there
\* starts with; pos is -1 past the table.
get_index_pos(c, index) ==
    LET n == Len(index) \div 3
        search[lo \in Nat, hi \in Nat] ==
            IF hi - lo <= 1 THEN lo
            ELSE LET mid == (lo + hi) \div 2
                 IN  IF c < IndexCode(index, mid) THEN search[lo, mid]
                     ELSE search[mid, hi]
        k == search[0, n - 1]
    IN  IF c < IndexCode(index, 0) THEN [pos |-> 0, code |-> 0]
        ELSE IF c >= get_le24(index, n - 1) THEN [pos |-> -1, code |-> 0]
        ELSE [pos  |-> (k + 1) * UNICODE_INDEX_BLOCK_LEN + IndexSkip(index, k),
              code |-> IndexCode(index, k)]

---------------------------------------------------------------------------
(***************************************************************************)
(* Properties: runs of characters that are alternately out and in.         *)
(***************************************************************************)
\* The lengths of the one or two runs coded at p, and the offset after them.
RunsAt(table, p) ==
    LET byte == table[p + 1]
        b1   == table[p + 2]
        b2   == table[p + 3]
    IN  CASE byte < 64 ->
               [lens |-> <<(byte \div 8) + 1, (byte % 8) + 1>>, next |-> p + 1]
          [] byte >= 128 -> [lens |-> <<byte - 128 + 1>>, next |-> p + 1]
          [] byte \in 64 .. 95 ->
               [lens |-> <<(byte - 64) * 256 + b1 + 1>>, next |-> p + 2]
          [] byte \in 96 .. 127 ->
               [lens |-> <<(byte - 96) * 65536 + b1 * 256 + b2 + 1>>, next |-> p + 3]

\* Mutant: the bit changes once for a byte, whether it codes one run or two.
InRunsOnce(c, table, start) ==
    LET in[p \in Nat, code \in Nat, bit \in BOOLEAN] ==
            LET x   == RunsAt(table, p)
                mid == code + x.lens[1]
                end == IF Len(x.lens) = 2 THEN mid + x.lens[2] ELSE mid
            IN  CASE c < mid             -> bit
                  [] c >= mid /\ c < end -> ~bit
                  [] OTHER -> in[x.next, end, ~bit]
    IN  in[start.pos, start.code, FALSE]

\* Whether c is in the runs from p on, the first of which starts at code.
InRuns(c, table, start) ==
    LET in[p \in Nat, code \in Nat, bit \in BOOLEAN] ==
            LET x   == RunsAt(table, p)
                mid == code + x.lens[1]
                end == IF Len(x.lens) = 2 THEN mid + x.lens[2] ELSE mid
            IN  CASE c < mid             -> bit
                  [] c >= mid /\ c < end -> ~bit
                  [] OTHER -> in[x.next, end, IF end = mid THEN ~bit ELSE bit]
    IN  in[start.pos, start.code, FALSE]

lre_is_in_table(c, table, index) ==
    LET start == get_index_pos(c, index)
    IN  start.pos # -1 /\ InRuns(c, table, start)

lre_is_case_ignorable(c) ==
    lre_is_in_table(c, unicode_prop_Case_Ignorable_table, unicode_prop_Case_Ignorable_index)

lre_is_id_start(c) ==
    lre_is_in_table(c, unicode_prop_ID_Start_table, unicode_prop_ID_Start_index)

lre_is_id_continue(c) ==
    \/ lre_is_id_start(c)
    \/ lre_is_in_table(c, unicode_prop_ID_Continue1_table, unicode_prop_ID_Continue1_index)

lre_is_white_space(c) ==
    lre_is_in_table(c, unicode_prop_White_Space_table, unicode_prop_White_Space_index)

\* lre_is_cased: case_conv_table1 has been searched before, found tells with
\* what result.
lre_is_cased(c, found) ==
    found \/ lre_is_in_table(c, unicode_prop_Cased1_table, unicode_prop_Cased1_index)

---------------------------------------------------------------------------
(***************************************************************************)
(* The two readers of identifiers: the lexer (unicode_wrapper.c) and the   *)
(* group names of regular expressions (libregexp.h).                       *)
(***************************************************************************)
AsciiLetter == 65 .. 90 \cup 97 .. 122
AsciiDigit  == 48 .. 57
JoinControl == {8204, 8205}                  \* ZWNJ and ZWJ

unicode_is_identifier_start(c) ==
    IF c < 128 THEN c \in AsciiLetter \cup {95, 36} ELSE lre_is_id_start(c)

unicode_is_identifier_continue(c) ==
    IF c < 128 THEN c \in AsciiLetter \cup AsciiDigit \cup {95, 36}
    ELSE c \in JoinControl \/ lre_is_id_continue(c)

\* lre_id_start_table_ascii and lre_id_continue_table_ascii: the bits that are
\* set in the word of every 32 characters.
lre_id_start_table_ascii    == <<{}, {4}, 1 .. 26 \cup {31}, 1 .. 26>>
lre_id_continue_table_ascii ==
    <<{}, {4} \cup 16 .. 25, 1 .. 26 \cup {31}, 1 .. 26>>

lre_js_is_ident_first(c) ==
    IF c < 128 THEN c % 32 \in lre_id_start_table_ascii[(c \div 32) + 1]
    ELSE lre_is_id_start(c)

lre_js_is_ident_next(c) ==
    IF c < 128 THEN c % 32 \in lre_id_continue_table_ascii[(c \div 32) + 1]
    ELSE lre_is_id_continue(c) \/ c \in JoinControl

---------------------------------------------------------------------------
(***************************************************************************)
(* Combining classes: runs of characters with the same class, with classes *)
(* that count up, without one, or with class 230.                          *)
(***************************************************************************)
\* The run coded at p: its length, its type and class, and the offset after it.
\* (The code shifts n - 56 and the next byte by the same eight bits and ors
\* them; n is never above 56 in the table.)
CcRunAt(table, p) ==
    LET byte == table[p + 1]
        type == byte \div 64
        n    == byte % 64
        size == CASE n < 48 -> <<n, 1>>
                  [] n \in 48 .. 55 -> <<(n - 48) * 256 + table[p + 2] + 48, 2>>
                  [] OTHER -> <<(n - 56) * 256 + table[p + 2] * 256 + table[p + 3]
                                  + 48 + 2048, 3>>
        next == p + size[2] + (IF type <= 1 THEN 1 ELSE 0)
    IN  [len |-> size[1] + 1, type |-> type, next |-> next,
         cc  |-> CASE type <= 1 -> table[next]
                   [] type = 2  -> 0
                   [] type = 3  -> 230]

\* The class of the character at distance a from the start of a run.
CcIn(run, a) == IF run.type = 1 THEN run.cc + a ELSE run.cc

CcFrom(c, table, start) ==
    LET cc[p \in Nat, code \in Nat] ==
            LET run == CcRunAt(table, p)
            IN  IF c < code + run.len THEN CcIn(run, c - code)
                ELSE cc[run.next, code + run.len]
    IN  IF start.pos = -1 THEN 0 ELSE cc[start.pos, start.code]

unicode_get_cc(c) == CcFrom(c, unicode_cc_table, get_index_pos(c, unicode_cc_index))

=============================================================================
