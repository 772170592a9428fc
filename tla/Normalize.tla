----------------------------- MODULE Normalize -----------------------------
(***************************************************************************)
(* Normalization of a string (unicode_normalize, libunicode.c): it is      *)
(* decomposed, its combining marks are sorted in place and, for the C      *)
(* forms, it is composed in place.  A buffer is a sequence; the positions  *)
(* i, start and out_len count from 0 as in the code.                       *)
(***************************************************************************)
EXTENDS UnicodeTables, SequencesExt

LOCAL INSTANCE UnicodeData

UNICODE_NFC  == 0
UNICODE_NFD  == 1
UNICODE_NFKC == 2
UNICODE_NFKD == 3

\* DecompTypeEnum.
DECOMP_TYPE_C1     == 0
DECOMP_TYPE_L1     == 1
DECOMP_TYPE_L7     == 7
DECOMP_TYPE_LL1    == 8
DECOMP_TYPE_LL2    == 9
DECOMP_TYPE_S1     == 10
DECOMP_TYPE_S5     == 14
DECOMP_TYPE_I1     == 15
DECOMP_TYPE_I2_0   == 16
DECOMP_TYPE_I4_2   == 21
DECOMP_TYPE_B1     == 22
DECOMP_TYPE_B8     == 29
DECOMP_TYPE_B18    == 30
DECOMP_TYPE_LS2    == 31
DECOMP_TYPE_PAT3   == 32
DECOMP_TYPE_S2_UL  == 33
DECOMP_TYPE_LS2_UL == 34

---------------------------------------------------------------------------
(***************************************************************************)
(* Decomposition of one character.                                         *)
(***************************************************************************)
unicode_get_short_code(c) ==
    CASE c < 128         -> c
      [] c \in 128 .. 207 -> c - 128 + 768
      [] c = 208         -> 8260
      [] c = 209         -> 8725

unicode_get_lower_simple(c) == IF c < 256 \/ c \in 1040 .. 1071 THEN c + 32 ELSE c + 1

unicode_get16(d, k) == d[k + 1] + 256 * d[k + 2]

\* A character of 18 bits: the k-th halfword and, after p bytes, two bits of it.
Get18(d, k, p) ==
    unicode_get16(d, 2 * k) + 65536 * ((d[p + (k \div 4) + 1] \div (4 ^ (k % 4))) % 4)

\* A zero in the table says that the character has no decomposition.
UnlessZero(res) == IF 0 \in Range(res) THEN <<>> ELSE res

\* unicode_decomp_entry for the character at distance a from the start of an
\* entry of len characters whose data starts at d.
EntryChars(type, a, len, d) ==
    LET l == CASE type \in DECOMP_TYPE_L1 .. DECOMP_TYPE_L7   -> type - DECOMP_TYPE_L1 + 1
               [] type \in DECOMP_TYPE_LL1 .. DECOMP_TYPE_LL2 -> type - DECOMP_TYPE_LL1 + 1
               [] type \in DECOMP_TYPE_S1 .. DECOMP_TYPE_S5   -> type - DECOMP_TYPE_S1 + 1
               [] type = DECOMP_TYPE_I1                       -> 1
               [] type \in DECOMP_TYPE_I2_0 .. DECOMP_TYPE_I4_2 ->
                    2 + ((type - DECOMP_TYPE_I2_0) \div 2)
               [] type \in DECOMP_TYPE_B1 .. DECOMP_TYPE_B8   -> type - DECOMP_TYPE_B1 + 1
               [] type = DECOMP_TYPE_B18                      -> 18
               [] OTHER                                       -> 2
        counted == IF type = DECOMP_TYPE_I1 THEN 0
                   ELSE ((type - DECOMP_TYPE_I2_0) % 2) + (IF l > 2 THEN 1 ELSE 0)
        base(c) == IF a % 2 = 1 THEN unicode_get_lower_simple(c) ELSE c
    IN  CASE type \in DECOMP_TYPE_L1 .. DECOMP_TYPE_L7 ->
               UnlessZero([k \in 1 .. l |-> unicode_get16(d, 2 * (a * l + k - 1))])
          [] type \in DECOMP_TYPE_LL1 .. DECOMP_TYPE_LL2 ->
               UnlessZero([k \in 1 .. l |-> Get18(d, a * l + k - 1, len * l * 2)])
          [] type \in DECOMP_TYPE_S1 .. DECOMP_TYPE_S5 ->
               UnlessZero([k \in 1 .. l |-> unicode_get_short_code(d[a * l + k])])
          [] type \in DECOMP_TYPE_I1 .. DECOMP_TYPE_I4_2 ->
               [k \in 1 .. l |-> unicode_get16(d, 2 * (k - 1))
                                   + (IF k = counted + 1 THEN a ELSE 0)]
          [] type \in DECOMP_TYPE_B1 .. DECOMP_TYPE_B18 ->
               [k \in 1 .. l |-> IF d[2 + a * l + k] = 255 THEN 32
                                 ELSE d[2 + a * l + k] + unicode_get16(d, 0)]
          [] type = DECOMP_TYPE_LS2 ->
               UnlessZero(<<unicode_get16(d, 3 * a), unicode_get_short_code(d[3 * a + 3])>>)
          [] type = DECOMP_TYPE_PAT3 ->
               <<unicode_get16(d, 0), unicode_get16(d, 4 + 2 * a), unicode_get16(d, 2)>>
          [] type = DECOMP_TYPE_S2_UL ->
               LET h == 2 * (a \div 2)
               IN  <<base(unicode_get_short_code(d[h + 1])), unicode_get_short_code(d[h + 2])>>
          [] type = DECOMP_TYPE_LS2_UL ->
               LET h == 3 * (a \div 2)
               IN  <<base(unicode_get16(d, h)), unicode_get_short_code(d[h + 3])>>

\* The longest data of one entry, in bytes.
DataMax == 300

unicode_decomp_entry(e, a, at) ==
    IF e[3] = DECOMP_TYPE_C1 THEN <<at>>
    ELSE EntryChars(e[3], a, e[2],
                    SubSeq(unicode_decomp_data, at + 1,
                           IF at + DataMax < Len(unicode_decomp_data)
                           THEN at + DataMax ELSE Len(unicode_decomp_data)))

\* The binary search of unicode_decomp_char: the entry of table that covers c,
\* 0-based, -1 for none.
DecompIndex(c, table) ==
    LET search[lo \in Nat, hi \in Int] ==
            IF lo > hi THEN -1
            ELSE LET mid == (lo + hi) \div 2
                     e   == table[mid + 1]
                 IN  CASE c < e[1]          -> search[lo, mid - 1]
                       [] c >= e[1] + e[2]  -> search[mid + 1, hi]
                       [] OTHER             -> mid
    IN  search[0, Len(table) - 1]

\* The decomposition by an entry, <<>> when it is for the K forms only and the
\* form is not one of them.
DecompAt(c, idx, e, is_compat) ==
    IF e[4] = 1 /\ ~is_compat THEN <<>>
    ELSE unicode_decomp_entry(e, c - e[1], unicode_decomp_table2[idx + 1])

DecompBy(c, idx, is_compat) ==
    IF idx = -1 THEN <<>> ELSE DecompAt(c, idx, unicode_decomp_table1[idx + 1], is_compat)

unicode_decomp_char(c, is_compat) ==
    DecompBy(c, DecompIndex(c, unicode_decomp_table1), is_compat)

Hangul(c) == c >= 44032 /\ c < 55204

\* to_nfd_rec: what it appends for the characters of src.
to_nfd_rec(src, is_compat) ==
    LET full[c \in Nat] ==
            IF Hangul(c)
            THEN LET s == c - 44032
                 IN  <<4352 + (s \div 588), 4449 + ((s % 588) \div 28)>>
                       \o (IF s % 28 = 0 THEN <<>> ELSE <<4519 + (s % 28)>>)
            ELSE LET res == unicode_decomp_char(c, is_compat)
                 IN  IF res = <<>> THEN <<c>>
                     ELSE FlattenSeq([k \in DOMAIN res |-> full[res[k]]])
    IN  FlattenSeq([k \in DOMAIN src |-> full[src[k]]])

---------------------------------------------------------------------------
(***************************************************************************)
(* Composition of two characters: 0 when there is none.                    *)
(***************************************************************************)
\* The entry v of the composition table names an entry e of the decomposition
\* table and a distance in it: the composite.
Composite(v, e) == e[1] + (v % 64)

Composites ==
    {Composite(v, unicode_decomp_table1[(v \div 64) + 1]) : v \in Range(unicode_comp_table)}

\* The composite and the two characters it is composed from.
CompEntry(v, table) ==
    LET e == table[(v \div 64) + 1]
    IN  <<Composite(v, e), unicode_decomp_entry(e, v % 64, unicode_decomp_table2[(v \div 64) + 1])>>

unicode_compose_pair(c0, c1) ==
    LET search[lo \in Nat, hi \in Int] ==
            IF lo > hi THEN 0
            ELSE LET mid == (lo + hi) \div 2
                     x   == CompEntry(unicode_comp_table[mid + 1], unicode_decomp_table1)
                     d   == IF c0 = x[2][1] THEN c1 - x[2][2] ELSE c0 - x[2][1]
                 IN  CASE d < 0 -> search[lo, mid - 1]
                       [] d > 0 -> search[mid + 1, hi]
                       [] d = 0 -> x[1]
    IN  search[0, Len(unicode_comp_table) - 1]

compose_pair(c0, c1) ==
    IF c0 \in 4352 .. 4370 /\ c1 \in 4449 .. 4469
    THEN 44032 + (c0 - 4352) * 588 + (c1 - 4449) * 28
    ELSE IF Hangul(c0) /\ (c0 - 44032) % 28 = 0 /\ c1 \in 4519 .. 4546
    THEN c0 + c1 - 4519
    ELSE unicode_compose_pair(c0, c1)

---------------------------------------------------------------------------
(***************************************************************************)
(* unicode_normalize as a machine: one step per iteration of its loops.    *)
(***************************************************************************)
VARIABLES
    form,       \* n_type
    src,        \* the text
    phase,      \* "decompose", "sort", "compose" or "done"
    buf,        \* the characters, the decomposed ones at first
    i,          \* the character the loop is at
    start,      \* sort_cc: where the combining marks around i start, -1 for none
    out_len     \* the characters composed so far; in the end, of the result

normVars == <<form, src, phase, buf, i, start, out_len>>

At(k) == buf[k + 1]

NormalizeInit(f, s) ==
    /\ form = f /\ src = s
    /\ phase = "decompose"
    /\ buf = <<>> /\ i = 0 /\ start = -1 /\ out_len = 0

\* Latin-1 text is its own NFC.
FastPath ==
    /\ phase = "decompose"
    /\ form = UNICODE_NFC /\ \A k \in DOMAIN src : src[k] < 256
    /\ buf' = src /\ out_len' = Len(src) /\ phase' = "done"
    /\ UNCHANGED <<form, src, i, start>>

Decompose ==
    /\ phase = "decompose"
    /\ form = UNICODE_NFC => \E k \in DOMAIN src : src[k] >= 256
    /\ buf' = to_nfd_rec(src, form \in {UNICODE_NFKC, UNICODE_NFKD})
    /\ phase' = "sort"
    /\ UNCHANGED <<form, src, i, start, out_len>>

\* sort_cc at i, cc being the classes of buf: a mark goes after the last one of
\* its group whose class is not higher.
Sort(cc) ==
    LET lower == {k \in start .. i - 1 : cc[k + 1] <= cc[i + 1]}
        to    == IF lower = {} THEN start ELSE Max(lower) + 1
    IN  /\ phase = "sort" /\ i < Len(buf)
        /\ start' = CASE cc[i + 1] = 0                -> -1
                      [] cc[i + 1] # 0 /\ start = -1  -> i
                      [] OTHER                        -> start
        /\ buf' = IF cc[i + 1] # 0 /\ start # -1
                  THEN InsertAt(RemoveAt(buf, i + 1), to + 1, At(i)) ELSE buf
        /\ i' = i + 1
        /\ UNCHANGED <<form, src, phase, out_len>>

\* The D forms are done, and so is a text of at most one character.
Sorted ==
    /\ phase = "sort" /\ i = Len(buf)
    /\ IF Len(buf) <= 1 \/ form \in {UNICODE_NFD, UNICODE_NFKD}
       THEN phase' = "done" /\ out_len' = Len(buf) /\ UNCHANGED i
       ELSE phase' = "compose" /\ out_len' = 1 /\ i' = 1
    /\ UNCHANGED <<form, src, buf, start>>

\* Mutant: a mark of the same class does not block.
ComposeUnblocked(cc) ==
    LET starters == {k \in 0 .. out_len - 1 : cc[k + 1] = 0}
        blocked  == cc[out_len] # 0 /\ cc[out_len] > cc[i + 1]
        p        == IF blocked \/ starters = {} THEN 0
                    ELSE compose_pair(At(Max(starters)), At(i))
    IN  /\ phase = "compose" /\ i < Len(buf)
        /\ IF p # 0
           THEN buf' = [buf EXCEPT ![Max(starters) + 1] = p] /\ UNCHANGED out_len
           ELSE buf' = [buf EXCEPT ![out_len + 1] = At(i)] /\ out_len' = out_len + 1
        /\ i' = i + 1
        /\ UNCHANGED <<form, src, phase, start>>

\* The character at i against the last starter: a mark of its class or a higher
\* one before it blocks it.
Compose(cc) ==
    LET starters == {k \in 0 .. out_len - 1 : cc[k + 1] = 0}
        blocked  == cc[out_len] # 0 /\ cc[out_len] >= cc[i + 1]
        p        == IF blocked \/ starters = {} THEN 0
                    ELSE compose_pair(At(Max(starters)), At(i))
    IN  /\ phase = "compose" /\ i < Len(buf)
        /\ IF p # 0
           THEN buf' = [buf EXCEPT ![Max(starters) + 1] = p] /\ UNCHANGED out_len
           ELSE buf' = [buf EXCEPT ![out_len + 1] = At(i)] /\ out_len' = out_len + 1
        /\ i' = i + 1
        /\ UNCHANGED <<form, src, phase, start>>

Composed ==
    /\ phase = "compose" /\ i = Len(buf)
    /\ phase' = "done"
    /\ UNCHANGED <<form, src, buf, i, start, out_len>>

Classes == [k \in DOMAIN buf |-> unicode_get_cc(buf[k])]

NormalizeNext ==
    \/ FastPath
    \/ Decompose
    \/ Sort(Classes)
    \/ Sorted
    \/ Compose(Classes)
    \/ Composed

\* What unicode_normalize_simple returns.
Normalized == SubSeq(buf, 1, out_len)

=============================================================================
