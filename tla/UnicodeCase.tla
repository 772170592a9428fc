---------------------------- MODULE UnicodeCase ----------------------------
(***************************************************************************)
(* Case conversion and the case folding of regular expressions             *)
(* (libunicode.c): of a character, and of a set of characters as points.   *)
(***************************************************************************)
EXTENDS CharRange

CONSTANTS
    CaseTable1,      \* case_conv_table1: <<code, len, type, data high>>
    CaseTable2,      \* case_conv_table2: the data's low eight bits
    CaseExt          \* case_conv_ext

\* What the binary search and the offsets rely on.
ASSUME CaseTableAssumption ==
    /\ Len(CaseTable2) = Len(CaseTable1)
    /\ \A k \in 1 .. Len(CaseTable1) - 1 :
          CaseTable1[k][1] + CaseTable1[k][2] <= CaseTable1[k + 1][1]

\* conv_type of lre_case_conv.
Upper == 0
Lower == 1
Fold  == 2

RUN_TYPE_U            == 0
RUN_TYPE_L            == 1
RUN_TYPE_UF           == 2
RUN_TYPE_LF           == 3
RUN_TYPE_UL           == 4
RUN_TYPE_LSU          == 5
RUN_TYPE_U2L_399_EXT2 == 6
RUN_TYPE_UF_D20       == 7
RUN_TYPE_UF_D1_EXT    == 8
RUN_TYPE_U_EXT        == 9
RUN_TYPE_LF_EXT       == 10
RUN_TYPE_UF_EXT2      == 11
RUN_TYPE_LF_EXT2      == 12
RUN_TYPE_UF_EXT3      == 13

\* The fields of the entry idx (0-based) of the table.
Entry(idx) ==
    LET v == CaseTable1[idx + 1]
    IN  [code |-> v[1], len |-> v[2], type |-> v[3],
         data |-> v[4] * 256 + CaseTable2[idx + 1]]

Entries == 0 .. Len(CaseTable1) - 1

Ext(k) == CaseExt[k + 1]

\* The binary search for the entry that covers c: its index, -1 for none.
FindEntry(c) ==
    LET search[lo \in Nat, hi \in Int] ==
            IF lo > hi THEN -1
            ELSE LET mid == (lo + hi) \div 2
                     e   == Entry(mid)
                 IN  IF c < e.code THEN search[lo, mid - 1]
                     ELSE IF c >= e.code + e.len THEN search[mid + 1, hi]
                     ELSE mid
    IN  search[0, Len(CaseTable1) - 1]

\* lre_case_conv_entry for the character at distance a from the start of entry
\* e: the one to three characters that c becomes, before the ones of
\* RUN_TYPE_UF_EXT2 and _EXT3 are folded themselves.
ConvEntry(c, a, conv, e) ==
    LET data  == e.data
        lower == conv # Upper
        kept  == <<c>>
    IN  CASE e.type \in {RUN_TYPE_U, RUN_TYPE_L, RUN_TYPE_UF, RUN_TYPE_LF} ->
               IF conv = e.type % 2 \/ (e.type >= RUN_TYPE_UF /\ conv = Fold)
               THEN <<a + Entry(data).code>> ELSE kept
          [] e.type = RUN_TYPE_UL ->
               IF (a % 2 = 1) = lower THEN kept
               ELSE <<IF lower THEN c + 1 ELSE c - 1>>
          [] e.type = RUN_TYPE_LSU ->
               IF a = 1 THEN <<IF lower THEN c + 1 ELSE c - 1>>
               ELSE IF a = (IF lower THEN 0 ELSE 2)
               THEN <<IF lower THEN c + 2 ELSE c - 2>> ELSE kept
          [] e.type = RUN_TYPE_U2L_399_EXT2 ->
               IF lower THEN <<a + Ext(data % 64)>>
               ELSE <<a + Ext(data \div 64), 921>>
          [] e.type = RUN_TYPE_UF_D20 ->
               IF conv = Lower THEN kept
               ELSE <<data + (IF conv = Fold THEN 32 ELSE 0)>>
          [] e.type = RUN_TYPE_UF_D1_EXT ->
               IF conv = Lower THEN kept
               ELSE <<Ext(data) + (IF conv = Fold THEN 1 ELSE 0)>>
          [] e.type \in {RUN_TYPE_U_EXT, RUN_TYPE_LF_EXT} ->
               IF lower = (e.type = RUN_TYPE_LF_EXT) THEN <<Ext(data)>> ELSE kept
          [] e.type = RUN_TYPE_LF_EXT2 ->
               IF lower THEN <<a + Ext(data \div 64), Ext(data % 64)>> ELSE kept
          [] e.type = RUN_TYPE_UF_EXT2 ->
               IF conv = Lower THEN kept
               ELSE <<a + Ext(data \div 64), Ext(data % 64)>>
          [] OTHER ->
               IF conv = Lower THEN kept
               ELSE <<Ext(data \div 256), Ext((data \div 16) % 16), Ext(data % 16)>>

\* The ASCII letters, which never reach the table.
AsciiConv(c, lower) ==
    IF lower THEN (IF c \in 65 .. 90 THEN c + 32 ELSE c)
    ELSE (IF c \in 97 .. 122 THEN c - 32 ELSE c)

\* lre_case_conv1(c, 1): lower-casing never converts its result again.
Lowered(c, idx) ==
    IF c < 128 THEN AsciiConv(c, TRUE)
    ELSE IF idx = -1 THEN c
    ELSE ConvEntry(c, c - Entry(idx).code, Lower, Entry(idx))[1]

lre_case_conv1(c) == Lowered(c, FindEntry(c))

lre_case_conv_entry(c, conv, idx) ==
    LET s == ConvEntry(c, c - Entry(idx).code, conv, Entry(idx))
    IN  IF conv = Fold /\ Entry(idx).type \in {RUN_TYPE_UF_EXT2, RUN_TYPE_UF_EXT3}
        THEN [k \in DOMAIN s |-> lre_case_conv1(s[k])] ELSE s

Converted(c, conv, idx) ==
    IF c < 128 THEN <<AsciiConv(c, conv # Upper)>>
    ELSE IF idx = -1 THEN <<c>>
    ELSE lre_case_conv_entry(c, conv, idx)

lre_case_conv(c, conv) == Converted(c, conv, FindEntry(c))

---------------------------------------------------------------------------
(***************************************************************************)
(* Canonicalize of regular expressions: simple case folding in Unicode     *)
(* mode, the upper case outside it.                                        *)
(***************************************************************************)
\* res is the full conversion: only a conversion to one character counts.
FoldingOf(c, res, unicode) ==
    IF unicode
    THEN CASE Len(res) = 1                 -> res[1]
           [] Len(res) # 1 /\ c = 64262    -> 64261    \* U+FB06
           [] Len(res) # 1 /\ c = 8147     -> 912      \* U+1FD3
           [] Len(res) # 1 /\ c = 8163     -> 944      \* U+1FE3
           [] OTHER                        -> c
    ELSE IF c < 128 THEN AsciiConv(c, FALSE)
    ELSE IF Len(res) = 1 /\ res[1] >= 128 THEN res[1] ELSE c

lre_case_folding_entry(c, idx, unicode) ==
    FoldingOf(c, lre_case_conv_entry(c, IF unicode THEN Fold ELSE Upper, idx), unicode)

Canonical(c, idx, unicode) ==
    IF c < 128 THEN AsciiConv(c, unicode)
    ELSE IF idx = -1 THEN c
    ELSE lre_case_folding_entry(c, idx, unicode)

lre_canonicalize(c, unicode) == Canonical(c, FindEntry(c), unicode)

(***************************************************************************)
(* unicode_case1: the characters a conversion may change, as intervals in  *)
(* table order.                                                            *)
(***************************************************************************)
UpperRuns == {RUN_TYPE_U, RUN_TYPE_UF, RUN_TYPE_UL, RUN_TYPE_LSU,
              RUN_TYPE_U2L_399_EXT2, RUN_TYPE_UF_D20, RUN_TYPE_UF_D1_EXT,
              RUN_TYPE_U_EXT, RUN_TYPE_UF_EXT2, RUN_TYPE_UF_EXT3}
LowerRuns == {RUN_TYPE_L, RUN_TYPE_LF, RUN_TYPE_UL, RUN_TYPE_LSU,
              RUN_TYPE_U2L_399_EXT2, RUN_TYPE_LF_EXT, RUN_TYPE_LF_EXT2}
FoldRuns  == {RUN_TYPE_UF, RUN_TYPE_LF, RUN_TYPE_UL, RUN_TYPE_LSU,
              RUN_TYPE_U2L_399_EXT2, RUN_TYPE_LF_EXT, RUN_TYPE_LF_EXT2,
              RUN_TYPE_UF_D20, RUN_TYPE_UF_D1_EXT, RUN_TYPE_UF_EXT2,
              RUN_TYPE_UF_EXT3}

\* mask is a set of conversions.
unicode_case1(mask) ==
    LET runs  == (IF Upper \in mask THEN UpperRuns ELSE {})
                   \cup (IF Lower \in mask THEN LowerRuns ELSE {})
                   \cup (IF Fold \in mask THEN FoldRuns ELSE {})
        both  == Upper \in mask /\ mask # {Upper}
        up    == IF Upper \in mask THEN 1 ELSE 0
        intervals(e) ==
            CASE e.type \notin runs -> <<>>
              [] e.type = RUN_TYPE_UL /\ ~both ->
                   FlattenSeq([k \in 1 .. (e.len + 1) \div 2 |->
                       <<e.code + up + 2 * (k - 1), e.code + up + 2 * k - 1>>])
              [] e.type = RUN_TYPE_LSU /\ ~both ->
                   FlattenSeq([k \in 1 .. 2 |->
                       <<e.code + up + k - 1, e.code + up + k>>])
              [] OTHER -> <<e.code, e.code + e.len>>
    IN  FlattenSeq([k \in DOMAIN CaseTable1 |-> intervals(Entry(k - 1))])

\* The characters of a set, in order.
CharsOf(cr) ==
    FlattenSeq([k \in 1 .. Len(cr) \div 2 |->
        [m \in 1 .. cr[2 * k] - cr[2 * k - 1] |-> cr[2 * k - 1] + m - 1]])

\* Intervals of characters in the order given, a character and its successor
\* that come one after the other joined.
Joined(d) ==
    FlattenSeq([k \in DOMAIN d |->
        (IF k = 1 \/ d[k] # d[k - 1] + 1 THEN <<d[k]>> ELSE <<>>)
          \o (IF k = Len(d) \/ d[k + 1] # d[k] + 1 THEN <<d[k] + 1>> ELSE <<>>)])

\* The characters of chars folded one by one.
FoldedChars(chars, unicode) ==
    [k \in DOMAIN chars |->
        lre_case_folding_entry(chars[k], FindEntry(chars[k]), unicode)]

\* Mutant: the folded characters are left in the order they were folded in.
FoldedUnsorted(mask, cr, unicode) ==
    cr_op(Joined(FoldedChars(CharsOf(cr_op(mask, cr, "inter")), unicode)),
          cr_op(cr_invert(mask), cr, "inter"), "union")

\* cr_regexp_canonicalize, given the characters that folding may change: they
\* are folded and the others stay.
FoldedWithin(mask, cr, unicode) ==
    cr_op(cr_sort_and_remove_overlap(
             Joined(FoldedChars(CharsOf(cr_op(mask, cr, "inter")), unicode))),
          cr_op(cr_invert(mask), cr, "inter"), "union")

cr_regexp_canonicalize(cr, unicode) ==
    FoldedWithin(unicode_case1({IF unicode THEN Fold ELSE Upper}), cr, unicode)

=============================================================================
