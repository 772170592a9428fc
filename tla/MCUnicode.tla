----------------------------- MODULE MCUnicode -----------------------------
(***************************************************************************)
(* Unicode for TLC: the calls of the runs, and what Unicode itself says of *)
(* the characters in them.  The tables Mappings, MarkClasses and           *)
(* KnownConversions are taken from the Unicode Character Database, not     *)
(* from the code.                                                          *)
(***************************************************************************)
EXTENDS Unicode

LOCAL INSTANCE UnicodeData

---------------------------------------------------------------------------
(***************************************************************************)
(* Case: entries of every run type with those they refer to, references to *)
(* entries and to the extension table renumbered.                          *)
(***************************************************************************)
CaseEntries ==
    <<0, 1, 2, 3, 5, 6, 9, 10, 11, 18, 55, 124, 129, 170, 171, 172, 195,
       196, 228, 229, 253, 260, 277, 339, 345, 346>>

CaseSub1 ==
    << <<65, 26, 3, 0>>, <<97, 26, 0, 0>>, <<181, 1, 7, 3>>,
       <<192, 23, 3, 0>>, <<223, 1, 11, 1>>, <<224, 23, 0, 0>>,
       <<256, 48, 4, 0>>, <<304, 1, 12, 1>>, <<305, 1, 9, 0>>,
       <<383, 1, 7, 0>>, <<452, 3, 5, 0>>, <<912, 1, 13, 0>>,
       <<944, 1, 13, 3>>, <<5024, 80, 1, 0>>, <<5104, 6, 1, 0>>,
       <<5112, 6, 2, 0>>, <<7835, 1, 8, 0>>, <<7838, 1, 3, 0>>,
       <<8064, 8, 11, 2>>, <<8072, 8, 6, 2>>, <<8147, 1, 13, 0>>,
       <<8163, 1, 13, 3>>, <<8490, 1, 10, 0>>, <<43888, 80, 2, 0>>,
       <<64261, 1, 11, 1>>, <<64262, 1, 11, 1>> >>

CaseSub2 ==
    <<1, 0, 156, 5, 4, 3, 0, 70, 7, 83, 0, 18, 18, 23, 15, 14, 8, 4, 64, 74,
      18, 18, 11, 13, 12, 12>>

CaseSubExt ==
    <<921, 776, 769, 933, 83, 105, 775, 73, 7776, 7944, 8064, 107, 84>>

\* The extension indexes an entry's data holds.
ExtIndexes(type, data) ==
    CASE type \in {RUN_TYPE_UF_D1_EXT, RUN_TYPE_U_EXT, RUN_TYPE_LF_EXT} -> <<data>>
      [] type \in {RUN_TYPE_U2L_399_EXT2, RUN_TYPE_UF_EXT2, RUN_TYPE_LF_EXT2} ->
           <<data \div 64, data % 64>>
      [] type = RUN_TYPE_UF_EXT3 -> <<data \div 256, (data \div 16) % 16, data % 16>>
      [] OTHER -> <<>>

\* They are the entries of the real table.
ASSUME CaseTablesAreReal ==
    LET value(t1, t2, k)  == t1[k][4] * 256 + t2[k]
        Chars(ext, x)     == [n \in DOMAIN x |-> ext[x[n] + 1]]
    IN  \A k \in DOMAIN CaseEntries :
          LET real == case_conv_table1[CaseEntries[k] + 1]
              want == value(case_conv_table1, case_conv_table2, CaseEntries[k] + 1)
              mine == value(CaseSub1, CaseSub2, k)
          IN  /\ \A f \in 1 .. 3 : CaseSub1[k][f] = real[f]
              /\ CASE real[3] < RUN_TYPE_UL -> CaseEntries[mine + 1] = want
                   [] ExtIndexes(real[3], want) # <<>> ->
                        Chars(CaseSubExt, ExtIndexes(real[3], mine))
                          = Chars(case_conv_ext, ExtIndexes(real[3], want))
                   [] OTHER -> mine = want

\* Every character of the entries and one on each side.
MCCaseChars ==
    UNION {e[1] - 1 .. e[1] + e[2] : e \in Range(CaseSub1)}

\* The ends of entries and the characters next to them.
CaseEnds ==
    UNION {{e[1] - 1, e[1], e[1] + 1, e[1] + e[2] - 1, e[1] + e[2]} : e \in Range(CaseSub1)}

LongestInterval == 40

MCCaseIntervals ==
    {x \in CaseEnds \X CaseEnds : x[2] - x[1] \in 0 .. LongestInterval}

\* Character, upper case, lower case and simple case folding.
KnownConversions ==
    { <<65, <<65>>, <<97>>, 97>>, <<97, <<65>>, <<97>>, 97>>,
      <<181, <<924>>, <<181>>, 956>>, <<192, <<192>>, <<224>>, 224>>,
      <<223, <<83, 83>>, <<223>>, 223>>, <<224, <<192>>, <<224>>, 224>>,
      <<246, <<214>>, <<246>>, 246>>, <<256, <<256>>, <<257>>, 257>>,
      <<257, <<256>>, <<257>>, 257>>, <<303, <<302>>, <<303>>, 303>>,
      <<304, <<304>>, <<105, 775>>, 304>>, <<305, <<73>>, <<305>>, 305>>,
      <<383, <<83>>, <<383>>, 115>>, <<452, <<452>>, <<454>>, 454>>,
      <<453, <<452>>, <<454>>, 454>>, <<454, <<452>>, <<454>>, 454>>,
      <<912, <<921, 776, 769>>, <<912>>, 912>>,
      <<944, <<933, 776, 769>>, <<944>>, 944>>,
      <<5024, <<5024>>, <<43888>>, 5024>>,
      <<5103, <<5103>>, <<43967>>, 5103>>,
      <<5104, <<5104>>, <<5112>>, 5104>>, <<5117, <<5109>>, <<5117>>, 5109>>,
      <<7835, <<7776>>, <<7835>>, 7777>>, <<7838, <<7838>>, <<223>>, 223>>,
      <<8064, <<7944, 921>>, <<8064>>, 8064>>,
      <<8072, <<7944, 921>>, <<8064>>, 8064>>,
      <<8079, <<7951, 921>>, <<8071>>, 8071>>,
      <<8147, <<921, 776, 769>>, <<8147>>, 912>>,
      <<8163, <<933, 776, 769>>, <<8163>>, 944>>,
      <<8490, <<8490>>, <<107>>, 107>>, <<43888, <<5024>>, <<43888>>, 5024>>,
      <<64261, <<83, 84>>, <<64261>>, 64262>>,
      <<64262, <<83, 84>>, <<64262>>, 64262>> }

---------------------------------------------------------------------------
(***************************************************************************)
(* Normalization: texts, and the definition of the forms (UAX #15).        *)
(***************************************************************************)
\* Letters with one and two marks in every composed state, marks of two
\* classes, a singleton that two marks come from, a compatibility letter,
\* syllables and their parts, and a pair whose second part is a starter.
CoreAlphabet ==
    {115, 775, 803, 836, 2494, 2503, 4352, 4449, 4520, 7779, 7785, 7835,
     44032, 44033}

\* A character of every decomposition type, and Hangul.
Samples ==
    {178, 197, 228, 383, 836, 976, 1142, 1143, 2345, 2507, 2524, 3271, 3274,
     7756, 7757, 7776, 7777, 7785, 7835, 8192, 8194, 8230, 8244, 8279, 8490,
     8530, 9341, 10972, 12814, 12815, 12829, 12924, 13078, 13176, 13230,
     13231, 13309, 44033, 44060, 55203, 64108, 65018, 65019, 69803, 119134,
     127274, 127552}

Forms == {UNICODE_NFC, UNICODE_NFD, UNICODE_NFKC, UNICODE_NFKD}

MaxText == 3

CoreTexts == UNION {[1 .. n -> CoreAlphabet] : n \in 0 .. MaxText}

\* The first and the last character of every entry of the table.
EntryEnds ==
    {e[1] : e \in Range(unicode_decomp_table1)}
      \cup {e[1] + e[2] - 1 : e \in Range(unicode_decomp_table1)}

MCNormalizeCalls ==
    Forms \X (CoreTexts \cup {<<c>> : c \in Samples})
      \cup {UNICODE_NFC} \X {<<c>> : c \in Composites}
      \cup {UNICODE_NFKD} \X {<<c>> : c \in EntryEnds}

\* <AC00, 11A7>: 11A7 is not a trailing consonant.
HangulCalls == Forms \X [1 .. 2 -> {44032, 4519, 4520}]

\* The mapping of a character: to its compatibility equivalent ("K"), or
\* canonical, and then a pair composes to it again ("C") or not ("X").
Mappings ==
    { <<178, "K", <<50>>>>, <<197, "C", <<65, 778>>>>,
      <<213, "C", <<79, 771>>>>, <<228, "C", <<97, 776>>>>,
      <<245, "C", <<111, 771>>>>, <<346, "C", <<83, 769>>>>,
      <<347, "C", <<115, 769>>>>, <<383, "K", <<115>>>>,
      <<833, "X", <<769>>>>, <<836, "X", <<776, 769>>>>,
      <<976, "K", <<946>>>>, <<1142, "C", <<1140, 783>>>>,
      <<1143, "C", <<1141, 783>>>>, <<2345, "C", <<2344, 2364>>>>,
      <<2507, "C", <<2503, 2494>>>>, <<2524, "X", <<2465, 2492>>>>,
      <<3271, "C", <<3270, 3285>>>>, <<3274, "C", <<3270, 3266>>>>,
      <<7756, "C", <<213, 769>>>>, <<7757, "C", <<245, 769>>>>,
      <<7776, "C", <<83, 775>>>>, <<7777, "C", <<115, 775>>>>,
      <<7778, "C", <<83, 803>>>>, <<7779, "C", <<115, 803>>>>,
      <<7780, "C", <<346, 775>>>>, <<7781, "C", <<347, 775>>>>,
      <<7784, "C", <<7778, 775>>>>, <<7785, "C", <<7779, 775>>>>,
      <<7835, "C", <<383, 775>>>>, <<8192, "X", <<8194>>>>,
      <<8194, "K", <<32>>>>, <<8230, "K", <<46, 46, 46>>>>,
      <<8244, "K", <<8242, 8242, 8242>>>>,
      <<8279, "K", <<8242, 8242, 8242, 8242>>>>, <<8490, "X", <<75>>>>,
      <<8530, "K", <<49, 8260, 49, 48>>>>, <<9341, "K", <<40, 49, 48, 41>>>>,
      <<10972, "X", <<10973, 824>>>>, <<12814, "K", <<40, 4352, 4449, 41>>>>,
      <<12815, "K", <<40, 4354, 4449, 41>>>>,
      <<12829, "K", <<40, 4363, 4457, 4364, 4453, 4523, 41>>>>,
      <<12924, "K", <<4366, 4449, 4535, 4352, 4457>>>>,
      <<13078, "K", <<12461, 12525, 12513, 12540, 12488, 12523>>>>,
      <<13176, "K", <<100, 109, 178>>>>,
      <<13230, "K", <<114, 97, 100, 8725, 115>>>>,
      <<13231, "K", <<114, 97, 100, 8725, 115, 178>>>>,
      <<13309, "K", <<51, 48, 26085>>>>, <<44032, "C", <<4352, 4449>>>>,
      <<44033, "C", <<44032, 4520>>>>, <<44059, "C", <<44032, 4546>>>>,
      <<44060, "C", <<4352, 4450>>>>, <<44061, "C", <<44060, 4520>>>>,
      <<44087, "C", <<44060, 4546>>>>, <<44256, "C", <<4352, 4457>>>>,
      <<44592, "C", <<4352, 4469>>>>, <<44593, "C", <<44592, 4520>>>>,
      <<44619, "C", <<44592, 4546>>>>, <<45208, "C", <<4354, 4449>>>>,
      <<50724, "C", <<4363, 4457>>>>, <<51200, "C", <<4364, 4453>>>>,
      <<51204, "C", <<51200, 4523>>>>, <<52264, "C", <<4366, 4449>>>>,
      <<52280, "C", <<52264, 4535>>>>, <<54616, "C", <<4370, 4449>>>>,
      <<54617, "C", <<54616, 4520>>>>, <<54643, "C", <<54616, 4546>>>>,
      <<54644, "C", <<4370, 4450>>>>, <<54645, "C", <<54644, 4520>>>>,
      <<54671, "C", <<54644, 4546>>>>, <<55176, "C", <<4370, 4469>>>>,
      <<55177, "C", <<55176, 4520>>>>, <<55203, "C", <<55176, 4546>>>>,
      <<64108, "X", <<148206>>>>,
      <<65018, "K", <<1589, 1604, 1609, 32, 1575, 1604, 1604, 1607, 32, 1593,
        1604, 1610, 1607, 32, 1608, 1587, 1604, 1605>>>>,
      <<65019, "K", <<1580, 1604, 32, 1580, 1604, 1575, 1604, 1607>>>>,
      <<69803, "C", <<69797, 69818>>>>, <<119134, "X", <<119127, 119141>>>>,
      <<127274, "K", <<12308, 83, 12309>>>>,
      <<127552, "K", <<12308, 26412, 12309>>>> }

\* The combining classes that are not 0.
MarkClasses ==
    { <<769, 230>>, <<771, 230>>, <<775, 230>>, <<776, 230>>, <<778, 230>>,
      <<783, 230>>, <<803, 220>>, <<824, 1>>, <<833, 230>>, <<836, 230>>,
      <<2364, 7>>, <<2492, 7>>, <<69818, 7>>, <<119141, 216>> }

Class == [c \in {m[1] : m \in MarkClasses} |->
             (CHOOSE m \in MarkClasses : m[1] = c)[2]]

ClassOf(c) == IF c \in DOMAIN Class THEN Class[c] ELSE 0

Mapping == [c \in {m[1] : m \in Mappings} |-> CHOOSE m \in Mappings : m[1] = c]

\* The decomposition of a text, without its order.
FullMapping(text, compat) ==
    LET full[c \in Nat] ==
            IF c \in DOMAIN Mapping /\ (compat \/ Mapping[c][2] # "K")
            THEN FlattenSeq([k \in DOMAIN Mapping[c][3] |-> full[Mapping[c][3][k]]])
            ELSE <<c>>
    IN  FlattenSeq([k \in DOMAIN text |-> full[text[k]]])

\* The canonical order: by starter, then class, then place.
InOrder(text) ==
    LET segment(k) == Cardinality({m \in 1 .. k : ClassOf(text[m]) = 0})
        before(k, m) ==
            \/ segment(k) < segment(m)
            \/ segment(k) = segment(m) /\ ClassOf(text[k]) < ClassOf(text[m])
            \/ /\ segment(k) = segment(m) /\ ClassOf(text[k]) = ClassOf(text[m])
               /\ k < m
        order == SortSeq([k \in DOMAIN text |-> k], before)
    IN  [k \in DOMAIN text |-> text[order[k]]]

DForm(text, compat) == InOrder(FullMapping(text, compat))

\* No character may be composed with a starter before it that nothing between
\* them blocks it from, and none is to be replaced by its decomposition.
FullyComposed(text) ==
    /\ \A k \in DOMAIN text : text[k] \in DOMAIN Mapping => Mapping[text[k]][2] # "X"
    /\ \A k, m \in DOMAIN text :
          /\ k < m /\ ClassOf(text[k]) = 0
          /\ \A n \in k + 1 .. m - 1 : ClassOf(text[n]) \in 1 .. ClassOf(text[m]) - 1
          => \A x \in Mappings : x[2] = "C" => x[3] # <<text[k], text[m]>>

---------------------------------------------------------------------------
(***************************************************************************)
(* Properties.                                                             *)
(***************************************************************************)
Probes(run) == {run[1], (run[1] + run[2]) \div 2, run[2] - 1}

Lookup(name, c) ==
    CASE name = "Cased1"         -> lre_is_cased(c, FALSE)
      [] name = "Case_Ignorable" -> lre_is_case_ignorable(c)
      [] name = "ID_Start"       -> lre_is_id_start(c)
      [] name = "ID_Continue1"   ->
           lre_is_in_table(c, unicode_prop_ID_Continue1_table, unicode_prop_ID_Continue1_index)
      [] name = "White_Space"    -> lre_is_white_space(c)

\* The lexer and the reader of group names take the same characters in an
\* identifier, and those the property says.
IdentifiersAgree(name, c, in) ==
    /\ unicode_is_identifier_start(c) = lre_js_is_ident_first(c)
    /\ unicode_is_identifier_continue(c) = lre_js_is_ident_next(c)
    /\ name = "ID_Start" => unicode_is_identifier_start(c) = (in \/ c \in {36, 95})
    /\ in => unicode_is_identifier_continue(c)

\* A lookup enters a table in its middle, through an index of three-byte entries
\* (get_index_pos), and runs are coded in one to three bytes; read from its start
\* (unicode_prop1, unicode_get_cc) the table gives the same answer at the start,
\* the middle and the end of every run and past the last one, and the fast paths
\* of both readers of identifiers agree with it.
LookupsExact ==
    /\ call.of = "prop" =>
          /\ \A r \in Range(seen) : \A c \in Probes(r) :
                /\ Lookup(call.name, c) = r[3]
                /\ call.name \in {"ID_Start", "ID_Continue1"} =>
                      IdentifiersAgree(call.name, c, r[3])
          /\ p = Len(PropTable(call.name)) => ~Lookup(call.name, code)
    /\ call.of = "cc" =>
          /\ \A r \in Range(seen) : \A c \in Probes(r) :
                unicode_get_cc(c) = CcIn(r[3], c - r[1])
          /\ p = Len(unicode_cc_table) => unicode_get_cc(code) = 0

IsCompat == form \in {UNICODE_NFKC, UNICODE_NFKD}

AsDefined ==
    IF form \in {UNICODE_NFD, UNICODE_NFKD}
    THEN Normalized = DForm(src, IsCompat)
    ELSE DForm(Normalized, FALSE) = DForm(src, IsCompat) /\ FullyComposed(Normalized)

\* A composite whose decomposition starts with a starter.
IsComposite ==
    Len(src) = 1 /\ src[1] \in Composites /\ unicode_get_cc(to_nfd_rec(src, FALSE)[1]) = 0

FullyDecomposed(text) ==
    /\ to_nfd_rec(text, TRUE) = text
    /\ \A k \in 1 .. Len(text) - 1 :
          unicode_get_cc(text[k + 1]) \in {0} \cup unicode_get_cc(text[k]) .. 255

\* The sorting and the composition work in place on the decomposed text, and
\* pairs are found by a binary search over decompositions that are themselves
\* decoded: in every form the result is the one UAX #15 defines, a composite that
\* starts with a starter is its own NFC, and nothing in an NFKD can be decomposed
\* or is out of order (unicode_normalize).
NormalizesRight ==
    (call.of = "normalize" /\ phase = "done") =>
        /\ Range(src) \subseteq CoreAlphabet \cup Samples \cup {4519} => AsDefined
        /\ (form = UNICODE_NFC /\ IsComposite) => Normalized = src
        /\ form = UNICODE_NFKD => FullyDecomposed(Normalized)

Folding(c) == lre_canonicalize(c, TRUE)

\* A conversion is decoded from one of fourteen run types, and a folded interval
\* is put together from the runs it meets: a known character converts as Unicode
\* says, two characters fold alike exactly when they should, folding a folded
\* character changes nothing, and a folded interval is well formed and holds the
\* foldings of its characters and nothing else (lre_case_conv, lre_canonicalize,
\* cr_regexp_canonicalize).
FoldsRight ==
    /\ (call.of = "case" /\ conv # <<>>) =>
          /\ \A mode \in BOOLEAN :
                LET f == lre_canonicalize(call.c, mode) IN lre_canonicalize(f, mode) = f
          /\ \A k \in {x \in KnownConversions : x[1] = call.c} :
                /\ conv.upper = k[2] /\ conv.lower = k[3] /\ conv.cased
                /\ lre_canonicalize(call.c, FALSE) =
                      IF Len(k[2]) > 1 \/ (k[2][1] < 128 /\ call.c >= 128)
                      THEN call.c ELSE k[2][1]
                /\ \A x \in KnownConversions :
                      (Folding(x[1]) = Folding(call.c)) <=> (x[4] = k[4])
    /\ (call.of = "fold" /\ conv # <<>>) =>
          LET image == {lre_canonicalize(c, call.unicode) : c \in call.ends[1] .. call.ends[2]}
          IN  /\ WellFormedPoints(points)
              /\ \A c \in image : InPoints(c, points)
              /\ Range(CharsOf(points)) \subseteq image

=============================================================================
