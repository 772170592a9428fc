------------------------------ MODULE Unicode ------------------------------
(***************************************************************************)
(* The Unicode functions behind identifiers, String.prototype.normalize,   *)
(* the case conversions and the character classes of regular expressions   *)
(* (libunicode.c, unicode_wrapper.c).  Each is sequential and keeps no     *)
(* state between calls, so a behaviour is one call: the reading of a table *)
(* from its start to its end, the normalization of a text, or a conversion *)
(* of a character or of an interval of characters.                         *)
(***************************************************************************)
EXTENDS Normalize, UnicodeCase

LOCAL INSTANCE UnicodeData

CONSTANTS
    NormalizeCalls,    \* pairs of a normalization form and a text
    CaseChars,         \* characters to convert
    CaseIntervals      \* pairs of characters: the ends of intervals to fold

VARIABLES
    call,       \* what the behaviour is about
    p, code, bit,      \* reading a table: offset, next character, next bit
    seen,       \* the runs just read: first character, first after, value
    points,     \* the set read so far (cr); in the end, the folded interval
    conv        \* the conversions of a character, <<>> before

scanVars == <<p, code, bit, seen, points>>
vars     == <<call, scanVars, conv, normVars>>

Properties == {"Cased1", "Case_Ignorable", "ID_Start", "ID_Continue1", "White_Space"}

PropTable(name) ==
    CASE name = "Cased1"         -> unicode_prop_Cased1_table
      [] name = "Case_Ignorable" -> unicode_prop_Case_Ignorable_table
      [] name = "ID_Start"       -> unicode_prop_ID_Start_table
      [] name = "ID_Continue1"   -> unicode_prop_ID_Continue1_table
      [] name = "White_Space"    -> unicode_prop_White_Space_table

Calls ==
    [of : {"prop"}, name : Properties] \cup [of : {"cc"}]
      \cup [of : {"normalize"}, arg : NormalizeCalls]
      \cup [of : {"case"}, c : CaseChars]
      \cup [of : {"fold"}, ends : CaseIntervals, unicode : BOOLEAN]

Init ==
    /\ call \in Calls
    /\ p = 0 /\ code = 0 /\ bit = FALSE /\ seen = <<>> /\ points = <<>>
    /\ conv = <<>>
    /\ IF call.of = "normalize" THEN NormalizeInit(call.arg[1], call.arg[2])
       ELSE NormalizeInit(UNICODE_NFC, <<>>)

\* unicode_prop1: the runs coded at p; those whose bit is set become intervals.
unicode_prop1(table) ==
    /\ call.of = "prop" /\ p < Len(table)
    /\ LET x   == RunsAt(table, p)
           mid == code + x.lens[1]
           end == IF Len(x.lens) = 2 THEN mid + x.lens[2] ELSE mid
           in  == IF bit THEN <<code, mid>> ELSE IF end > mid THEN <<mid, end>> ELSE <<>>
       IN  /\ seen' = << <<code, mid, bit>> >>
                        \o (IF end > mid THEN << <<mid, end, ~bit>> >> ELSE <<>>)
           /\ points' = points \o in
           /\ p' = x.next /\ code' = end
           /\ bit' = IF end > mid THEN bit ELSE ~bit
    /\ UNCHANGED <<call, conv, normVars>>

\* The loop of unicode_get_cc, from the start of the table.
ReadCc(table) ==
    /\ call.of = "cc" /\ p < Len(table)
    /\ LET run == CcRunAt(table, p)
       IN  /\ seen' = << <<code, code + run.len, run>> >>
           /\ p' = run.next /\ code' = code + run.len
    /\ UNCHANGED <<call, bit, points, conv, normVars>>

\* unicode_case_conv and unicode_is_cased of one character.
unicode_case_conv ==
    /\ call.of = "case" /\ conv = <<>>
    /\ conv' = [upper |-> lre_case_conv(call.c, Upper),
                lower |-> lre_case_conv(call.c, Lower),
                fold  |-> lre_case_conv(call.c, Fold),
                cased |-> lre_is_cased(call.c, FindEntry(call.c) # -1)]
    /\ UNCHANGED <<call, scanVars, normVars>>

\* cr_regexp_canonicalize of an interval.
FoldInterval ==
    /\ call.of = "fold" /\ conv = <<>>
    /\ points' = cr_regexp_canonicalize(<<call.ends[1], call.ends[2] + 1>>, call.unicode)
    /\ conv' = <<"folded">>
    /\ UNCHANGED <<call, p, code, bit, seen, normVars>>

NormalizeText == call.of = "normalize" /\ NormalizeNext /\ UNCHANGED <<call, scanVars, conv>>

Next ==
    \/ unicode_prop1(PropTable(call.name))
    \/ ReadCc(unicode_cc_table)
    \/ NormalizeText
    \/ unicode_case_conv
    \/ FoldInterval

Spec == Init /\ [][Next]_vars

=============================================================================
