------------------------------- MODULE Regexp -------------------------------
(***************************************************************************)
(* A regular expression from its pattern to its results: re_compile and    *)
(* re_run (re_wrapper.c) around the compiler (RegexpCompile) and the       *)
(* interpreter (RegexpExec).  Strings are sequences of UTF-16 code units;  *)
(* the caller's offsets are byte offsets into their CESU-8 encoding.       *)
(***************************************************************************)
EXTENDS RegexpCompile, RegexpExec

CONSTANTS
    Regexps,         \* pairs of a token sequence and a set of the flags
                     \* "u", "v", "i", "m", "s" and "y"
    SubjectsFor(_),  \* the subjects, code unit sequences, matched under flags
    RE_MAX_CAPTURES  \* groups re_run reports

ASSUME MaxCapturesAssumption == RE_MAX_CAPTURES \in Nat \ {0}

VARIABLES
    start,           \* start_offset of the call, in bytes
    result           \* what the call returned

vars == <<compileVars, execVars, start, result>>

FlagRecord(fs) ==
    [u |-> "u" \in fs, v |-> "v" \in fs, i |-> "i" \in fs, m |-> "m" \in fs,
     s |-> "s" \in fs, sticky |-> "y" \in fs]

(***************************************************************************)
(* cesu8_pattern_to_utf8: in Unicode mode a high and a low surrogate that  *)
(* are next to each other in the pattern are one character.                *)
(***************************************************************************)
CharOf(x) ==
    IF ("t" \in DOMAIN x /\ x.t = "char") \/ ("k" \in DOMAIN x /\ x.k = "raw")
    THEN x.c ELSE -1

Recombined(s) ==
    LET pair(k) == /\ k \in 1 .. Len(s) - 1
                   /\ is_hi_surrogate(CharOf(s[k]))
                   /\ is_lo_surrogate(CharOf(s[k + 1]))
        kept == SelectSeq([k \in DOMAIN s |-> k], LAMBDA k : ~pair(k - 1))
    IN  [n \in DOMAIN kept |->
            IF pair(kept[n])
            THEN [s[kept[n]] EXCEPT !.c = from_surrogate(@, s[kept[n] + 1].c)]
            ELSE s[kept[n]]]

cesu8_pattern_to_utf8(p) ==
    LET q == Recombined(p)
    IN  [k \in DOMAIN q |->
            IF q[k].t = "class" THEN [q[k] EXCEPT !.text = Recombined(@)] ELSE q[k]]

Init ==
    /\ \E r \in Regexps :
          LET fl == FlagRecord(r[2])
          IN  CompileInit(IF fl.u \/ fl.v THEN cesu8_pattern_to_utf8(r[1])
                          ELSE r[1], fl)
    /\ subject = <<>> /\ utf16 = FALSE
    /\ pc = 0 /\ cptr = 0 /\ capture = <<>>
    /\ stack = <<>> /\ bp = 0 /\ stack_size = STACK_SIZE
    /\ ret = "idle"
    /\ start = 0
    /\ result = <<>>

Compile == CompileNext /\ UNCHANGED <<execVars, start, result>>

---------------------------------------------------------------------------
IsAscii(s) == \A k \in DOMAIN s : s[k] < 128

\* The first code unit at or after a byte offset.
UnitAt(s, byte) ==
    Min({k \in 0 .. Len(s) : ByteOffsets(s)[k] >= byte})

\* re_run up to the interpreter: an ASCII subject is matched as it is, another
\* one as code units, which Unicode mode combines; lre_exec starts before a
\* pair the offset falls into.  Everything a call writes is local to it, so one
\* call for each regexp, subject and offset stands for any sequence of calls.
Run(s, byte) ==
    LET wide == ~IsAscii(s) /\ is_unicode
        at   == UnitAt(s, byte)
    IN  /\ status = "compiled" /\ ret = "idle" /\ result = <<>>
        /\ subject' = s
        /\ utf16' = wide
        /\ start' = byte
        /\ pc' = 0
        /\ cptr' = IF at \in 1 .. Len(s) - 1 /\ PairAt(s, at - 1, wide)
                   THEN at - 1 ELSE at
        /\ capture' = [k \in 0 .. 2 * capture_count + register_count - 1 |->
                          IF k < 2 * capture_count THEN Null ELSE Unset]
        /\ stack' = <<>> /\ bp' = 0 /\ stack_size' = STACK_SIZE
        /\ ret' = "running"
        /\ UNCHANGED <<compileVars, result>>

\* unit_offset_to_byte_offset.
ByteOffset(unit) == IF unit = Null THEN -1 ELSE ByteOffsets(subject)[unit]

\* re_run after the interpreter: the groups as byte offsets, the whole match
\* first.
Return ==
    LET n == Min({capture_count, RE_MAX_CAPTURES})
    IN  /\ ret \in {"match", "no_match", MEMORY_ERROR}
        /\ result' = CASE ret = "no_match"   -> <<"RE_NO_MATCH">>
                       [] ret = MEMORY_ERROR -> <<"RE_ERROR">>
                       [] ret = "match"      ->
                            <<"RE_MATCH",
                              [g \in 0 .. n - 1 |->
                                 <<ByteOffset(capture[2 * g]),
                                   ByteOffset(capture[2 * g + 1])>>]>>
        /\ ret' = "idle"
        /\ capture' = <<>> /\ stack' = <<>> /\ bp' = 0
        /\ stack_size' = STACK_SIZE /\ pc' = 0 /\ cptr' = 0
        /\ UNCHANGED <<compileVars, subject, utf16, start>>

Exec ==
    /\ ExecNext
    /\ UNCHANGED <<pattern, pos, frames, group_names, scope, mods, status, start,
                   result>>

Next ==
    \/ Compile
    \/ \E s \in SubjectsFor(flags) : \E byte \in Range(ByteOffsets(s)) : Run(s, byte)
    \/ Exec
    \/ Return

\* Matching runs to its end on the caller's thread; whether a regexp is run is up
\* to the program.
Spec == Init /\ [][Next]_vars /\ WF_vars(Exec \/ Return)

---------------------------------------------------------------------------
(***************************************************************************)
(* Properties.                                                             *)
(***************************************************************************)
\* The moment between the compiler and the interpreter; the code stays as it is
\* from then on.
Compiled == status = "compiled" /\ ret = "idle" /\ result = <<>>

\* The interpreter takes the bytecode on trust (Runnable).  The compiler emits
\* relative jumps before the code they cross is complete, inserts bytes in front
\* of it and moves whole terms (re_parse_disjunction, re_parse_term,
\* re_parse_alternative), allots registers by counting in one pass
\* (compute_register_count), and balances lookarounds by recursion only.  Every
\* match of a compiled pattern begins in a state the interpreter is made for.
EntersRunnable == [][ret = "idle" /\ ret' = "running" => ExecInit']_vars

\* Every match ends: a loop whose body can match nothing is stopped by its
\* advance check, and backtracking runs out of saved states
\* (lre_exec_backtrack; lre_check_timeout never stops it).
Settles == ret = "running" ~> ret = "idle"

=============================================================================
