--------------------------- MODULE RegexpCompile ---------------------------
(***************************************************************************)
(* lre_compile and the recursive-descent parser under it, as a machine     *)
(* with an explicit stack of open disjunctions.  A pattern is a sequence   *)
(* of tokens, one for each construct the switch of re_parse_term tells     *)
(* apart:                                                                  *)
(*   char c, dot, bol, eol, wordb/nwordb, escape item (\d, \p{..}, \x41), *)
(*   class text, backref n, kref name text, open, named name, group, mods, look, *)
(*   close, alt, quant min max greedy, brace (a "{" that starts no count)   *)
(*   and rbrace (a stray "]" or "}").                                       *)
(* A class token carries its text (see CharClass).                         *)
(***************************************************************************)
EXTENDS RegexpCode, CharClass

CONSTANTS
    CAPTURE_COUNT_MAX,   \* captures a pattern may have, the whole match too
    REGISTER_COUNT_MAX   \* registers its code may use

ASSUME LimitsAssumption ==
    /\ CAPTURE_COUNT_MAX \in Nat \ {0}
    /\ REGISTER_COUNT_MAX \in Nat

VARIABLES
    pattern,         \* the tokens of the pattern
    pos,             \* index of the next token (buf_ptr)
    frames,          \* the open disjunctions, innermost last
    group_names,     \* name and scope of each capture group parsed so far
    scope,           \* group_name_scope
    mods,            \* ignore_case, multi_line and dotall in force
    status           \* "parsing", "error" or "compiled"

compileVars == <<pattern, flags, pos, code, frames, capture_count,
                 group_names, scope, mods, register_count, status>>

NoName == "none"

---------------------------------------------------------------------------
(***************************************************************************)
(* The tokens ahead.                                                       *)
(***************************************************************************)
End == [t |-> "end"]

TokenAt(k) == IF k \in DOMAIN pattern THEN pattern[k] ELSE End

Next1 == TokenAt(pos)

Top == frames[Len(frames)]

Opens == {"open", "named"}

\* re_parse_captures: the pattern is scanned from its start, without parsing,
\* for the groups it opens; the scan stops when the count reaches its limit.
GroupsIn(p) ==
    LET all == SelectSeq(p, LAMBDA tok : tok.t \in Opens)
        n   == IF Len(all) + 1 < CAPTURE_COUNT_MAX THEN Len(all)
               ELSE CAPTURE_COUNT_MAX - 1
    IN  SubSeq(all, 1, n)

re_count_captures == Len(GroupsIn(pattern)) + 1

re_has_named_captures == \E k \in DOMAIN pattern : pattern[k].t = "named"

\* find_group_name: the groups already parsed that have the name.
ParsedGroups(name) ==
    SelectSeq([k \in DOMAIN group_names |-> k],
              LAMBDA k : group_names[k].name = name)

\* re_parse_captures with a name: the groups of the whole pattern that have it.
AllGroups(name) ==
    LET g == GroupsIn(pattern)
    IN  SelectSeq([k \in DOMAIN g |-> k],
                  LAMBDA k : g[k].t = "named" /\ g[k].name = name)

\* Mutant: names are not compared.
NeverDuplicate(name) == FALSE

is_duplicate_group_name(name) ==
    \E k \in DOMAIN group_names :
        group_names[k].name = name /\ group_names[k].scope = scope

---------------------------------------------------------------------------
(***************************************************************************)
(* The end of a term: its quantifier, and in a lookbehind its move before  *)
(* the terms parsed so far.                                                *)
(***************************************************************************)
Error == /\ status' = "error"
         /\ UNCHANGED <<pattern, flags, pos, code, frames, capture_count,
                        group_names, scope, mods, register_count>>

\* In backward direction the term at code[term ..] moves to the start of its
\* alternative.
Placed(c, frame, term) ==
    IF frame.back
    THEN SubSeq(c, 1, frame.alt) \o SubSeq(c, term + 1, Len(c))
           \o SubSeq(c, frame.alt + 1, term)
    ELSE c

\* The term whose code c starts at term has been read up to token p.  atom is
\* the position of the atom a quantifier applies to, -1 for none; lastCap
\* is the capture count before it and capCount the one after it.
FinishTerm(c, frame, term, atom, lastCap, capCount, p) ==
    LET q == TokenAt(p)
        quantified == atom >= 0 /\ q.t = "quant"
    IN  IF \/ quantified /\ q.max < q.min
           \/ atom >= 0 /\ q.t = "brace" /\ is_unicode
        THEN /\ status' = "error"
             /\ UNCHANGED <<code, pos>>
        ELSE /\ code' = Placed(IF quantified
                               THEN QuantifyAtom(c, atom, lastCap, capCount,
                                                 q.min, q.max, q.greedy)
                               ELSE c,
                               frame, term)
             /\ pos' = IF quantified THEN p + 1 ELSE p
             /\ UNCHANGED status

\* An atom that is complete in one token: its code is bracketed by two steps
\* back in a lookbehind.
Around(c, back) == IF back THEN Emit(c, Op("prev")) ELSE c

\* c is the code before it, the first step back and the atom.
AtomAfter(before, c) ==
    /\ FinishTerm(Around(c, Top.back), Top, Len(before), Len(before),
                  capture_count, capture_count, pos + 1)
    /\ UNCHANGED <<pattern, flags, frames, capture_count, group_names, scope,
                   mods, register_count>>

SimpleAtom(c) == AtomAfter(code, c)

\* What the code of the next atom is emitted after.
Ahead == Around(code, Top.back)

Assertion(ins) ==
    /\ FinishTerm(Emit(code, ins), Top, Len(code), -1,
                  capture_count, capture_count, pos + 1)
    /\ UNCHANGED <<pattern, flags, frames, capture_count, group_names, scope,
                   mods, register_count>>

Ctx == Context(is_unicode, flags.v, mods.i)

Parsing(t) == status = "parsing" /\ Next1.t = t

---------------------------------------------------------------------------
(***************************************************************************)
(* re_parse_term: one action per kind of term.                             *)
(***************************************************************************)
ParseLineStart ==
    /\ Parsing("bol")
    /\ Assertion(Op(IF mods.m THEN "line_start_m" ELSE "line_start"))

ParseLineEnd ==
    /\ Parsing("eol")
    /\ Assertion(Op(IF mods.m THEN "line_end_m" ELSE "line_end"))

ParseWordBoundary ==
    /\ status = "parsing" /\ Next1.t \in {"wordb", "nwordb"}
    /\ Assertion(WordBoundary(Next1.t = "nwordb", mods.i /\ is_unicode))

ParseDot ==
    /\ Parsing("dot")
    /\ SimpleAtom(Emit(Ahead, Op(IF mods.s THEN "any" ELSE "dot")))

LiteralChar(ch) == SimpleAtom(EmitChar(Ahead, Fold1(ch, Ctx), mods.i))

\* The strings of a class in an order re_emit_string_list may try them: the
\* longer first, hash order (any order) among those of one length.
ByLength(strs) == SetToSortSeq(strs, LAMBDA x, y : Len(x) > Len(y))

re_emit_string_list(c, cl) ==
    EmitStringList(c, ByLength(cl.strs \ {<<>>}), <<>> \in cl.strs, cl.points,
                   mods.i)

\* The escape s, which get_class_atom has read as atom.
EscapeTerm(s, atom) ==
    \/ atom.kind = "failed" /\ Error
    \/ atom.kind = "char" /\ LiteralChar(atom.c)
    \/ /\ atom.kind = "class"
       /\ SimpleAtom(
             CASE s.k = "set" /\ s.r = "s" -> Emit(Ahead, Op("space"))
               [] s.k = "set" /\ s.r = "S" -> Emit(Ahead, Op("not_space"))
               [] OTHER                    -> re_emit_string_list(Ahead, atom.class))

RawChar(c) == [k |-> "raw", c |-> c]

ParseChar ==
    /\ Parsing("char")
    /\ LET next == TokenAt(pos + 1)
           text == <<RawChar(Next1.c)>>
                     \o IF next.t = "char" THEN <<RawChar(next.c)>> ELSE <<>>
       IN  IF get_class_atom(text, 1, Ctx).kind = "failed" THEN Error
           ELSE LiteralChar(Next1.c)

ParseEscape ==
    /\ Parsing("escape")
    /\ EscapeTerm(Next1.item, get_class_atom(<<Next1.item>>, 1, Ctx))

\* "{" that starts no repetition count, "]" and "}": characters in legacy
\* mode (Annex B), errors in Unicode mode.
ParseBrace ==
    /\ status = "parsing" /\ Next1.t \in {"brace", "rbrace"}
    /\ IF is_unicode THEN Error
       ELSE LiteralChar(IF Next1.t = "brace" THEN 123 ELSE 125)

ClassTerm(x) ==
    \/ x.at = 0 /\ Error
    \/ x.at # 0 /\ SimpleAtom(re_emit_string_list(Ahead, x.class))

ParseClass ==
    Parsing("class") /\ ClassTerm(re_parse_nested_class(Next1.text, 1, Ctx))

\* A quantifier where no atom precedes it.
ParseNothingToRepeat == Parsing("quant") /\ Error

BackReferenceTerm(groups) ==
    /\ FinishTerm(Emit(code, BackReference(Top.back, mods.i, groups)), Top,
                  Len(code), Len(code), capture_count, capture_count, pos + 1)
    /\ UNCHANGED <<pattern, flags, frames, capture_count, group_names, scope,
                   mods, register_count>>

\* \1 .. \9: a group of the pattern, parsed or still to come; otherwise a
\* legacy octal escape or digit.
ParseBackReference ==
    /\ Parsing("backref")
    /\ LET n == Next1.n
       IN  \/ /\ n < capture_count \/ n < re_count_captures
              /\ BackReferenceTerm(<<n>>)
           \/ /\ ~(n < capture_count \/ n < re_count_captures)
              /\ IF is_unicode THEN Error
                 ELSE LiteralChar(IF n <= 7 THEN n ELSE 48 + n)

\* \k<name>: the groups parsed before it, or else those of the whole pattern.
ParseNamedReference ==
    /\ Parsing("kref")
    /\ LET before == ParsedGroups(Next1.name)
           all    == AllGroups(Next1.name)
       IN  \/ before # <<>> /\ BackReferenceTerm(before)
           \/ before = <<>> /\ all # <<>> /\ BackReferenceTerm(all)
           \/ /\ before = <<>> /\ all = <<>> /\ (is_unicode \/ re_has_named_captures)
              /\ Error

\* The code c with the character ch read as a term of its own.
WithChar(c, ch) ==
    Placed(Around(EmitChar(Around(c, Top.back), Fold1(ch, Ctx), mods.i), Top.back),
           Top, Len(c))

\* Annex B: \k<name> in a pattern without named groups is the characters "k",
\* "<", those of the name and ">".
ParseNotReference ==
    /\ Parsing("kref")
    /\ ~is_unicode /\ ~re_has_named_captures
    /\ LET before == FoldLeft(WithChar, code, <<107, 60>> \o Next1.text)
       IN  AtomAfter(before, EmitChar(Around(before, Top.back), 62, mods.i))

---------------------------------------------------------------------------
(***************************************************************************)
(* Groups: opening one pushes the frame of its disjunction.                *)
(***************************************************************************)
\* What every frame holds: where the disjunction and its current alternative
\* start, its direction, and the unpatched goto of its last "|"; then what the
\* group that opened it needs when it closes.
Frame(kind, c, back, term, atom, lastCap) ==
    [kind |-> kind, start |-> Len(c), alt |-> Len(c), back |-> back,
     goto |-> -1, term |-> term, atom |-> atom, lastCap |-> lastCap,
     group |-> 0, neg |-> FALSE, saved |-> mods]

Descend(c, frame) ==
    /\ code' = c
    /\ frames' = Append(frames, frame)
    /\ pos' = pos + 1

ParseGroup ==
    /\ Parsing("group")
    /\ Descend(code, Frame("group", code, Top.back, Len(code), Len(code),
                           capture_count))
    /\ UNCHANGED <<pattern, flags, capture_count, group_names, scope, mods,
                   register_count, status>>

\* (?ims-ims: ...): an empty, repeated or contradictory list is an error.
ParseModifiers ==
    /\ Parsing("mods")
    /\ IF \/ Next1.add \cup Next1.remove = {}
          \/ Next1.add \cap Next1.remove # {}
       THEN Error
       ELSE /\ Descend(code, Frame("mods", code, Top.back, Len(code),
                                   Len(code), capture_count))
            /\ mods' = [f \in DOMAIN mods |->
                           (mods[f] \/ f \in Next1.add) /\ f \notin Next1.remove]
            /\ UNCHANGED <<pattern, flags, capture_count, group_names, scope,
                           register_count, status>>

\* Only a lookahead, and only in legacy mode, may be quantified.
ParseLook ==
    /\ Parsing("look")
    /\ LET c == Emit(code, Jump(IF Next1.neg THEN "negative_lookahead"
                                ELSE "lookahead", 0))
           atom == IF ~is_unicode /\ ~Next1.back THEN Len(code) ELSE -1
       IN  Descend(c, [Frame("look", c, Next1.back, Len(code), atom,
                             capture_count) EXCEPT !.neg = Next1.neg])
    /\ UNCHANGED <<pattern, flags, capture_count, group_names, scope, mods,
                   register_count, status>>

\* The group's start is saved where matching enters it: at its end in a
\* lookbehind.
ParseCapture ==
    /\ status = "parsing" /\ Next1.t \in Opens
    /\ LET name == IF Next1.t = "named" THEN Next1.name ELSE NoName
           c    == Emit(code, Save(IF Top.back THEN "save_end" ELSE "save_start",
                                   capture_count))
       IN  IF \/ name # NoName /\ is_duplicate_group_name(name)
              \/ capture_count >= CAPTURE_COUNT_MAX
           THEN Error
           ELSE /\ Descend(c, [Frame("capture", c, Top.back, Len(code),
                                     Len(code), capture_count)
                                 EXCEPT !.group = capture_count])
                /\ group_names' = Append(group_names,
                       [name |-> name,
                        scope |-> IF name = NoName THEN 0 ELSE scope])
                /\ capture_count' = capture_count + 1
                /\ UNCHANGED <<pattern, flags, scope, mods, register_count,
                               status>>

---------------------------------------------------------------------------
(***************************************************************************)
(* The end of an alternative.                                              *)
(***************************************************************************)
\* Mutant: the offset is counted from the operand, not from the next instruction.
PatchGotoShort(c, frame) ==
    IF frame.goto = -1 THEN c
    ELSE [c EXCEPT ![frame.goto + 1].off = Offset(frame.goto, 1, Len(c))]

\* The goto that ends the alternative before this one is made to jump here.
PatchGoto(c, frame) ==
    IF frame.goto = -1 THEN c
    ELSE [c EXCEPT ![frame.goto + 1].off = Offset(frame.goto, 5, Len(c))]

\* "|": a split goes in front of everything the disjunction has so far.
ParseAlternative ==
    /\ Parsing("alt")
    /\ LET f  == Top
           c1 == PatchGoto(code, f)
           c2 == SubSeq(c1, 1, f.start)
                   \o Bytes(Jump("split_next_first", Len(c1) - f.start + 5))
                   \o SubSeq(c1, f.start + 1, Len(c1))
           c3 == Emit(c2, Jump("goto", 0))
       IN  /\ code' = c3
           /\ frames' = [frames EXCEPT ![Len(frames)].goto = Len(c2),
                                       ![Len(frames)].alt = Len(c3)]
    /\ scope' = (scope + 1) % 256
    /\ pos' = pos + 1
    /\ UNCHANGED <<pattern, flags, capture_count, group_names, mods,
                   register_count, status>>

\* ")": the group that opened the innermost disjunction is complete.
ParseClose ==
    /\ Parsing("close") /\ Len(frames) > 1
    /\ LET f     == Top
           outer == frames[Len(frames) - 1]
           c     == PatchGoto(code, f)
           done  == CASE f.kind = "capture" ->
                            Emit(c, Save(IF f.back THEN "save_start"
                                         ELSE "save_end", f.group))
                      [] f.kind = "look" ->
                            LET e == Emit(c, Op(IF f.neg
                                                THEN "negative_lookahead_match"
                                                ELSE "lookahead_match"))
                            IN  [e EXCEPT ![f.term + 1].off =
                                    Offset(f.term, 5, Len(e))]
                      [] OTHER -> c
       IN  /\ FinishTerm(done, outer, f.term, f.atom, f.lastCap,
                         capture_count, pos + 1)
           /\ mods' = IF f.kind = "mods" THEN f.saved ELSE mods
           /\ frames' = Front(frames)
    /\ UNCHANGED <<pattern, flags, capture_count, group_names, scope,
                   register_count>>

\* The end of the pattern inside a group, or ")" outside every group.
ParseUnbalanced ==
    /\ status = "parsing"
    /\ \/ Next1.t = "end" /\ Len(frames) > 1
       \/ Next1.t = "close" /\ Len(frames) = 1
    /\ Error

\* The end of the pattern: lre_compile closes the whole match and allots the
\* registers.
ParseEnd ==
    /\ Parsing("end") /\ Len(frames) = 1
    /\ LET c == Emit(Emit(PatchGoto(code, Top), Save("save_end", 0)),
                     Op("match"))
           n == RegisterCount(c)
       IN  IF n > REGISTER_COUNT_MAX THEN Error
           ELSE /\ code' = AllotRegisters(c)
                /\ register_count' = n
                /\ status' = "compiled"
                /\ UNCHANGED <<pattern, flags, pos, frames, capture_count,
                               group_names, scope, mods>>

---------------------------------------------------------------------------
\* lre_compile before the parse: unless the regexp is sticky, the code tries
\* every start position.
Prologue(sticky) ==
    LET seek == Bytes(Jump("split_goto_first", 1 + 5)) \o Bytes(Op("any"))
                  \o Bytes(Jump("goto", -(5 + 1 + 5)))
    IN  Emit(IF sticky THEN <<>> ELSE seek, Save("save_start", 0))

\* re_compile refuses u and v together.
CompileInit(p, fl) ==
    /\ pattern = p
    /\ flags = fl
    /\ pos = 1
    /\ code = Prologue(fl.sticky)
    /\ mods = [i |-> fl.i, m |-> fl.m, s |-> fl.s]
    /\ frames = <<[kind |-> "top", start |-> Len(code), alt |-> Len(code),
                   back |-> FALSE, goto |-> -1, term |-> 0, atom |-> -1,
                   lastCap |-> 0, group |-> 0, neg |-> FALSE, saved |-> mods]>>
    /\ capture_count = 1
    /\ group_names = <<>>
    /\ scope = 0
    /\ register_count = 0
    /\ status = IF fl.u /\ fl.v THEN "error" ELSE "parsing"

CompileNext ==
    \/ ParseLineStart \/ ParseLineEnd \/ ParseWordBoundary \/ ParseDot
    \/ ParseChar \/ ParseEscape \/ ParseBrace \/ ParseClass
    \/ ParseNothingToRepeat \/ ParseBackReference \/ ParseNamedReference
    \/ ParseNotReference \/ ParseGroup \/ ParseModifiers \/ ParseLook \/ ParseCapture
    \/ ParseAlternative \/ ParseClose \/ ParseUnbalanced \/ ParseEnd

=============================================================================
