----------------------------- MODULE CharClass -----------------------------
(***************************************************************************)
(* The text between "[" and "]" of a pattern, read by re_parse_nested_class *)
(* and get_class_atom (libregexp.c).  The text is a sequence of records:   *)
(*   raw c       the character c as it stands ("[", "]", "^", "-", "&" too) *)
(*   esc c       an escape that denotes the character c                     *)
(*   bad c       an escape that only legacy mode reads, as c               *)
(*   set r       \d \D \s \S \w or \W                                       *)
(*   prop points \p{...}, or \P{...} when inv (Unicode mode only)           *)
(*   q strs      \q{...}: its strings (v mode only)                         *)
(* A class is its characters as points and its strings, which are the ones *)
(* that are not one character long (REStringList).                         *)
(***************************************************************************)
EXTENDS UnicodeCase

Class(points, strs) == [points |-> points, strs |-> strs]

EmptyClass == Class(<<>>, {})

\* What the parser knows while it reads a class: u or v mode, v mode, and
\* whether case is ignored.
Context(unicode, sets, i) == [unicode |-> unicode, sets |-> sets, i |-> i]

---------------------------------------------------------------------------
(***************************************************************************)
(* Operations on classes.                                                  *)
(***************************************************************************)
char_range_d == <<48, 58>>
char_range_s == <<9, 14, 32, 33, 160, 161, 5760, 5761, 8192, 8203, 8232, 8234,
                  8239, 8240, 8287, 8288, 12288, 12289, 65279, 65280>>
char_range_w == <<48, 58, 65, 91, 95, 96, 97, 123>>

\* cr_init_char_range.
ClassEscape(r) ==
    CASE r = "d" -> char_range_d
      [] r = "D" -> cr_invert(char_range_d)
      [] r = "s" -> char_range_s
      [] r = "S" -> cr_invert(char_range_s)
      [] r = "w" -> char_range_w
      [] r = "W" -> cr_invert(char_range_w)

\* re_string_add: a string of one character joins the points.
re_string_add(cl, str) ==
    IF Len(str) = 1 THEN [cl EXCEPT !.points = cr_union_interval(@, str[1], str[1])]
    ELSE [cl EXCEPT !.strs = @ \cup {str}]

\* re_string_list_op.
re_string_list_op(a, b, op) ==
    Class(cr_op(a.points, b.points, op),
          CASE op = "union" -> a.strs \cup b.strs
            [] op = "inter" -> a.strs \cap b.strs
            [] op = "sub"   -> a.strs \ b.strs)

\* re_string_list_canonicalize: strings stay strings, folded one character at
\* a time.
re_string_list_canonicalize(cl, unicode) ==
    Class(cr_regexp_canonicalize(cl.points, unicode),
          {[k \in DOMAIN s |-> lre_canonicalize(s[k], unicode)] : s \in cl.strs})

\* The last step of parse_unicode_property: v mode folds before it inverts,
\* u mode after.
Inverted(points, inv) == IF inv THEN cr_invert(points) ELSE points

Property(points, inv, ctx) ==
    LET first == Inverted(points, inv /\ ~ctx.sets)
    IN  Inverted(IF ctx.i THEN cr_regexp_canonicalize(first, ctx.unicode) ELSE first,
                 inv /\ ctx.sets)

\* parse_class_string_disjunction.
StringDisjunction(strs, ctx) ==
    LET all == FoldLeft(re_string_add, EmptyClass, strs)
    IN  IF ctx.i THEN re_string_list_canonicalize(all, TRUE) ELSE all

---------------------------------------------------------------------------
(***************************************************************************)
(* get_class_atom: one character or one class of characters, and the       *)
(* position after it.  at = 0 is an error.                                 *)
(***************************************************************************)
Failed == [kind |-> "failed", c |-> 0, class |-> EmptyClass, at |-> 0]

CharAtom(c, p)     == [kind |-> "char", c |-> c, class |-> EmptyClass, at |-> p]
ClassAtom(cl, p)   == [kind |-> "class", c |-> 0, class |-> cl, at |-> p]

\* The raw character at p, -1 for anything else.
Raw(s, p) == IF p \in DOMAIN s /\ s[p].k = "raw" THEN s[p].c ELSE -1

\* & ! # $ % * + , . : ; < = > ? @ ^ ` ~ may not be doubled in v mode.
Doubled == {38, 33, 35, 36, 37, 42, 43, 44, 46, 58, 59, 60, 61, 62, 63, 64,
            94, 96, 126}

\* ( ) [ ] { } / - | may not stand unescaped in v mode.
Reserved == {40, 41, 91, 93, 123, 125, 47, 45, 124}

get_class_atom(s, p, ctx) ==
    LET tok == s[p]
    IN  IF p \notin DOMAIN s THEN Failed
        ELSE CASE tok.k = "set"  -> ClassAtom(Class(ClassEscape(tok.r), {}), p + 1)
               [] tok.k = "prop" ->
                    ClassAtom(Class(Property(tok.points, tok.inv, ctx), {}), p + 1)
               [] tok.k = "q"    -> ClassAtom(StringDisjunction(tok.strs, ctx), p + 1)
               [] tok.k = "esc"  -> CharAtom(tok.c, p + 1)
               [] tok.k = "bad"  -> IF ctx.unicode THEN Failed ELSE CharAtom(tok.c, p + 1)
               [] tok.k = "raw"  ->
                    IF /\ ctx.sets
                       /\ \/ tok.c \in Reserved
                          \/ tok.c \in Doubled /\ Raw(s, p + 1) = tok.c
                    THEN Failed ELSE CharAtom(tok.c, p + 1)

Fold1(c, ctx) == IF ctx.i THEN lre_canonicalize(c, ctx.unicode) ELSE c

\* What an atom or a range adds to a class.
AddAtom(cl, atom, ctx) ==
    IF atom.kind = "class" THEN re_string_list_op(cl, atom.class, "union")
    ELSE [cl EXCEPT !.points =
             cr_union_interval(@, Fold1(atom.c, ctx), Fold1(atom.c, ctx))]

AddRange(cl, c1, c2, ctx) ==
    [cl EXCEPT !.points =
        IF ctx.i THEN cr_op(@, cr_regexp_canonicalize(<<c1, c2 + 1>>, ctx.unicode),
                            "union")
        ELSE cr_union_interval(@, c1, c2)]

IsAnd(s, p) == Raw(s, p) = 38 /\ Raw(s, p + 1) = 38 /\ Raw(s, p + 2) # 38
IsSub(s, p) == Raw(s, p) = 45 /\ Raw(s, p + 1) = 45

RECURSIVE re_parse_nested_class(_, _, _), Items(_, _, _, _, _),
          Operands(_, _, _, _, _), NextOperand(_, _, _, _, _)

\* re_parse_class_set_operand.
OperandOf(atom, ctx) ==
    IF atom.at = 0 THEN Failed
    ELSE ClassAtom(AddAtom(EmptyClass, atom, ctx), atom.at)

Operand1(s, p, ctx) ==
    IF Raw(s, p) = 91 THEN re_parse_nested_class(s, p, ctx)
    ELSE OperandOf(get_class_atom(s, p, ctx), ctx)

\* The rest of a class after a first "&&" or "--": the same operator between
\* operands up to "]".
NextOperand(s, x, cl, op, ctx) ==
    IF x.at = 0 THEN Failed
    ELSE Operands(s, x.at, re_string_list_op(cl, x.class, op), op, ctx)

Operands(s, p, cl, op, ctx) ==
    IF Raw(s, p) = 93 THEN ClassAtom(cl, p)
    ELSE IF ~(IF op = "inter" THEN IsAnd(s, p) ELSE IsSub(s, p)) THEN Failed
    ELSE NextOperand(s, Operand1(s, p + 2, ctx), cl, op, ctx)

\* After one item of the union, which has left cl: unless it was a range, an
\* operator may follow the first item.
AfterItem(s, p, cl, open, ctx) ==
    IF open /\ IsAnd(s, p) THEN Operands(s, p, cl, "inter", ctx)
    ELSE IF open /\ IsSub(s, p) THEN Operands(s, p, cl, "sub", ctx)
    ELSE Items(s, p, cl, FALSE, ctx)

\* A "-" after the atom a1, and a2 after that.  Annex B: next to a class of
\* characters it is a character itself.
AfterDash(s, a1, a2, cl, open, ctx) ==
    CASE a1.kind = "char" /\ a2.at = 0 -> Failed
      [] ~ctx.unicode /\ "class" \in {a1.kind, a2.kind} ->
           AfterItem(s, a1.at, AddAtom(cl, a1, ctx), open, ctx)
      [] a1.kind = "char" /\ a2.kind = "char" /\ a1.c <= a2.c ->
           AfterItem(s, a2.at, AddRange(cl, a1.c, a2.c, ctx), FALSE, ctx)
      [] OTHER -> Failed

AfterAtom(s, a1, nested, cl, first, ctx) ==
    IF a1.at = 0 THEN Failed
    ELSE IF /\ ~nested /\ Raw(s, a1.at) = 45 /\ Raw(s, a1.at + 1) # 93
            /\ ~(Raw(s, a1.at + 1) = 45 /\ ctx.sets /\ first)
    THEN AfterDash(s, a1, get_class_atom(s, a1.at + 1, ctx), cl,
                   ctx.sets /\ first, ctx)
    ELSE AfterItem(s, a1.at, AddAtom(cl, a1, ctx), ctx.sets /\ first, ctx)

\* The union that a class is, from p on; first until one item has been read.
Items(s, p, cl, first, ctx) ==
    LET nested == Raw(s, p) = 91 /\ ctx.sets
    IN  IF Raw(s, p) = 93 THEN ClassAtom(cl, p)
        ELSE AfterAtom(s, IF nested THEN re_parse_nested_class(s, p, ctx)
                          ELSE get_class_atom(s, p, ctx),
                       nested, cl, first, ctx)

\* body is what the brackets hold, up to "]".
Bracketed(body, inv) ==
    IF body.at = 0 \/ (inv /\ body.class.strs # {}) THEN Failed
    ELSE ClassAtom([body.class EXCEPT !.points = Inverted(@, inv)], body.at + 1)

\* The class whose "[" is at p: it and the position after its "]".
re_parse_nested_class(s, p, ctx) ==
    LET inv == Raw(s, p + 1) = 94
    IN  Bracketed(Items(s, IF inv THEN p + 2 ELSE p + 1, EmptyClass, TRUE, ctx), inv)

=============================================================================
