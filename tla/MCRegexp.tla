------------------------------ MODULE MCRegexp ------------------------------
(***************************************************************************)
(* Regexp for TLC: the patterns, flags and subjects of the runs, and the   *)
(* properties that hold the machine against RegexpSemantics.               *)
(***************************************************************************)
EXTENDS Regexp, RegexpSemantics, UnicodeData

---------------------------------------------------------------------------
(***************************************************************************)
(* The case table: ASCII, the block of a-umlaut, sharp s, the pairs of     *)
(* U+0100, long s and Kelvin, with references to entries and to the        *)
(* extension table renumbered.                                             *)
(***************************************************************************)
LetterEntries == <<0, 1, 3, 5, 6, 9, 18, 277>>

LetterTable1 ==
    << <<65, 26, 3, 0>>, <<97, 26, 0, 0>>, <<192, 23, 3, 0>>, <<223, 1, 11, 0>>,
       <<224, 23, 0, 0>>, <<256, 48, 4, 0>>, <<383, 1, 7, 0>>, <<8490, 1, 10, 0>> >>

LetterTable2 == <<1, 0, 4, 0, 2, 0, 83, 1>>

LetterExt == <<83, 107>>

\* They are the entries of the real table.
ASSUME LetterTablesAreReal ==
    LET data(n) == case_conv_table1[n + 1][4] * 256 + case_conv_table2[n + 1]
        mine(k) == LetterTable1[k][4] * 256 + LetterTable2[k]
    IN  \A k \in DOMAIN LetterEntries :
          LET real == case_conv_table1[LetterEntries[k] + 1]
              want == data(LetterEntries[k])
          IN  /\ \A f \in 1 .. 3 : LetterTable1[k][f] = real[f]
              /\ CASE real[3] < 4 -> LetterEntries[mine(k) + 1] = want
                   [] real[3] = 11 ->
                        /\ LetterExt[(mine(k) \div 64) + 1] = case_conv_ext[(want \div 64) + 1]
                        /\ LetterExt[(mine(k) % 64) + 1] = case_conv_ext[(want % 64) + 1]
                   [] real[3] = 10 -> LetterExt[mine(k) + 1] = case_conv_ext[want + 1]
                   [] OTHER -> mine(k) = want

---------------------------------------------------------------------------
(***************************************************************************)
(* Patterns.                                                               *)
(***************************************************************************)
ch(x)         == [t |-> "char", c |-> x]
a             == ch(97)
b             == ch(98)
Q(n, m, g)    == [t |-> "quant", min |-> n, max |-> m, greedy |-> g]
Tok(t)        == [t |-> t]
Ref(n)        == [t |-> "backref", n |-> n]
Look(neg, bk) == [t |-> "look", neg |-> neg, back |-> bk]
In(o, body)   == <<o>> \o body \o <<Tok("close")>>

Either(l, r)  == l \o <<Tok("alt")>> \o r

Quants ==
    {<<>>} \cup {<<q>> : q \in
        {Q(0, 0, TRUE), Q(0, 1, FALSE), Q(0, 2, TRUE), Q(0, Infinity, TRUE),
         Q(0, Infinity, FALSE), Q(1, Infinity, TRUE), Q(1, 2, FALSE),
         Q(2, 2, TRUE), Q(2, Infinity, TRUE)}}

\* Atoms a quantifier may be put on: consuming, capturing, possibly empty,
\* looking around, referring back.
Atoms ==
    { <<a>>,
      In(Tok("open"), <<a>>),
      In(Tok("open"), Either(<<a>>, <<a, b>>)),
      In(Tok("open"), Either(<<a>>, <<>>)),
      In(Tok("open"), Either(In(Tok("open"), <<a>>), <<b>>)),
      In(Tok("open"), <<a, Q(0, Infinity, TRUE)>>),
      In(Tok("group"), Either(In(Tok("open"), <<a>>), <<b>>)),
      In(Tok("group"), <<Ref(1)>> \o In(Tok("open"), <<a>>)),
      In(Look(FALSE, FALSE), In(Tok("open"), <<a>>)),
      In(Look(TRUE, FALSE), In(Tok("open"), <<b>>)) }

Tails == { <<>>, <<b>>, <<Ref(1)>> }

Quantified == {x \o q \o t : x \in Atoms, q \in Quants, t \in Tails}

Behind ==
    {In(Look(FALSE, TRUE), x \o q \o t) :
        x \in Atoms, q \in {<<>>, <<Q(1, 2, FALSE)>>, <<Q(0, Infinity, TRUE)>>},
        t \in {<<b>>, <<Ref(1)>>}}
      \cup {In(Look(TRUE, TRUE), x) : x \in Atoms}

Plain == Quantified \cup Behind

---------------------------------------------------------------------------
(***************************************************************************)
(* Character classes: the text and the tree it stands for.                 *)
(***************************************************************************)
raw(c)     == [k |-> "raw", c |-> c]
set(r)     == [k |-> "set", r |-> r]
esc(c)     == [k |-> "esc", c |-> c]
bad(c)     == [k |-> "bad", c |-> c]
qs(strs)   == [k |-> "q", strs |-> strs]
prop(p, n) == [k |-> "prop", points |-> p, inv |-> n]

Minus == raw(45)
And   == <<raw(38), raw(38)>>
Sub   == <<Minus, Minus>>

Text(xs)      == <<raw(91)>> \o xs \o <<raw(93)>>
NotText(xs)   == <<raw(91), raw(94)>> \o xs \o <<raw(93)>>
Class1(x, tr) == [t |-> "class", text |-> x, tree |-> tr]
Escape(x, tr) == [t |-> "escape", item |-> x, tree |-> tr]

span(lo, hi) == [n |-> "range", lo |-> lo, hi |-> hi]
one(c)       == span(c, c)
any(r)       == [n |-> "set", r |-> r]
has(p, n)    == [n |-> "prop", points |-> p, inv |-> n]
words(strs)  == [n |-> "strs", strs |-> strs]
two(op, l, r) == [n |-> op, l |-> l, r |-> r]
non(x)       == [n |-> "not", x |-> x]
Wrong        == [n |-> "error"]
Nothing      == span(1, 0)

Upper26 == <<65, 91>>        \* \p{Lu}, of ASCII

Classes ==
    { Class1(Text(<<raw(97), Minus, raw(99)>>), span(97, 99)),
      Class1(NotText(<<raw(97), Minus, raw(99)>>), non(span(97, 99))),
      Class1(Text(<<raw(65), raw(383)>>), two("union", one(65), one(383))),
      Class1(NotText(<<raw(8490)>>), non(one(8490))),
      Class1(Text(<<raw(228), Minus, raw(246), raw(95)>>),
             two("union", span(228, 246), one(95))),
      Class1(NotText(<<set("W")>>), non(any("W"))),
      Class1(Text(<<set("W"), raw(65)>>), two("union", any("W"), one(65))),
      Class1(Text(<<>>), Nothing),
      Class1(NotText(<<>>), non(Nothing)),
      Class1(Text(<<raw(55357)>>), one(55357)),
      Class1(NotText(<<raw(55357)>>), non(one(55357))),
      Class1(Text(<<raw(65535), Minus, raw(65535)>>), one(65535)),
      Escape(set("w"), any("w")), Escape(set("W"), any("W")),
      Escape(set("S"), any("S")), Escape(esc(107), one(107)) }

\* A "-" at the end, which v mode refuses.
DashClasses == { Class1(Text(<<set("w"), Minus>>), two("union", any("w"), one(45))) }

\* Annex B: what Unicode mode refuses.
LegacyClasses ==
    { Class1(Text(<<raw(97), Minus, set("d")>>),
             two("union", two("union", one(97), one(45)), any("d"))),
      Class1(Text(<<set("d"), Minus, raw(97)>>),
             two("union", two("union", any("d"), one(45)), one(97))),
      Escape(bad(97), one(97)) }

UnicodeClasses ==
    { Class1(Text(<<raw(55357), raw(56832)>>), one(128512)),
      Class1(NotText(<<raw(97), raw(55357), raw(56832)>>),
             non(two("union", one(97), one(128512)))),
      Escape(prop(Upper26, FALSE), has(Upper26, FALSE)),
      Escape(prop(Upper26, TRUE), has(Upper26, TRUE)),
      Class1(NotText(<<prop(Upper26, TRUE)>>), non(has(Upper26, TRUE))) }

SetClasses ==
    { Class1(Text(Text(<<raw(97), Minus, raw(122)>>) \o And \o Text(<<raw(66), raw(107)>>)),
             two("inter", span(97, 122), two("union", one(66), one(107)))),
      Class1(Text(<<set("w")>> \o Sub \o <<set("d")>> \o Sub \o <<raw(75)>>),
             two("sub", two("sub", any("w"), any("d")), one(75))),
      Class1(NotText(<<set("w")>> \o Sub \o <<raw(97)>>),
             non(two("sub", any("w"), one(97)))),
      Class1(Text(<<qs(<< <<97, 98>>, <<98>>, <<>>, <<97, 98, 99>> >>)>>),
             words({<<97, 98>>, <<98>>, <<>>, <<97, 98, 99>>})),
      Class1(Text(<<qs(<< <<97, 98>>, <<66, 67>> >>)>> \o Sub \o <<qs(<< <<66, 67>> >>)>>),
             two("sub", words({<<97, 98>>, <<66, 67>>}), words({<<66, 67>>}))),
      Class1(Text(NotText(<<raw(97)>>) \o And \o <<set("w")>>),
             two("inter", non(one(97)), any("w"))) }

WrongClasses ==
    { Class1(Text(<<raw(98), Minus, raw(97)>>), Wrong),
      Class1(<<raw(91), raw(97)>>, Wrong) }

WrongUnicode ==
    { Class1(Text(<<set("d"), Minus, raw(97)>>), Wrong), Escape(bad(97), Wrong) }

WrongSets ==
    { Class1(Text(<<raw(97)>> \o And \o <<raw(38), raw(98)>>), Wrong),
      Class1(Text(<<raw(97)>> \o Sub), Wrong),
      Class1(Text(<<raw(97), raw(98)>> \o And \o <<raw(97)>>), Wrong),
      Class1(Text(<<raw(40)>>), Wrong),
      Class1(NotText(<<qs(<< <<97, 98>> >>)>>), Wrong) }

WithClass(cls) == {<<c>> : c \in cls} \cup {In(Look(FALSE, TRUE), <<c>>) : c \in cls}

---------------------------------------------------------------------------
(***************************************************************************)
(* Regular expressions with flags, and what they are matched against.      *)
(***************************************************************************)
Modify(add, rem) == [t |-> "mods", add |-> add, remove |-> rem]
named(n)         == [t |-> "named", name |-> n]
kref(n)          == [t |-> "kref", name |-> n, text |-> <<110>>]

\* Case, lines and words; modifiers; names; pairs of surrogates.
Marks ==
    { <<ch(107)>>, <<ch(115)>>, <<Tok("dot"), Tok("eol")>>, <<Tok("bol"), a>>,
      <<Tok("wordb"), Tok("dot")>>, <<Tok("nwordb")>>,
      In(Modify({"i"}, {}), <<a>>) \o <<b>>, In(Modify({}, {"i"}), <<ch(65)>>) \o <<b>>,
      In(Modify({"m", "s"}, {}), <<Tok("dot"), Tok("bol")>>),
      In(Tok("open"), <<Tok("dot")>>) \o <<Ref(1)>>,
      In(Look(FALSE, TRUE), In(Tok("open"), <<Tok("dot")>>) \o <<Tok("dot")>>),
      In(Look(FALSE, TRUE), <<Ref(1)>> \o In(Tok("open"), <<Tok("dot")>>)),
      <<kref("n")>> \o In(named("n"), <<a>>) \o <<kref("n")>>,
      In(Tok("group"), Either(In(named("n"), <<a>>), In(named("n"), <<b>>))) \o <<kref("n")>>,
      <<ch(55357), ch(56832)>>, <<ch(55357)>>, <<ch(56832)>>, <<Tok("dot"), Q(2, 2, TRUE)>> }

\* Only legacy mode reads these.
LegacyMarks == { <<Ref(7)>>, <<Tok("brace"), Q(1, 2, TRUE)>>, <<Tok("rbrace")>> }

\* \k<n> without a group of that name, ahead and in a lookbehind.
NoNames == { <<kref("n"), Q(1, 2, TRUE)>>, In(Look(FALSE, TRUE), <<a, kref("n")>>) }

Flagged(ps, fs) == {<<p, f>> : p \in ps, f \in fs}

MatchRegexps ==
    Flagged(Plain, {{}})
      \cup Flagged(Marks, {{"i"}, {"u"}, {"m", "s"}, {"v", "i", "m"}})
      \cup Flagged(LegacyMarks, {{"i"}})
      \cup Flagged(NoNames, {{"m"}})
      \cup Flagged(WithClass(Classes), {{"i"}, {"i", "v"}})
      \cup Flagged({<<c>> : c \in Classes}, {{"u"}})
      \cup Flagged(WithClass(DashClasses), {{"i"}, {"u"}})
      \cup Flagged(WithClass(LegacyClasses), {{"i"}})
      \cup Flagged(WithClass(UnicodeClasses), {{"i", "u"}, {"i", "v"}})
      \cup Flagged({<<c>> : c \in UnicodeClasses}, {{"u"}})
      \cup Flagged({<<c>> : c \in SetClasses}, {{"v"}, {"i", "v"}})

\* Every short sequence of the tokens the parser's checks are about.
SyntaxTokens ==
    { a, Tok("open"), named("n"), Look(FALSE, FALSE), Look(FALSE, TRUE),
      Tok("close"), Tok("alt"), Q(1, 2, TRUE), Q(2, 1, TRUE), Ref(1), kref("n"),
      Tok("brace"), Modify({"i"}, {"i"}) }

ShortPatterns == UNION {[1 .. n -> SyntaxTokens] : n \in 0 .. 3}

\* Two groups of one name in one alternative, beside and inside each other, and
\* in two.
TwoNames ==
    { In(named("n"), <<a>>) \o In(named("n"), <<a>>),
      In(named("n"), In(named("n"), <<a>>)),
      Either(In(named("n"), <<b>>), In(named("n"), <<a>>)) }

SyntaxRegexps ==
    Flagged(ShortPatterns, {{"y"}, {"u", "y"}})
      \cup Flagged(WithClass(WrongClasses), {{}, {"u"}, {"v"}})
      \cup Flagged({<<c>> : c \in WrongUnicode}, {{"u"}})
      \cup Flagged({<<c>> : c \in WrongSets}, {{"v"}})
      \cup Flagged(TwoNames, {{"y"}, {"u", "y"}})
      \cup {<< <<a>>, {"u", "v"}>>, <<In(Look(TRUE, FALSE), <<a>>), {"y"}>>}

\* Three groups repeated over a subject this long need more than StackMax elements.
LongSubject == 10

Nested(x)   == In(Tok("open"), x)
DeepRegexps ==
    Flagged({Nested(Nested(Nested(<<a>>))) \o <<Q(0, Infinity, TRUE)>>}, {{"s"}})

\* One group more than CAPTURE_COUNT_MAX allows in the runs.
ManyGroups == Flagged({<<Ref(3)>> \o Nested(Nested(Nested(Nested(<<a>>))))}, {{"y"}})

AllRegexps == MatchRegexps \cup SyntaxRegexps \cup DeepRegexps \cup ManyGroups

Letters == { <<>>, <<97, 97, 98>>, <<98, 97>> }

Texts == { <<65, 10>>, <<8490, 107>>, <<383, 196>>, <<55357, 56832>>,
           <<55357, 65535>>, <<97, 98, 67>> }

NameText == <<97, 107, 60, 110, 62, 62>>      \* ak<n>>

\* Plain patterns are matched against letters, sticky ones against one letter,
\* those with m against NameText, with other flags against texts, a deep one
\* against a long subject.
MCSubjectsFor(fl) ==
    LET on == {f \in DOMAIN fl : fl[f]}
    IN  CASE on = {}          -> Letters
          [] on = {"s"}       -> {[k \in 1 .. LongSubject |-> 97]}
          [] on = {"m"}       -> {NameText}
          [] "sticky" \in on -> {<<97>>}
          [] OTHER             -> Texts

---------------------------------------------------------------------------
(***************************************************************************)
(* Properties.                                                             *)
(***************************************************************************)
Returned == ret = "idle" /\ result # <<>>

\* What re_run returns for the groups want, given in code units.
Answer(want, off) ==
    LET byte(k) == IF k = -1 THEN -1 ELSE off[k]
    IN  IF want[1] = "none" THEN <<"RE_NO_MATCH">>
        ELSE <<"RE_MATCH",
               [g \in DOMAIN want[2] |->
                  <<byte(want[2][g][1]), byte(want[2][g][2])>>]>>

Agrees(p) ==
    result = Answer(Expected(p, flags, subject, UnitAt(subject, start)),
                    ByteOffsets(subject))

\* re_compile and re_run together implement ECMAScript matching: for every
\* pattern, flags, subject and offset the offsets that come back, of the match
\* and of every group, are those the language's backtracking semantics gives
\* (RegexpSemantics).  Only the long subject may exhaust the memory.
MatchesAsSpecified ==
    Returned /\ Len(subject) < LongSubject => Agrees(pattern)

\* re_compile accepts exactly the patterns of the language that have fewer than
\* CAPTURE_COUNT_MAX groups: it refuses none of them, and what it compiles is one
\* (re_parse_term, re_parse_nested_class and their early returns).
AcceptsPatterns ==
    Compiled \/ status \notin {"parsing", "compiled"} =>
        (Compiled
            <=> /\ IsPattern(pattern, flags, LAMBDA tok : tok.tree # Wrong)
                /\ GroupsBetween(pattern, 1, Len(pattern)) < CAPTURE_COUNT_MAX)

=============================================================================
