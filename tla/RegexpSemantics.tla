-------------------------- MODULE RegexpSemantics --------------------------
(***************************************************************************)
(* What a regular expression means (ECMA-262 22.2), to hold the compiled   *)
(* code against: a pattern is a tree, and matching a tree yields the       *)
(* ordered sequence of all the ways to match it; the first one counts.     *)
(* Nothing here knows of bytecode, of a stack or of case folded ahead of   *)
(* time.                                                                   *)
(*                                                                         *)
(* A class token also carries the class it denotes as a tree:              *)
(*   range lo hi, set r, prop points inv, strs, union/inter/sub l r, not x *)
(***************************************************************************)
EXTENDS RegexpText, FiniteSets, FiniteSetsExt

\* What matching depends on: the characters of the subject, the groups' names,
\* and the flags.
Env(chars, names, fl) == [chars |-> chars, names |-> names, u |-> fl.u \/ fl.v,
                          v |-> fl.v, sticky |-> fl.sticky]

---------------------------------------------------------------------------
(***************************************************************************)
(* The tree of a well-formed pattern.  A parser yields <<tree, position>>. *)
(***************************************************************************)
RECURSIVE Disjunction(_, _, _), Alternative(_, _, _)

TokenOf(p, k) == IF k \in DOMAIN p THEN p[k].t ELSE "end"

\* The groups opened among the tokens from .. to.
GroupsBetween(p, from, to) ==
    Cardinality({k \in from .. to : TokenOf(p, k) \in {"open", "named"}})

Atom(p, k, m) ==
    LET t == p[k]
        inner(m1) == Disjunction(p, k + 1, m1)
        m1 == [f \in DOMAIN m |-> (m[f] \/ f \in t.add) /\ f \notin t.remove]
    IN  CASE t.t = "group" -> <<inner(m)[1], inner(m)[2] + 1>>
          [] t.t = "mods"  -> <<inner(m1)[1], inner(m1)[2] + 1>>
          [] t.t \in {"open", "named"} ->
               <<[n |-> "capture", g |-> GroupsBetween(p, 1, k),
                  body |-> inner(m)[1]], inner(m)[2] + 1>>
          [] t.t = "look"  ->
               <<[n |-> "look", neg |-> t.neg, back |-> t.back,
                  body |-> inner(m)[1]], inner(m)[2] + 1>>
          [] OTHER -> <<[n |-> "leaf", tok |-> t, mods |-> m], k + 1>>

Term(p, k, m) ==
    LET a == Atom(p, k, m)
        q == p[a[2]]
    IN  IF TokenOf(p, a[2]) # "quant" THEN a
        ELSE <<[n |-> "repeat", body |-> a[1], min |-> q.min, max |-> q.max,
                greedy |-> q.greedy,
                groups |-> GroupsBetween(p, 1, k - 1) + 1
                             .. GroupsBetween(p, 1, a[2] - 1)],
               a[2] + 1>>

Alternative(p, k, m) ==
    IF TokenOf(p, k) \in {"alt", "close", "end"} THEN <<[n |-> "empty"], k>>
    ELSE LET t == Term(p, k, m)
             r == Alternative(p, t[2], m)
         IN  <<[n |-> "seq", l |-> t[1], r |-> r[1]], r[2]>>

Disjunction(p, k, m) ==
    LET a == Alternative(p, k, m)
        r == Disjunction(p, a[2] + 1, m)
    IN  IF TokenOf(p, a[2]) # "alt" THEN a
        ELSE <<[n |-> "alt", l |-> a[1], r |-> r[1]], r[2]>>

---------------------------------------------------------------------------
(***************************************************************************)
(* Character classes.                                                      *)
(***************************************************************************)
Canonicalize(c, i, env) == IF i THEN lre_canonicalize(c, env.u) ELSE c

WordBase == (48 .. 57) \cup (65 .. 90) \cup (97 .. 122) \cup {95}

\* WordCharacters: in Unicode mode, ignoring case, what folds to one too.
IsWordCharacter(c, i, env) ==
    c \in WordBase \/ (env.u /\ i /\ lre_canonicalize(c, TRUE) \in WordBase)

InSet(r, c, i, env) ==
    CASE r = "d" -> c \in 48 .. 57
      [] r = "D" -> c \notin 48 .. 57
      [] r = "s" -> lre_is_space(c)
      [] r = "S" -> ~lre_is_space(c)
      [] r = "w" -> IsWordCharacter(c, i, env)
      [] r = "W" -> ~IsWordCharacter(c, i, env)

\* The characters the case table tells apart, and what each of them becomes.
Cased == UNION {Entry(k).code .. Entry(k).code + Entry(k).len - 1 : k \in Entries}

FoldOfCased  == [d \in Cased |-> lre_canonicalize(d, TRUE)]
UpperOfCased == [d \in Cased |-> lre_canonicalize(d, FALSE)]

\* The characters that ignoring case cannot tell from c.
Alike(c, i, env) ==
    LET became == IF env.u THEN FoldOfCased ELSE UpperOfCased
        same   == Canonicalize(c, i, env)
    IN  IF i THEN {c, same} \cup {d \in Cased : became[d] = same} ELSE {c}

RECURSIVE Holds(_, _, _, _), Denotes(_, _, _, _), Strings(_)

\* c is in the set of characters the tree names, case aside.
Holds(x, c, i, env) ==
    CASE x.n = "range" -> c \in x.lo .. x.hi
      [] x.n = "set"   -> InSet(x.r, c, i, env)
      [] x.n = "prop"  -> InPoints(c, x.points) # x.inv
      [] x.n = "strs"  -> <<c>> \in x.strs
      [] x.n = "union" -> Holds(x.l, c, i, env) \/ Holds(x.r, c, i, env)
      [] x.n = "not"   -> ~Holds(x.x, c, i, env)

\* v mode: each leaf stands for what is alike to its characters, and the
\* operators act on those sets.
Denotes(x, c, i, env) ==
    LET some(P(_)) == \E d \in Alike(c, i, env) : P(d)
    IN  CASE x.n \in {"range", "strs"} -> some(LAMBDA d : Holds(x, d, i, env))
          [] x.n = "set"   -> Holds(x, c, i, env)
          [] x.n = "prop"  -> some(LAMBDA d : InPoints(d, x.points)) # x.inv
          [] x.n = "union" -> Denotes(x.l, c, i, env) \/ Denotes(x.r, c, i, env)
          [] x.n = "inter" -> Denotes(x.l, c, i, env) /\ Denotes(x.r, c, i, env)
          [] x.n = "sub"   -> Denotes(x.l, c, i, env) /\ ~Denotes(x.r, c, i, env)
          [] x.n = "not"   -> ~Denotes(x.x, c, i, env)

\* CharacterSetMatcher: a negated class is the negation of the match, not the
\* match of the complement.
InClass(x, c, i, env) ==
    IF env.v THEN Denotes(x, c, i, env)
    ELSE IF x.n = "not"
    THEN ~\E d \in Alike(c, i, env) : Holds(x.x, d, i, env)
    ELSE \E d \in Alike(c, i, env) : Holds(x, d, i, env)

\* The strings of a class that are not one character long.
Strings(x) ==
    CASE x.n = "strs"  -> {s \in x.strs : Len(s) # 1}
      [] x.n = "union" -> Strings(x.l) \cup Strings(x.r)
      [] x.n = "inter" -> Strings(x.l) \cap Strings(x.r)
      [] x.n = "sub"   -> Strings(x.l) \ Strings(x.r)
      [] OTHER         -> {}

---------------------------------------------------------------------------
(***************************************************************************)
(* Matching.  A result is where it ends and what the groups hold; groups   *)
(* are <<from, to>> between characters, or NoGroup.                        *)
(***************************************************************************)
NoGroup == <<-1, -1>>

State(at, caps) == [at |-> at, caps |-> caps]

\* The character that a step from at in direction back reads, and where the
\* step ends.
CanStep(at, back, env) == IF back THEN at > 0 ELSE at < Len(env.chars)
Read(at, back, env)    == env.chars[IF back THEN at ELSE at + 1]
Step(at, back)         == IF back THEN at - 1 ELSE at + 1

OneChar(x, back, env, P(_)) ==
    IF CanStep(x.at, back, env) /\ P(Read(x.at, back, env))
    THEN <<State(Step(x.at, back), x.caps)>> ELSE <<>>

\* Reading the sequence of characters str at x.
ReadString(str, x, i, back, env) ==
    LET n  == Len(str)
        lo == IF back THEN x.at - n ELSE x.at
    IN  IF /\ 0 <= lo /\ lo + n <= Len(env.chars)
           /\ \A k \in 1 .. n : Canonicalize(env.chars[lo + k], i, env)
                                  = Canonicalize(str[k], i, env)
        THEN <<State(IF back THEN lo ELSE lo + n, x.caps)>> ELSE <<>>

GroupText(g, x, env) ==
    SubSeq(env.chars, x.caps[g][1] + 1, x.caps[g][2])

LineEdge(k, env) == k \in DOMAIN env.chars /\ is_line_terminator(env.chars[k])

WordAt(k, i, env) == k \in DOMAIN env.chars /\ IsWordCharacter(env.chars[k], i, env)

Where(b, x) == IF b THEN <<x>> ELSE <<>>

\* The first group of the set that holds something is read again.
Reference(gs, x, i, back, env) ==
    LET set == {g \in gs : x.caps[g] # NoGroup}
    IN  IF set = {} THEN <<x>>
        ELSE ReadString(GroupText(Min(set), x, env), x, i, back, env)

MatchLeaf(t, m, x, back, env) ==
    LET one(P(_)) == OneChar(x, back, env, P)
        strs(long) ==
            FlattenSeq([k \in 1 .. Cardinality({s \in Strings(t.tree) : (Len(s) > 1) = long}) |->
                ReadString(SetToSortSeq({s \in Strings(t.tree) : (Len(s) > 1) = long},
                                        LAMBDA a, b : Len(a) > Len(b))[k],
                           x, m.i, back, env)])
        boundary == WordAt(x.at, m.i, env) # WordAt(x.at + 1, m.i, env)
        literal(c) == one(LAMBDA d : Canonicalize(d, m.i, env)
                                       = Canonicalize(c, m.i, env))
    IN  CASE t.t = "char"   -> literal(t.c)
          [] t.t = "dot"    -> one(LAMBDA d : m.s \/ ~is_line_terminator(d))
          [] t.t = "escape" -> one(LAMBDA d : InClass(t.tree, d, m.i, env))
          [] t.t = "class"  -> strs(TRUE)
                                 \o one(LAMBDA d : InClass(t.tree, d, m.i, env))
                                 \o strs(FALSE)
          [] t.t = "brace"  -> literal(123)
          [] t.t = "rbrace" -> literal(125)
          [] t.t = "bol"    -> Where(x.at = 0 \/ (m.m /\ LineEdge(x.at, env)), x)
          [] t.t = "eol"    -> Where((x.at = Len(env.chars))
                                       \/ (m.m /\ LineEdge(x.at + 1, env)), x)
          [] t.t = "wordb"  -> Where(boundary, x)
          [] t.t = "nwordb" -> Where(~boundary, x)
          [] t.t = "backref" ->
               IF t.n <= Len(env.names) THEN Reference({t.n}, x, m.i, back, env)
               ELSE literal(IF t.n <= 7 THEN t.n ELSE 48 + t.n)
          [] t.t = "kref"   ->
               Reference({g \in DOMAIN env.names : env.names[g] = t.name},
                         x, m.i, back, env)

RECURSIVE Match(_, _, _, _), Repeat(_, _, _, _, _, _)

\* The results of matching t after each of the results xs, in order.
After1(t, xs, back, env) ==
    FlattenSeq([k \in DOMAIN xs |-> Match(t, xs[k], back, env)])

\* RepeatMatcher: an iteration forgets the groups inside it, and one that is
\* not required must not match nothing.
Repeat(t, min, max, x, back, env) ==
    LET clean == State(x.at, [g \in DOMAIN x.caps |->
                                IF g \in t.groups THEN NoGroup ELSE x.caps[g]])
        once  == SelectSeq(Match(t.body, clean, back, env),
                           LAMBDA y : min > 0 \/ y.at # x.at)
        more  == FlattenSeq([k \in DOMAIN once |->
                    Repeat(t, IF min = 0 THEN 0 ELSE min - 1,
                           IF max = 2147483647 THEN max ELSE max - 1,
                           once[k], back, env)])
    IN  IF max = 0 THEN <<x>>
        ELSE IF min > 0 THEN more
        ELSE IF t.greedy THEN Append(more, x)
        ELSE <<x>> \o more

Match(t, x, back, env) ==
    CASE t.n = "empty"   -> <<x>>
      [] t.n = "leaf"    -> MatchLeaf(t.tok, t.mods, x, back, env)
      [] t.n = "alt"     -> Match(t.l, x, back, env) \o Match(t.r, x, back, env)
      [] t.n = "seq"     ->
           IF back THEN After1(t.l, Match(t.r, x, back, env), back, env)
           ELSE After1(t.r, Match(t.l, x, back, env), back, env)
      [] t.n = "repeat"  -> Repeat(t, t.min, t.max, x, back, env)
      [] t.n = "capture" ->
           LET ys == Match(t.body, x, back, env)
           IN  [k \in DOMAIN ys |->
                  State(ys[k].at,
                        [ys[k].caps EXCEPT ![t.g] =
                           IF back THEN <<ys[k].at, x.at>> ELSE <<x.at, ys[k].at>>])]
      [] t.n = "look"    ->
           LET ys == Match(t.body, x, t.back, env)
           IN  IF t.neg THEN Where(ys = <<>>, x)
               ELSE IF ys = <<>> THEN <<>>
               ELSE <<State(x.at, ys[1].caps)>>

---------------------------------------------------------------------------
(***************************************************************************)
(* The result for a subject given as code units, searching from the unit   *)
(* from: the groups in units, the whole match first; or "none".            *)
(***************************************************************************)
\* The subject as the characters matching sees: code points in Unicode mode.
Paired(s, k, u) ==
    u /\ k \in 1 .. Len(s) - 1 /\ is_hi_surrogate(s[k]) /\ is_lo_surrogate(s[k + 1])

\* The units at which characters start, and the end.
Starts(s, u) ==
    SelectSeq([k \in 1 .. Len(s) + 1 |-> k - 1], LAMBDA k : ~Paired(s, k, u))

Characters(s, u) ==
    LET b == Starts(s, u)
    IN  [k \in 1 .. Len(b) - 1 |->
            IF Paired(s, b[k] + 1, u)
            THEN from_surrogate(s[b[k] + 1], s[b[k] + 2]) ELSE s[b[k] + 1]]

NamesOf(p) ==
    LET g == SelectSeq(p, LAMBDA t : t.t \in {"open", "named"})
    IN  [k \in DOMAIN g |-> IF g[k].t = "named" THEN g[k].name ELSE ""]

\* Annex B: without named groups \k<name> is its characters.
WithoutNames(p, u) ==
    LET chars(t) == [k \in 1 .. Len(t) + 3 |->
                       [t |-> "char", c |-> (<<107, 60>> \o t \o <<62>>)[k]]]
    IN  IF u \/ \E k \in DOMAIN p : p[k].t = "named" THEN p
        ELSE FlattenSeq([k \in DOMAIN p |->
                 IF p[k].t = "kref" THEN chars(p[k].text) ELSE <<p[k]>>])

\* The first of the results of the first start that has any; b gives the unit
\* at which each character starts.
FirstResult(all, groups, b) ==
    LET hits == {k \in DOMAIN all : all[k] # <<>>}
        hit  == Min(hits)
        unit(k) == IF k = -1 THEN -1 ELSE b[k + 1]
    IN  IF hits = {} THEN <<"none">>
        ELSE <<"match",
               [g \in 0 .. groups |->
                  IF g = 0 THEN <<unit(hit), unit(all[hit][1].at)>>
                  ELSE <<unit(all[hit][1].caps[g][1]),
                         unit(all[hit][1].caps[g][2])>>]>>

\* The results at every start position from first on.
Search(tree, first, env) ==
    [k \in IF env.sticky THEN {first} ELSE first .. Len(env.chars) |->
        Match(tree, State(k, [g \in DOMAIN env.names |-> NoGroup]), FALSE, env)]

ExpectedIn(p, fl, from, b, env) ==
    FirstResult(
        Search(Disjunction(p, 1, [i |-> fl.i, m |-> fl.m, s |-> fl.s])[1],
               Max({k \in DOMAIN b : b[k] <= from}) - 1, env),
        Len(env.names), b)

Expected(p, fl, s, from) ==
    LET u == fl.u \/ fl.v
    IN  ExpectedIn(WithoutNames(p, u), fl, from, Starts(s, u), Env(Characters(s, u), NamesOf(p), fl))

---------------------------------------------------------------------------
(***************************************************************************)
(* Which token sequences are patterns.                                     *)
(***************************************************************************)
Openers == {"open", "named", "group", "mods", "look"}

\* How many groups are open before token k.
DepthAt(p, k) ==
    Cardinality({j \in 1 .. k - 1 : TokenOf(p, j) \in Openers})
      - Cardinality({j \in 1 .. k - 1 : TokenOf(p, j) = "close"})

Balanced(p) ==
    /\ \A k \in 1 .. Len(p) + 1 : DepthAt(p, k) >= 0
    /\ DepthAt(p, Len(p) + 1) = 0

\* The token that opens the group that token k closes.
OpenerOf(p, k) ==
    Max({j \in 1 .. k - 1 : TokenOf(p, j) \in Openers /\ DepthAt(p, j) = DepthAt(p, k) - 1})

\* A quantifier needs an atom before it.  Legacy mode accepts a lookahead.
Quantifiable(p, k, u) ==
    LET t == TokenOf(p, k)
        o == p[OpenerOf(p, k)]
    IN  \/ t \in {"char", "dot", "escape", "class", "backref", "kref"}
        \/ t \in {"brace", "rbrace"} /\ ~u
        \/ t = "close" /\ (o.t = "look" => ~u /\ ~o.back)

\* Groups in different alternatives of one disjunction may share a name.
MayShareName(p, j, k) ==
    \E a \in j + 1 .. k - 1 :
        /\ TokenOf(p, a) = "alt"
        /\ \A b \in j .. k : DepthAt(p, b) >= DepthAt(p, a)

IsPattern(p, fl, ClassOK(_)) ==
    LET u      == fl.u \/ fl.v
        groups == Cardinality({k \in DOMAIN p : p[k].t \in {"open", "named"}})
        names  == {p[k].name : k \in {j \in DOMAIN p : p[j].t = "named"}}
    IN  /\ ~(fl.u /\ fl.v)
        /\ Balanced(p)
        /\ \A k \in DOMAIN p :
              /\ p[k].t = "quant" => /\ k > 1 /\ Quantifiable(p, k - 1, u)
                                     /\ p[k].min <= p[k].max
              /\ p[k].t \in {"brace", "rbrace"} => ~u
              /\ p[k].t = "backref" => ~u \/ p[k].n <= groups
              /\ p[k].t = "kref" => p[k].name \in names \/ (~u /\ names = {})
              /\ p[k].t = "mods" => /\ p[k].add \cup p[k].remove # {}
                                    /\ p[k].add \cap p[k].remove = {}
              /\ p[k].t \in {"class", "escape"} => ClassOK(p[k])
        /\ \A j, k \in DOMAIN p :
              (j < k /\ p[j].t = "named" /\ p[k].t = "named" /\ p[j].name = p[k].name)
                => MayShareName(p, j, k)

=============================================================================
