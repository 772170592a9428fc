-------------------------- MODULE RegexpExec_proofs --------------------------
(***************************************************************************)
(* The backtracking interpreter on any code it can run: proofs about       *)
(* RegexpExec.  Its stack always divides into saved states and undo pairs, *)
(* a return to a saved state restores what was captured when it was saved, *)
(* and no register is read before it is set.                               *)
(***************************************************************************)
EXTENDS RegexpExec, FiniteSetTheorems, WellFoundedInduction, TLAPS

---------------------------------------------------------------------------
(***************************************************************************)
(* Numbers: induction, least and greatest members.                         *)
(***************************************************************************)
LEMMA LessThan == \A x, y \in Nat : y < x => <<y, x>> \in OpToRel(<, Nat)
  BY DEF OpToRel

LEMMA Ordered ==
  \E R : IsWellFoundedOn(R, Nat) /\ \A x, y \in Nat : y < x => <<y, x>> \in R
  BY LessThan, NatLessThanWellFounded, Zenon

\* Every set of numbers that is not empty has a least member.
LEMMA Least ==
  ASSUME NEW S \in SUBSET Nat, S # {}
  PROVE  \E x \in S : \A y \in S : x <= y
  <1>1. PICK R : IsWellFoundedOn(R, Nat) /\ \A x, y \in Nat : y < x => <<y, x>> \in R
        BY Ordered
  <1>2. PICK x \in S : \A y \in S : <<y, x>> \notin R
        BY <1>1, WFMin
  <1>3. \A y \in S : ~(y < x) BY <1>1, <1>2
  <1>4. \A y \in S : y \in Nat /\ x \in Nat BY <1>2
  <1>5. \A y \in S : x <= y BY <1>3, <1>4
  <1> QED BY <1>5

\* A set that holds 0 and the successors of its members holds every number.
LEMMA SetInduction ==
  ASSUME NEW T, 0 \in T, \A n \in Nat : n \in T => n + 1 \in T
  PROVE  Nat \subseteq T
  <1>1. SUFFICES ASSUME Nat \ T # {} PROVE FALSE
        OBVIOUS
  <1>2. PICK x \in Nat \ T : \A y \in Nat \ T : x <= y
        BY <1>1, Least
  <1>3. x # 0 /\ x - 1 \in Nat /\ (x - 1) + 1 = x BY <1>2
  <1>4. x - 1 \in T BY <1>2, <1>3
  <1> QED BY <1>2, <1>3, <1>4

LEMMA MinIs ==
  ASSUME NEW S \in SUBSET Nat, S # {}
  PROVE  Min(S) \in S /\ \A y \in S : Min(S) <= y
  BY Least DEF Min

\* The greatest of them, when there is a bound.
LEMMA Greatest ==
  ASSUME NEW n \in Nat, NEW S \in SUBSET (0 .. n), S # {}
  PROVE  \E x \in S : \A y \in S : y <= x
  <1> DEFINE T == {n - x : x \in S}
  <1>1. \A x \in S : n - x \in Nat /\ n - x \in T OBVIOUS
  <1>0. T \in SUBSET Nat /\ T # {} BY <1>1
  <1>2. PICK t \in T : \A y \in T : t <= y BY <1>0, Least
  <1>3. PICK x \in S : t = n - x BY <1>2
  <1>4. ASSUME NEW y \in S PROVE y <= x
    <2>1. n - y \in T /\ n - y \in Int /\ x \in Int /\ y \in Int OBVIOUS
    <2>2. n - x <= n - y BY <1>2, <1>3, <2>1
    <2> QED BY <2>1, <2>2
  <1> QED BY <1>4

LEMMA MaxIs ==
  ASSUME NEW n \in Nat, NEW S \in SUBSET (0 .. n), S # {}
  PROVE  Max(S) \in S /\ \A y \in S : y <= Max(S)
  <1>1. PICK x \in S : \A y \in S : x >= y BY Greatest
  <1>2. Max(S) \in S /\ \A y \in S : Max(S) >= y BY <1>1 DEF Max
  <1> QED BY <1>2

\* What they are, of a member known to be extreme.
LEMMA MinEq ==
  ASSUME NEW S \in SUBSET Nat, NEW x \in S, \A y \in S : x <= y
  PROVE  Min(S) = x
  <1>1. Min(S) \in S /\ \A y \in S : Min(S) <= y BY MinIs
  <1>2. Min(S) <= x /\ x <= Min(S) /\ Min(S) \in Nat /\ x \in Nat BY <1>1
  <1> QED BY <1>2

LEMMA MaxEq ==
  ASSUME NEW n \in Nat, NEW S \in SUBSET (0 .. n), NEW x \in S, \A y \in S : y <= x
  PROVE  Max(S) = x
  <1>1. Max(S) \in S /\ \A y \in S : y <= Max(S) BY MaxIs
  <1>0. S \subseteq Nat OBVIOUS
  <1>2. Max(S) \in Nat /\ x \in Nat BY <1>0, <1>1
  <1>3. Max(S) <= x /\ x <= Max(S) BY <1>1
  <1> QED BY <1>2, <1>3

---------------------------------------------------------------------------
(***************************************************************************)
(* The layout of the stack: C are the heights of the saved states and P    *)
(* the positions of the undo pairs.  Together they cover the array.        *)
(***************************************************************************)
StateRec == [bp : Nat, type : {"split", "lookahead", "negative_lookahead"}]
Elem     == Int \cup StateRec

Tiles(P, C, n) ==
    /\ P \subseteq 1 .. n /\ C \subseteq 1 .. n
    /\ \A p \in P : p + 1 <= n /\ p + 1 \notin P
    /\ \A c \in C : 1 <= c - 2
    /\ \A c, d \in C : c < d => c < d - 2
    /\ \A p \in P, c \in C : p + 1 < c - 2 \/ c < p
    /\ \A k \in 1 .. n : k \in P \/ k - 1 \in P \/ \E c \in C : k \in c - 2 .. c

\* x is the newest saved state under y, or the bottom.
Under(C, x, y) == x \in C \cup {0} /\ x < y /\ \A z \in C : z <= x \/ y <= z

Geometry(C, P, s, b) ==
    /\ s \in Seq(Elem) /\ Tiles(P, C, Len(s))
    /\ Under(C, b, Len(s) + 1)
    /\ \A h \in C : s[h] \in StateRec /\ Under(C, s[h].bp, h)

\* The recursion that finds the saved states from bp.
Descends(f, s) ==
    f = [h \in 0 .. Len(s) |->
            IF h = 0 THEN {}
            ELSE {h} \cup IF s[h].bp \in 0 .. h - 1 THEN f[s[h].bp] ELSE {}]

Descent(s) ==
    CHOOSE f : f = [h \in 0 .. Len(s) |->
            IF h = 0 THEN {}
            ELSE {h} \cup IF s[h].bp \in 0 .. h - 1 THEN f[s[h].bp] ELSE {}]

\* It has a solution, whatever the elements are: the members of every set that
\* holds h and is closed under the links.
LEMMA DescentExists ==
  ASSUME NEW s, Len(s) \in Nat
  PROVE  Descends(Descent(s), s)
  <1> DEFINE n == Len(s)
             q(h) == IF s[h].bp \in 0 .. h - 1 THEN s[h].bp ELSE 0
             Closed(S) == \A y \in S : y # 0 => q(y) \in S
             A(h) == {x \in 1 .. h : \A S \in SUBSET (0 .. n) : h \in S /\ Closed(S) => x \in S}
             f == [h \in 0 .. n |-> A(h)]
  <1>1. \A h \in 1 .. n : q(h) \in 0 .. h - 1 OBVIOUS
  <1>2. A(0) = {} OBVIOUS
  <1>3. ASSUME NEW h \in 1 .. n
        PROVE  A(h) = {h} \cup A(q(h))
    <2> HIDE DEF q
    <2>0. h \in Nat /\ h >= 1 /\ h <= n /\ q(h) \in Nat /\ q(h) < h /\ q(h) \in 0 .. n
          BY <1>1, <1>3
    <2>1. h \in A(h) BY <2>0
    <2>2. A(q(h)) \subseteq A(h)
      <3> SUFFICES ASSUME NEW x \in A(q(h)) PROVE x \in A(h) OBVIOUS
      <3>1. x \in 1 .. h BY <2>0
      <3>2. ASSUME NEW S \in SUBSET (0 .. n), h \in S, Closed(S) PROVE x \in S
        <4>1. q(h) \in S BY <2>0, <3>2
        <4> QED BY <3>2, <4>1
      <3> QED BY <3>1, <3>2
    <2>3. ASSUME NEW x \in A(h), x # h PROVE x \in A(q(h))
      <3>1. ASSUME NEW T \in SUBSET (0 .. n), q(h) \in T, Closed(T) PROVE x \in T
        <4>1. {h} \cup T \in SUBSET (0 .. n) BY <2>0
        <4>2. Closed({h} \cup T) BY <3>1
        <4>3. x \in {h} \cup T BY <2>3, <4>1, <4>2
        <4> QED BY <2>3, <4>3
      <3>2. 0 .. q(h) \in SUBSET (0 .. n) /\ q(h) \in 0 .. q(h) BY <2>0
      <3>3. Closed(0 .. q(h))
        <4> SUFFICES ASSUME NEW y \in 0 .. q(h), y # 0 PROVE q(y) \in 0 .. q(h)
            OBVIOUS
        <4>1. y \in 1 .. n /\ y <= q(h) BY <2>0
        <4>2. q(y) \in 0 .. y - 1 BY <1>1, <4>1
        <4> QED BY <2>0, <4>1, <4>2
      <3>4. x \in 0 .. q(h) /\ x \in 1 .. h BY <3>1, <3>2, <3>3
      <3>5. x \in 1 .. q(h) BY <2>0, <3>4
      <3> HIDE DEF Closed
      <3> QED BY <3>1, <3>5
    <2> HIDE DEF A
    <2> QED BY <2>1, <2>2, <2>3
  <1> HIDE DEF A
  <1>4. \A h \in 0 .. n : f[h] = A(h) OBVIOUS
  <1>5. ASSUME NEW h \in 0 .. n
        PROVE  f[h] = IF h = 0 THEN {}
                      ELSE {h} \cup IF s[h].bp \in 0 .. h - 1 THEN f[s[h].bp] ELSE {}
    <2>1. CASE h = 0 BY <1>2, <1>4, <2>1
    <2>2. CASE h # 0
      <3>1. h \in 1 .. n /\ q(h) \in 0 .. h - 1 BY <1>1, <2>2
      <3>2. f[h] = {h} \cup A(q(h)) BY <1>3, <1>4, <3>1
      <3>3. CASE s[h].bp \in 0 .. h - 1
        <4>1. q(h) = s[h].bp BY <3>3
        <4>2. s[h].bp \in 0 .. n BY <3>1, <3>3
        <4>3. f[s[h].bp] = A(q(h)) BY <1>4, <4>1, <4>2
        <4> HIDE DEF f, q
        <4> QED BY <2>2, <3>2, <3>3, <4>3
      <3>4. CASE s[h].bp \notin 0 .. h - 1
        <4>1. A(q(h)) = {} BY <1>2, <3>4
        <4> HIDE DEF f, q
        <4> QED BY <2>2, <3>2, <3>4, <4>1
      <3> QED BY <3>3, <3>4
    <2> QED BY <2>1, <2>2
  <1>6. f = [h \in 0 .. Len(s) |->
                IF h = 0 THEN {}
                ELSE {h} \cup IF s[h].bp \in 0 .. h - 1 THEN f[s[h].bp] ELSE {}]
    <2> DEFINE g == [h \in 0 .. n |->
                       IF h = 0 THEN {}
                       ELSE {h} \cup IF s[h].bp \in 0 .. h - 1 THEN f[s[h].bp] ELSE {}]
    <2>1. \A h \in 0 .. n : f[h] = g[h] BY <1>5
    <2>2. f = [h \in 0 .. n |-> f[h]] /\ g = [h \in 0 .. n |-> g[h]] OBVIOUS
    <2> HIDE DEF f, g
    <2>3. f = g BY <2>1, <2>2
    <2> QED BY <2>3 DEF g
  <1> HIDE DEF f
  <1> QED BY <1>6 DEF Descent, Descends

\* It finds C.
LEMMA DescentIs ==
  ASSUME NEW C, NEW P, NEW s, NEW b, Geometry(C, P, s, b)
  PROVE  Descent(s)[b] = C
  <1> DEFINE f == Descent(s)
             n == Len(s)
             Bad == {h \in C \cup {0} : f[h] # {x \in C : x <= h}}
  <1>0. n \in Nat /\ \A x \in C : x \in Nat /\ 1 <= x /\ x <= n
        BY DEF Geometry, Tiles
  <1>1. Descends(f, s) BY <1>0, DescentExists
  <1> HIDE DEF f
  <1>2. ASSUME NEW h \in C, s[h].bp \notin Bad PROVE h \notin Bad
    <2> DEFINE g == s[h].bp
    <2>1. g \in C \cup {0} /\ g < h /\ \A z \in C : z <= g \/ h <= z
          BY DEF Geometry, Under
    <2>2. f[g] = {x \in C : x <= g} BY <1>2, <2>1
    <2>0. h \in Nat /\ g \in Nat BY <1>0, <2>1
    <2> HIDE DEF g
    <2>3. h \in 0 .. n /\ h # 0 /\ g \in 0 .. h - 1 BY <1>0, <2>0, <2>1
    <2>4. f[h] = {h} \cup f[g]
      <3>1. f[h] = IF h = 0 THEN {}
                   ELSE {h} \cup IF g \in 0 .. h - 1 THEN f[g] ELSE {}
            BY <1>1, <2>3 DEF Descends, g
      <3> QED BY <2>3, <3>1
    <2>5. {h} \cup {x \in C : x <= g} = {x \in C : x <= h}
      <3>1. \A x \in C : x <= h <=> (x = h \/ x <= g) BY <1>0, <2>0, <2>1
      <3> QED BY <3>1
    <2> QED BY <2>2, <2>4, <2>5
  <1>3. f[0] = {x \in C : x <= 0}
    <2>1. f[0] = {} BY <1>0, <1>1 DEF Descends
    <2>2. {x \in C : x <= 0} = {} BY <1>0
    <2> QED BY <2>1, <2>2
  <1>4. Bad = {}
    <2> SUFFICES ASSUME Bad # {} PROVE FALSE OBVIOUS
    <2>1. Bad \in SUBSET Nat BY <1>0
    <2>2. PICK h \in Bad : \A y \in Bad : h <= y BY <2>1, Least
    <2>3. h \in C BY <1>3
    <2>4. s[h].bp \in C \cup {0} /\ s[h].bp < h BY <2>3 DEF Geometry, Under
    <2> DEFINE g == s[h].bp
    <2> HIDE DEF g
    <2>5. g \in Nat /\ h \in Nat /\ g < h BY <1>0, <2>3, <2>4 DEF g
    <2>6. g \notin Bad
      <3> HIDE DEF Bad
      <3> QED BY <2>2, <2>5
    <2> QED BY <1>2, <2>3, <2>6 DEF g
  <1>5. b \in C \cup {0} /\ \A z \in C : z <= b
    <2>1. b \in C \cup {0} /\ \A z \in C : z <= b \/ n + 1 <= z BY DEF Geometry, Under
    <2> QED BY <1>0, <2>1
  <1>6. f[b] = {x \in C : x <= b} BY <1>4, <1>5
  <1> QED BY <1>5, <1>6 DEF f

---------------------------------------------------------------------------
(***************************************************************************)
(* The undo pairs as RegexpExec finds them, by counting from a saved       *)
(* state, are those of P.                                                  *)
(***************************************************************************)
TopIn(C, n, g) ==
    LET above == {h \in C : h > g}
    IN  IF above = {} THEN n ELSE Min(above) - 3

PairsIn(C, n, g) == {k \in g + 1 .. TopIn(C, n, g) : (k - g) % 2 = 1}

\* The region above g holds no state, and ends under the next one.
LEMMA RegionIs ==
  ASSUME NEW n \in Nat, NEW P, NEW C, Tiles(P, C, n), NEW g \in C \cup {0}
  PROVE  /\ TopIn(C, n, g) \in g .. n
         /\ \A c \in C : c <= g \/ TopIn(C, n, g) < c - 2
         /\ TopIn(C, n, g) \notin P /\ g \notin P
  <1> DEFINE above == {h \in C : h > g}
             t == TopIn(C, n, g)
  <1>1. /\ \A c \in C : c \in Nat /\ 1 <= c - 2 /\ c <= n
        /\ \A p \in P : p \in Nat /\ 1 <= p /\ p + 1 <= n
        /\ \A c, d \in C : c < d => c < d - 2
        /\ \A p \in P, c \in C : p + 1 < c - 2 \/ c < p
        BY DEF Tiles
  <1>2. g \in Nat /\ g <= n /\ g \notin P
    <2>1. CASE g = 0 BY <1>1, <2>1
    <2>2. CASE g \in C BY <1>1, <2>2
    <2> QED BY <2>1, <2>2
  <1>3. CASE above = {}
    <2>1. t = n BY <1>3 DEF TopIn
    <2>2. \A c \in C : c <= g BY <1>1, <1>2, <1>3
    <2>3. n \notin P BY <1>1
    <2> QED BY <1>2, <2>1, <2>2, <2>3
  <1>4. CASE above # {}
    <2>1. above \in SUBSET Nat BY <1>1
    <2>2. PICK y \in above : \A x \in above : y <= x BY <1>4, <2>1, Least
    <2>3. Min(above) = y BY <2>1, <2>2, MinEq
    <2>4. t = y - 3 BY <1>4, <2>3 DEF TopIn
    <2>5. y \in C /\ y > g /\ y \in Nat BY <1>1, <2>2
    <2>6. g <= y - 3 /\ y - 3 <= n /\ y - 3 \in Int
      <3>1. CASE g = 0 BY <1>1, <2>5, <3>1
      <3>2. CASE g \in C BY <1>1, <2>5, <3>2
      <3> QED BY <3>1, <3>2
    <2>7. \A c \in C : c <= g \/ y <= c BY <1>1, <1>2, <2>2, <2>5
    <2>8. \A c \in C : c <= g \/ y - 3 < c - 2
      <3> SUFFICES ASSUME NEW c \in C, ~(c <= g) PROVE y - 3 < c - 2 OBVIOUS
      <3>1. y <= c /\ c \in Nat BY <1>1, <2>7
      <3> QED BY <2>5, <3>1
    <2>9. y - 3 \notin P
      <3> SUFFICES ASSUME y - 3 \in P PROVE FALSE OBVIOUS
      <3>1. (y - 3) + 1 < y - 2 \/ y < y - 3 BY <1>1, <2>5
      <3> QED BY <2>5, <3>1
    <2> QED BY <1>2, <2>4, <2>6, <2>8, <2>9
  <1> QED BY <1>3, <1>4

LEMMA PairsAre ==
  ASSUME NEW n \in Nat, NEW P, NEW C, Tiles(P, C, n), NEW g \in C \cup {0}
  PROVE  /\ PairsIn(C, n, g) = {p \in P : g < p /\ p <= TopIn(C, n, g)}
         /\ (TopIn(C, n, g) - g) % 2 = 0
  <1> DEFINE t == TopIn(C, n, g)
             T == {d \in Nat : g + d <= t => (g + d \in P <=> d % 2 = 1)}
  <1>1. t \in g .. n /\ t \notin P /\ g \notin P /\ \A c \in C : c <= g \/ t < c - 2
        BY RegionIs
  <1>2. /\ \A p \in P : p \in Nat /\ 1 <= p /\ p + 1 <= n /\ p + 1 \notin P
        /\ \A c \in C : c \in Nat
        /\ \A k \in 1 .. n : k \in P \/ k - 1 \in P \/ \E c \in C : k \in c - 2 .. c
        BY DEF Tiles
  <1>3. g \in Nat /\ t \in Nat /\ t <= n /\ g <= t
    <2>1. g \in Nat BY <1>2
    <2> QED BY <1>1, <2>1
  <1> HIDE DEF t
  <1>4. 0 \in T
    <2>1. g + 0 = g BY <1>3
    <2> QED BY <1>1, <2>1
  <1>5. ASSUME NEW d \in Nat, d \in T PROVE d + 1 \in T
    <2> SUFFICES ASSUME g + (d + 1) <= t
                 PROVE  g + (d + 1) \in P <=> (d + 1) % 2 = 1
        OBVIOUS
    <2> DEFINE k == g + d
    <2>1. k \in Nat /\ g + (d + 1) = k + 1 /\ k + 1 \in 1 .. n /\ k + 1 <= t /\ g < k + 1
          BY <1>3
    <2>0. g + d <= t BY <1>3
    <2>2. k \in P <=> d % 2 = 1 BY <1>5, <2>0
    <2>3. (d + 1) % 2 = 1 <=> ~(d % 2 = 1) OBVIOUS
    <2>4. k + 1 \in P \/ (k + 1) - 1 \in P \/ \E c \in C : k + 1 \in c - 2 .. c
          BY <1>2, <2>1
    <2>5. ASSUME NEW c \in C, k + 1 \in c - 2 .. c PROVE FALSE
      <3>1. c \in Nat /\ (c <= g \/ t < c - 2) BY <1>1, <1>2
      <3> HIDE DEF k
      <3> QED BY <1>3, <2>1, <2>5, <3>1
    <2>6. (k + 1) - 1 = k BY <2>1
    <2> HIDE DEF k
    <2>7. k + 1 \in P \/ k \in P BY <2>4, <2>5, <2>6
    <2>8. k \in P => k + 1 \notin P BY <1>2
    <2> QED BY <2>1, <2>2, <2>3, <2>7, <2>8
  <1>6. Nat \subseteq T
    <2> HIDE DEF T
    <2> QED BY <1>4, <1>5, SetInduction
  <1>7. \A k \in g .. t : k \in P <=> (k - g) % 2 = 1
    <2> SUFFICES ASSUME NEW k \in g .. t PROVE k \in P <=> (k - g) % 2 = 1 OBVIOUS
    <2>1. k - g \in Nat /\ g + (k - g) = k /\ k <= t BY <1>3
    <2>2. k - g \in T BY <1>6, <2>1
    <2>3. g + (k - g) <= t => (g + (k - g) \in P <=> (k - g) % 2 = 1) BY <2>2
    <2> QED BY <2>1, <2>3
  <1>8. (t - g) % 2 = 0
    <2>1. t \in g .. t /\ t - g \in Nat BY <1>3
    <2>2. (t - g) % 2 # 1 BY <1>1, <1>7, <2>1 DEF t
    <2>3. \A d \in Nat : d % 2 # 1 => d % 2 = 0 OBVIOUS
    <2> QED BY <2>1, <2>2, <2>3
  <1>9. {k \in g + 1 .. t : (k - g) % 2 = 1} = {p \in P : g < p /\ p <= t}
    <2>1. ASSUME NEW k \in g + 1 .. t, (k - g) % 2 = 1 PROVE k \in P /\ g < k /\ k <= t
      <3>1. k \in g .. t BY <1>3
      <3> QED BY <1>3, <1>7, <2>1, <3>1
    <2>2. ASSUME NEW p \in P, g < p, p <= t PROVE p \in g + 1 .. t /\ (p - g) % 2 = 1
      <3>1. p \in Nat BY <1>2
      <3>2. p \in g .. t /\ p \in g + 1 .. t BY <1>3, <2>2, <3>1
      <3> QED BY <1>7, <2>2, <3>2
    <2> QED BY <2>1, <2>2
  <1> QED BY <1>8, <1>9 DEF PairsIn, t

\* capture[] after the writes above height h are undone.
UndoneIn(C, s, cap, h) ==
    LET pairs == UNION {PairsIn(C, Len(s), g) : g \in {x \in C : x >= h}}
    IN  [i \in DOMAIN cap |->
            LET saved == {k \in pairs : s[k] = i}
            IN  IF saved = {} THEN cap[i] ELSE s[Min(saved) + 1]]

Undone(P, s, cap, h) ==
    [i \in DOMAIN cap |->
        LET saved == {k \in P : k > h /\ s[k] = i}
        IN  IF saved = {} THEN cap[i] ELSE s[Min(saved) + 1]]

\* The pairs above h are those of the regions from h up.
LEMMA PairsAbove ==
  ASSUME NEW n \in Nat, NEW P, NEW C, Tiles(P, C, n), NEW h \in C
  PROVE  UNION {PairsIn(C, n, g) : g \in {x \in C : x >= h}} = {k \in P : k > h}
  <1> DEFINE U == UNION {PairsIn(C, n, g) : g \in {x \in C : x >= h}}
  <1>1. /\ \A c \in C : c \in Nat /\ c <= n
        /\ \A p \in P : p \in Nat /\ p <= n
        /\ \A p \in P, c \in C : p + 1 < c - 2 \/ c < p
        BY DEF Tiles
  <1>2. ASSUME NEW k \in U PROVE k \in P /\ k > h
    <2>1. PICK g \in C : g >= h /\ k \in PairsIn(C, n, g) OBVIOUS
    <2>2. k \in P /\ g < k BY <2>1, PairsAre
    <2> QED BY <1>1, <2>1, <2>2
  <1>3. ASSUME NEW k \in P, k > h PROVE k \in U
    <2> DEFINE G == {x \in C : x < k}
    <2>1. G \in SUBSET (0 .. n) /\ h \in G BY <1>1, <1>3
    <2>2. PICK g \in G : \A x \in G : x <= g BY <2>1, Greatest
    <2>3. g \in C /\ g < k /\ g >= h BY <1>1, <2>1, <2>2
    <2>4. k <= TopIn(C, n, g)
      <3> DEFINE t == TopIn(C, n, g)
                 above == {x \in C : x > g}
      <3>1. CASE above = {} BY <1>1, <3>1 DEF TopIn
      <3>2. CASE above # {}
        <4>1. above \in SUBSET Nat BY <1>1
        <4>2. PICK y \in above : \A x \in above : y <= x BY <3>2, <4>1, Least
        <4>3. Min(above) = y BY <4>1, <4>2, MinEq
        <4>4. t = y - 3 BY <3>2, <4>3 DEF TopIn
        <4>5. y \in C /\ y > g BY <4>2
        <4>6. ~(y < k) BY <1>1, <2>2, <4>5
        <4>7. k + 1 < y - 2 BY <1>1, <4>5, <4>6
        <4> QED BY <1>1, <4>4, <4>5, <4>7
      <3> QED BY <3>1, <3>2
    <2>5. k \in PairsIn(C, n, g) BY <2>3, <2>4, PairsAre
    <2> QED BY <2>3, <2>5
  <1> HIDE DEF U
  <1>4. U = {k \in P : k > h} BY <1>2, <1>3
  <1> QED BY <1>4 DEF U

LEMMA UndoneIs ==
  ASSUME NEW P, NEW C, NEW s, NEW cap, Len(s) \in Nat, Tiles(P, C, Len(s)), NEW h \in C
  PROVE  UndoneIn(C, s, cap, h) = Undone(P, s, cap, h)
  <1>1. UNION {PairsIn(C, Len(s), g) : g \in {x \in C : x >= h}} = {k \in P : k > h}
        BY PairsAbove
  <1>2. \A i : {k \in {p \in P : p > h} : s[k] = i} = {k \in P : k > h /\ s[k] = i}
        OBVIOUS
  <1> QED BY <1>1, <1>2 DEF UndoneIn, Undone

---------------------------------------------------------------------------
(***************************************************************************)
(* The inductive invariant, over explicit values: c, cc and rc are the     *)
(* code and its counts, n the length of the subject, s, b and cap the      *)
(* stack, bp and capture, and A the lookarounds the next instruction lies  *)
(* in.                                                                     *)
(***************************************************************************)
Slots(cc, rc) == 0 .. 2 * cc + rc - 1

\* What slot i may hold.
Fit(cc, n, i, v) == v \in Int /\ (i < 2 * cc => v \in {Null} \cup 0 .. n)

CaptureFits(cc, rc, n, cap) ==
    /\ cap = [i \in Slots(cc, rc) |-> cap[i]]
    /\ \A i \in Slots(cc, rc) : Fit(cc, n, i, cap[i])

PairsFit(cc, rc, n, P, s) ==
    \A p \in P : s[p] \in Slots(cc, rc) /\ Fit(cc, n, s[p], s[p + 1])

StatesFit(c, n, C, s) ==
    \A h \in C : s[h - 2] \in InsStarts(c) /\ s[h - 1] \in 0 .. n

\* Register x is set, and a counter has rounds left.
Stored(cc, cap, x) ==
    /\ x[1] \in Nat /\ 2 * cc + x[1] \in DOMAIN cap
    /\ cap[2 * cc + x[1]] \in Nat
    /\ x[2] = "set_i32" => cap[2 * cc + x[1]] # 0

AllStored(cc, cap, live) == \A x \in live : Stored(cc, cap, x)

\* A return to a saved state finds the registers set that are live there.
ReturnsStored(c, cc, C, P, s, cap) ==
    \A h \in C : AllStored(cc, Undone(P, s, cap, h), LiveRegs(c, s[h - 2]))

\* Where the lookarounds inside are open, the newest state saved is rec, which
\* resumes at p: a choice made in them, or the beginning of the innermost.
Nested(c, inside, rec, p) ==
    IF rec.type = "split" THEN Enclosing(c, p) = inside
    ELSE /\ inside # {}
         /\ c[Max(inside) + 1].op = rec.type
         /\ p = TargetOf(c, Max(inside))
         /\ Enclosing(c, p) = inside \ {Max(inside)}

Nests(c, s, inside, g) ==
    IF g = 0 THEN inside = {} ELSE Nested(c, inside, s[g], s[g - 2])

AllNest(c, C, s, b, A) ==
    /\ Nests(c, s, A, b)
    /\ \A h \in C : Nests(c, s, Enclosing(c, s[h - 2]), s[h].bp)

StackInv(c, cc, rc, n, C, P, s, b, cap, A) ==
    /\ Geometry(C, P, s, b)
    /\ CaptureFits(cc, rc, n, cap)
    /\ PairsFit(cc, rc, n, P, s)
    /\ StatesFit(c, n, C, s)
    /\ ReturnsStored(c, cc, C, P, s, cap)
    /\ AllNest(c, C, s, b, A)

IInv ==
    /\ Len(code) \in Nat /\ Runnable(code, capture_count, register_count)
    /\ capture_count \in Nat /\ register_count \in Nat
    /\ subject \in Seq(Nat)
    /\ ret = "running" =>
          /\ pc \in InsStarts(code)
          /\ cptr \in 0 .. Len(subject)
          /\ stack_size \in Nat /\ Len(stack) <= stack_size
          /\ AllStored(capture_count, capture, LiveRegs(code, pc))
          /\ \E C, P : StackInv(code, capture_count, register_count, Len(subject), C, P,
                                stack, bp, capture, Enclosing(code, pc))

---------------------------------------------------------------------------
(***************************************************************************)
(* The value a return restores, as a relation.                             *)
(***************************************************************************)
Oldest(P, s, cap, h, i, v) ==
    \/ \E k \in P : /\ k > h /\ s[k] = i /\ s[k + 1] = v
                    /\ \A j \in P : j > h /\ s[j] = i => k <= j
    \/ (\A k \in P : k > h => s[k] # i) /\ v = cap[i]

LEMMA UndoneHas ==
  ASSUME NEW P, P \subseteq Nat, NEW s, NEW cap, NEW h, NEW i \in DOMAIN cap
  PROVE  Oldest(P, s, cap, h, i, Undone(P, s, cap, h)[i])
  <1> DEFINE saved == {k \in P : k > h /\ s[k] = i}
             v == Undone(P, s, cap, h)[i]
  <1>1. v = IF saved = {} THEN cap[i] ELSE s[Min(saved) + 1] BY DEF Undone
  <1>2. CASE saved = {}
    <2>1. v = cap[i] BY <1>1, <1>2
    <2>2. \A k \in P : k > h => s[k] # i BY <1>2
    <2> QED BY <2>1, <2>2 DEF Oldest
  <1>3. CASE saved # {}
    <2>1. saved \in SUBSET Nat OBVIOUS
    <2>2. Min(saved) \in saved /\ \A y \in saved : Min(saved) <= y BY <1>3, <2>1, MinIs
    <2> DEFINE k == Min(saved)
    <2>3. v = s[k + 1] BY <1>1, <1>3
    <2>4. k \in P /\ k > h /\ s[k] = i BY <2>2
    <2>5. \A j \in P : j > h /\ s[j] = i => k <= j BY <2>2
    <2> HIDE DEF k, v
    <2> QED BY <2>3, <2>4, <2>5 DEF Oldest, v
  <1> QED BY <1>2, <1>3

LEMMA UndoneValue ==
  ASSUME NEW P, P \subseteq Nat, NEW s, NEW cap, NEW h, NEW i \in DOMAIN cap, NEW v,
         Oldest(P, s, cap, h, i, v)
  PROVE  Undone(P, s, cap, h)[i] = v
  <1> DEFINE saved == {k \in P : k > h /\ s[k] = i}
  <1>1. Undone(P, s, cap, h)[i] = IF saved = {} THEN cap[i] ELSE s[Min(saved) + 1]
        BY DEF Undone
  <1>2. CASE (\A k \in P : k > h => s[k] # i) /\ v = cap[i]
    <2>1. saved = {} BY <1>2
    <2> QED BY <1>1, <1>2, <2>1
  <1>3. ASSUME NEW k \in P, k > h, s[k] = i, s[k + 1] = v,
               \A j \in P : j > h /\ s[j] = i => k <= j
        PROVE  Undone(P, s, cap, h)[i] = v
    <2>1. saved \in SUBSET Nat /\ k \in saved /\ \A j \in saved : k <= j BY <1>3
    <2>2. Min(saved) = k BY <2>1, MinEq
    <2> QED BY <1>1, <1>3, <2>1, <2>2
  <1> QED BY <1>2, <1>3 DEF Oldest

\* Two stacks restore the same when the one restores what the other did.
Follows(P, s, cap, P2, s2, cap2, h) ==
    /\ \A p \in P : p \in Nat
    /\ \A p \in P2 : p \in Nat
    /\ DOMAIN cap2 = DOMAIN cap
    /\ \A i \in DOMAIN cap : \A v :
          Oldest(P, s, cap, h, i, v) => Oldest(P2, s2, cap2, h, i, v)

LEMMA UndoneSame ==
  ASSUME NEW P, NEW s, NEW cap, NEW h, NEW P2, NEW s2, NEW cap2,
         Follows(P, s, cap, P2, s2, cap2, h)
  PROVE  Undone(P2, s2, cap2, h) = Undone(P, s, cap, h)
  <1> DEFINE f == Undone(P, s, cap, h)
             g == Undone(P2, s2, cap2, h)
  <1>0. /\ P \subseteq Nat /\ P2 \subseteq Nat /\ DOMAIN cap2 = DOMAIN cap
        /\ \A i \in DOMAIN cap : \A v :
              Oldest(P, s, cap, h, i, v) => Oldest(P2, s2, cap2, h, i, v)
        BY DEF Follows
  <1>1. f = [i \in DOMAIN cap |-> f[i]] /\ g = [i \in DOMAIN cap |-> g[i]]
        BY <1>0 DEF Undone
  <1>2. ASSUME NEW i \in DOMAIN cap PROVE g[i] = f[i]
    <2>0. \E v : v = f[i] OBVIOUS
    <2>1. PICK v : v = f[i] BY <2>0
    <2>2. Oldest(P, s, cap, h, i, v) BY <1>0, <2>1, UndoneHas
    <2>3. Oldest(P2, s2, cap2, h, i, v) /\ i \in DOMAIN cap2 BY <1>0, <2>2
    <2>4. g[i] = v
      <3> HIDE DEF f
      <3> QED BY <1>0, <2>3, UndoneValue
    <2> QED BY <2>1, <2>4
  <1> HIDE DEF f, g
  <1>3. f = g BY <1>1, <1>2
  <1> QED BY <1>3 DEF f, g

\* And what is restored fits.
LEMMA UndoneFits ==
  ASSUME NEW cc \in Nat, NEW rc \in Nat, NEW n \in Nat, NEW P, P \subseteq Nat, NEW s,
         NEW cap, NEW h, CaptureFits(cc, rc, n, cap), PairsFit(cc, rc, n, P, s)
  PROVE  CaptureFits(cc, rc, n, Undone(P, s, cap, h))
  <1> DEFINE f == Undone(P, s, cap, h)
  <1>1. DOMAIN cap = Slots(cc, rc) BY DEF CaptureFits
  <1>2. f = [i \in Slots(cc, rc) |-> f[i]] BY <1>1 DEF Undone
  <1>3. ASSUME NEW i \in Slots(cc, rc) PROVE Fit(cc, n, i, f[i])
    <2>1. Oldest(P, s, cap, h, i, f[i]) BY <1>1, UndoneHas
    <2> HIDE DEF f
    <2>2. \/ f[i] = cap[i]
          \/ \E k \in P : s[k] = i /\ s[k + 1] = f[i]
          BY <2>1 DEF Oldest
    <2> QED BY <2>2 DEF CaptureFits, PairsFit
  <1> QED BY <1>2, <1>3 DEF CaptureFits


---------------------------------------------------------------------------
(***************************************************************************)
(* What the interpreter does to the stack keeps the invariant, and what a  *)
(* return to a state that stays saved restores.                            *)
(***************************************************************************)
Keeps(C, P, s, cap, C2, P2, s2, cap2) ==
    \A h \in C \cap C2 : Undone(P2, s2, cap2, h) = Undone(P, s, cap, h)

\* Where things are on a stack that tiles.
LEMMA Places ==
  ASSUME NEW C, NEW P, NEW s, NEW b, Geometry(C, P, s, b)
  PROVE  /\ s \in Seq(Elem) /\ Len(s) \in Nat
         /\ \A p \in P : p \in Nat /\ 1 <= p /\ p + 1 <= Len(s) /\ p + 1 \notin P
         /\ \A h \in C : h \in Nat /\ 3 <= h /\ h <= Len(s) /\ h - 2 \in Nat /\ h - 1 \in Nat
         /\ \A g, h \in C : g < h => g < h - 2
         /\ \A p \in P, h \in C : p + 1 < h - 2 \/ h < p
         /\ \A h \in C : s[h] \in StateRec /\ s[h].bp \in C \cup {0} /\ s[h].bp < h
         /\ b \in C \cup {0} /\ b \in Nat /\ b <= Len(s)
         /\ \A h \in C : h <= b
  <1>1. s \in Seq(Elem) /\ Len(s) \in Nat BY DEF Geometry
  <1>2. /\ \A p \in P : p \in Nat /\ 1 <= p /\ p + 1 <= Len(s) /\ p + 1 \notin P
        /\ \A h \in C : h \in Nat /\ 1 <= h - 2 /\ h <= Len(s)
        BY <1>1 DEF Geometry, Tiles
  <1>3. \A h \in C : h \in Nat /\ 3 <= h /\ h <= Len(s) /\ h - 2 \in Nat /\ h - 1 \in Nat
        BY <1>2
  <1>4. /\ \A g, h \in C : g < h => g < h - 2
        /\ \A p \in P, h \in C : p + 1 < h - 2 \/ h < p
        BY DEF Geometry, Tiles
  <1>5. \A h \in C : s[h] \in StateRec /\ s[h].bp \in C \cup {0} /\ s[h].bp < h
        BY DEF Geometry, Under
  <1>6. b \in C \cup {0} /\ \A h \in C : h <= b \/ Len(s) + 1 <= h
        BY DEF Geometry, Under
  <1>7. \A h \in C : h <= b BY <1>1, <1>3, <1>6
  <1>8. b \in Nat /\ b <= Len(s) BY <1>1, <1>3, <1>6
  <1> QED BY <1>1, <1>2, <1>3, <1>4, <1>5, <1>6, <1>7, <1>8

\* The states that are left keep their places.
LEMMA StatesKept ==
  ASSUME NEW c, NEW n, NEW C, NEW s, NEW C2, NEW s2,
         C2 \subseteq C,
         \A h \in C2 : s2[h] = s[h] /\ s2[h - 1] = s[h - 1] /\ s2[h - 2] = s[h - 2],
         \A h \in C2 : s[h].bp \in C2 \cup {0},
         StatesFit(c, n, C, s),
         \A h \in C : Nests(c, s, Enclosing(c, s[h - 2]), s[h].bp)
  PROVE  /\ StatesFit(c, n, C2, s2)
         /\ \A h \in C2 : Nests(c, s2, Enclosing(c, s2[h - 2]), s2[h].bp)
         /\ \A A, g : g \in C2 \cup {0} /\ Nests(c, s, A, g) => Nests(c, s2, A, g)
  <1>1. StatesFit(c, n, C2, s2) BY DEF StatesFit
  <1>2. \A A, g : g \in C2 \cup {0} /\ Nests(c, s, A, g) => Nests(c, s2, A, g)
        BY DEF Nests
  <1>3. ASSUME NEW h \in C2 PROVE Nests(c, s2, Enclosing(c, s2[h - 2]), s2[h].bp)
    <2>1. Nests(c, s, Enclosing(c, s2[h - 2]), s2[h].bp) /\ s2[h].bp \in C2 \cup {0}
          OBVIOUS
    <2> QED BY <1>2, <2>1
  <1> QED BY <1>1, <1>2, <1>3

\* They return to what they did before.
LEMMA ReturnsKept ==
  ASSUME NEW c, NEW cc, NEW C, NEW P, NEW s, NEW cap, NEW C2, NEW P2, NEW s2, NEW cap2,
         C2 \subseteq C,
         \A h \in C2 : s2[h - 2] = s[h - 2],
         ReturnsStored(c, cc, C, P, s, cap),
         Keeps(C, P, s, cap, C2, P2, s2, cap2)
  PROVE  ReturnsStored(c, cc, C2, P2, s2, cap2)
  <1> SUFFICES ASSUME NEW h \in C2
               PROVE  AllStored(cc, Undone(P2, s2, cap2, h), LiveRegs(c, s2[h - 2]))
      BY DEF ReturnsStored
  <1>1. Undone(P2, s2, cap2, h) = Undone(P, s, cap, h) /\ s2[h - 2] = s[h - 2] BY DEF Keeps
  <1>2. AllStored(cc, Undone(P, s, cap, h), LiveRegs(c, s[h - 2])) BY DEF ReturnsStored
  <1> QED BY <1>1, <1>2

\* A write to a slot, with the pair that undoes it.
LEMMA PushPair ==
  ASSUME NEW c, NEW cc \in Nat, NEW rc \in Nat, NEW n \in Nat,
         NEW C, NEW P, NEW s, NEW b, NEW cap, NEW A,
         StackInv(c, cc, rc, n, C, P, s, b, cap, A),
         NEW i \in Slots(cc, rc), NEW v, Fit(cc, n, i, v)
  PROVE  LET s2   == s \o <<i, cap[i]>>
             P2   == P \cup {Len(s) + 1}
             cap2 == [cap EXCEPT ![i] = v]
         IN  /\ StackInv(c, cc, rc, n, C, P2, s2, b, cap2, A)
             /\ Keeps(C, P, s, cap, C, P2, s2, cap2)
  <1> DEFINE s2   == s \o <<i, cap[i]>>
             P2   == P \cup {Len(s) + 1}
             cap2 == [cap EXCEPT ![i] = v]
             l    == Len(s)
  <1>1. /\ Geometry(C, P, s, b) /\ CaptureFits(cc, rc, n, cap) /\ PairsFit(cc, rc, n, P, s)
        /\ StatesFit(c, n, C, s) /\ ReturnsStored(c, cc, C, P, s, cap)
        /\ AllNest(c, C, s, b, A)
        BY DEF StackInv
  <1>2. /\ s \in Seq(Elem) /\ Len(s) \in Nat
        /\ \A p \in P : p \in Nat /\ 1 <= p /\ p + 1 <= Len(s) /\ p + 1 \notin P
        /\ \A h \in C : h \in Nat /\ 3 <= h /\ h <= Len(s) /\ h - 2 \in Nat /\ h - 1 \in Nat
        /\ \A h \in C : s[h] \in StateRec /\ s[h].bp \in C \cup {0} /\ s[h].bp < h
        /\ b \in C \cup {0} /\ b \in Nat /\ b <= Len(s) /\ \A h \in C : h <= b
        BY <1>1, Places
  <1>3. i \in Nat /\ i \in Int /\ cap[i] \in Int /\ i \in DOMAIN cap
        BY <1>1 DEF CaptureFits, Slots, Fit
  <1>4. /\ s2 \in Seq(Elem) /\ Len(s2) = l + 2
        /\ \A k \in 1 .. l : s2[k] = s[k]
        /\ s2[l + 1] = i /\ s2[l + 2] = cap[i]
    <2>1. <<i, cap[i]>> \in Seq(Elem) BY <1>3 DEF Elem
    <2> QED BY <1>2, <2>1
  <1>5. DOMAIN cap2 = DOMAIN cap /\ cap2[i] = v /\ \A j \in DOMAIN cap : j # i => cap2[j] = cap[j]
        BY <1>3
  <1>6. /\ l \in Nat /\ P2 = P \cup {l + 1}
        /\ \A p \in P : p \in Nat /\ 1 <= p /\ p + 1 <= l /\ p + 1 \notin P
        /\ \A h \in C : h \in Nat /\ 3 <= h /\ h <= l /\ h - 2 \in Nat /\ h - 1 \in Nat
        /\ b \in Nat /\ b <= l /\ \A h \in C : h <= b
        BY <1>2
  <1> HIDE DEF s2, P2, cap2, l
  <1>7. /\ \A h \in C : s2[h] = s[h] /\ s2[h - 1] = s[h - 1] /\ s2[h - 2] = s[h - 2]
        /\ \A p \in P : s2[p] = s[p] /\ s2[p + 1] = s[p + 1]
    <2>1. \A h \in C : h \in 1 .. l /\ h - 1 \in 1 .. l /\ h - 2 \in 1 .. l BY <1>6
    <2>2. \A p \in P : p \in 1 .. l /\ p + 1 \in 1 .. l BY <1>6
    <2> QED BY <1>4, <2>1, <2>2
  <1>8. Geometry(C, P2, s2, b)
    <2>1. Tiles(P2, C, l + 2)
      <3>1. P2 \subseteq 1 .. l + 2 /\ C \subseteq 1 .. l + 2
        <4>1. \A p \in P : p \in 1 .. l + 2 BY <1>6
        <4>2. \A h \in C : h \in 1 .. l + 2 BY <1>6
        <4> QED BY <1>6, <4>1, <4>2
      <3>2. \A p \in P2 : p + 1 <= l + 2 /\ p + 1 \notin P2 BY <1>6
      <3>3. \A h \in C : 1 <= h - 2 BY <1>2
      <3>4. \A g, h \in C : g < h => g < h - 2 BY <1>1 DEF Geometry, Tiles
      <3>5. \A p \in P2, h \in C : p + 1 < h - 2 \/ h < p
        <4>1. \A p \in P, h \in C : p + 1 < h - 2 \/ h < p BY <1>1 DEF Geometry, Tiles
        <4>2. \A h \in C : h < l + 1 BY <1>6
        <4> QED BY <1>6, <4>1, <4>2
      <3>6. ASSUME NEW k \in 1 .. l + 2
            PROVE  k \in P2 \/ k - 1 \in P2 \/ \E h \in C : k \in h - 2 .. h
        <4>1. CASE k \in 1 .. l
          <5>1. k \in P \/ k - 1 \in P \/ \E h \in C : k \in h - 2 .. h
                BY <1>1, <4>1 DEF Geometry, Tiles, l
          <5> QED BY <1>6, <5>1
        <4>2. CASE k = l + 1 BY <1>6, <4>2
        <4>3. CASE k = l + 2 BY <1>6, <4>3
        <4> QED BY <1>6, <4>1, <4>2, <4>3
      <3> QED BY <3>1, <3>2, <3>3, <3>4, <3>5, <3>6 DEF Tiles
    <2>2. Under(C, b, Len(s2) + 1)
      <3>1. Len(s2) = l + 2 /\ b <= l /\ l \in Nat BY <1>4, <1>6
      <3>2. b < Len(s2) + 1 BY <1>2, <3>1
      <3> QED BY <1>2, <3>2 DEF Under
    <2>3. \A h \in C : s2[h] \in StateRec /\ Under(C, s2[h].bp, h)
          BY <1>1, <1>7 DEF Geometry
    <2> QED BY <1>4, <2>1, <2>2, <2>3 DEF Geometry
  <1>9. CaptureFits(cc, rc, n, cap2)
    <2>1. cap2 = [j \in Slots(cc, rc) |-> cap2[j]] BY <1>1 DEF CaptureFits, cap2
    <2>2. DOMAIN cap = Slots(cc, rc) BY <1>1 DEF CaptureFits
    <2>3. \A j \in Slots(cc, rc) : Fit(cc, n, j, cap2[j])
          BY <1>1, <1>5, <2>2 DEF CaptureFits
    <2> QED BY <2>1, <2>3 DEF CaptureFits
  <1>10. PairsFit(cc, rc, n, P2, s2)
    <2>1. \A p \in P : s2[p] \in Slots(cc, rc) /\ Fit(cc, n, s2[p], s2[p + 1])
          BY <1>1, <1>7 DEF PairsFit
    <2>2. (l + 1) + 1 = l + 2 BY <1>6
    <2>0. \A j \in Slots(cc, rc) : Fit(cc, n, j, cap[j]) BY <1>1 DEF CaptureFits
    <2>3. Fit(cc, n, i, cap[i]) BY <2>0
    <2>4. s2[l + 1] \in Slots(cc, rc) /\ Fit(cc, n, s2[l + 1], s2[(l + 1) + 1])
          BY <1>4, <2>2, <2>3
    <2> QED BY <1>6, <2>1, <2>4 DEF PairsFit
  <1>11. StatesFit(c, n, C, s2) /\ AllNest(c, C, s2, b, A)
    <2>1. /\ StatesFit(c, n, C, s2)
          /\ \A h \in C : Nests(c, s2, Enclosing(c, s2[h - 2]), s2[h].bp)
          /\ \A B, g : g \in C \cup {0} /\ Nests(c, s, B, g) => Nests(c, s2, B, g)
      <3>1. \A h \in C : Nests(c, s, Enclosing(c, s[h - 2]), s[h].bp)
            BY <1>1 DEF AllNest
      <3>2. \A h \in C : s[h].bp \in C \cup {0} BY <1>2
      <3> QED BY <1>1, <1>7, <3>1, <3>2, StatesKept
    <2> QED BY <1>1, <1>2, <2>1 DEF AllNest
  <1>12. Keeps(C, P, s, cap, C, P2, s2, cap2)
    <2> SUFFICES ASSUME NEW h \in C PROVE Undone(P2, s2, cap2, h) = Undone(P, s, cap, h)
        BY DEF Keeps
    <2>1. (\A p \in P : p \in Nat) /\ \A p \in P2 : p \in Nat BY <1>6
    <2>2. ASSUME NEW j \in DOMAIN cap, NEW w, Oldest(P, s, cap, h, j, w)
          PROVE  Oldest(P2, s2, cap2, h, j, w)
      <3>2. ASSUME NEW k \in P, k > h, s[k] = j, s[k + 1] = w,
                   \A m \in P : m > h /\ s[m] = j => k <= m
            PROVE  Oldest(P2, s2, cap2, h, j, w)
        <4>1. k \in P2 /\ s2[k] = j /\ s2[k + 1] = w BY <1>6, <1>7, <3>2
        <4>2. \A m \in P2 : m > h /\ s2[m] = j => k <= m
          <5>1. k <= l + 1 BY <1>6
          <5> QED BY <1>6, <1>7, <3>2, <5>1
        <4> QED BY <3>2, <4>1, <4>2 DEF Oldest
      <3>3. ASSUME \A k \in P : k > h => s[k] # j, w = cap[j]
            PROVE  Oldest(P2, s2, cap2, h, j, w)
        <4>1. \A k \in P : k > h => s2[k] # j BY <1>7, <3>3
        <4>2. CASE j = i
          <5>1. l + 1 \in P2 /\ l + 1 > h /\ s2[l + 1] = j BY <1>4, <1>6, <4>2
          <5>2. (l + 1) + 1 = l + 2 BY <1>6
          <5>3. s2[(l + 1) + 1] = w BY <1>4, <3>3, <4>2, <5>2
          <5>4. \A m \in P2 : m > h /\ s2[m] = j => l + 1 <= m BY <1>6, <4>1
          <5> DEFINE k == l + 1
          <5> HIDE DEF k
          <5>5. /\ k \in P2 /\ k > h /\ s2[k] = j /\ s2[k + 1] = w
                /\ \A m \in P2 : m > h /\ s2[m] = j => k <= m
                BY <5>1, <5>3, <5>4 DEF k
          <5> QED BY <5>5 DEF Oldest
        <4>3. CASE j # i
          <5>1. \A k \in P2 : k > h => s2[k] # j BY <1>4, <1>6, <4>1, <4>3
          <5>2. w = cap2[j] BY <1>5, <3>3, <4>3
          <5> QED BY <5>1, <5>2 DEF Oldest
        <4> QED BY <4>2, <4>3
      <3> QED BY <2>2, <3>2, <3>3 DEF Oldest
    <2>3. \A j \in DOMAIN cap : \A w : Oldest(P, s, cap, h, j, w) => Oldest(P2, s2, cap2, h, j, w)
          BY <2>2
    <2>4. Follows(P, s, cap, P2, s2, cap2, h) BY <1>5, <2>1, <2>3 DEF Follows
    <2> QED BY <2>4, UndoneSame
  <1>13. ReturnsStored(c, cc, C, P2, s2, cap2)
    <2>1. \A h \in C : s2[h - 2] = s[h - 2] BY <1>7
    <2> QED BY <1>1, <1>12, <2>1, ReturnsKept
  <1>14. StackInv(c, cc, rc, n, C, P2, s2, b, cap2, A)
         BY <1>8, <1>9, <1>10, <1>11, <1>13 DEF StackInv
  <1> QED BY <1>12, <1>14 DEF s2, P2, cap2

\* A write to a slot that the pair at k undoes already.
LEMMA WriteSaved ==
  ASSUME NEW c, NEW cc \in Nat, NEW rc \in Nat, NEW n \in Nat,
         NEW C, NEW P, NEW s, NEW b, NEW cap, NEW A,
         StackInv(c, cc, rc, n, C, P, s, b, cap, A),
         NEW k \in P, k > b, NEW v, Fit(cc, n, s[k], v)
  PROVE  LET cap2 == [cap EXCEPT ![s[k]] = v]
         IN  /\ StackInv(c, cc, rc, n, C, P, s, b, cap2, A)
             /\ Keeps(C, P, s, cap, C, P, s, cap2)
  <1> DEFINE i    == s[k]
             cap2 == [cap EXCEPT ![i] = v]
  <1>1. /\ Geometry(C, P, s, b) /\ CaptureFits(cc, rc, n, cap) /\ PairsFit(cc, rc, n, P, s)
        /\ StatesFit(c, n, C, s) /\ ReturnsStored(c, cc, C, P, s, cap)
        /\ AllNest(c, C, s, b, A)
        BY DEF StackInv
  <1>2. /\ \A p \in P : p \in Nat
        /\ \A h \in C : h \in Nat /\ h <= b
        /\ b \in Nat
        BY <1>1, Places
  <1>3. i \in Slots(cc, rc) /\ DOMAIN cap = Slots(cc, rc)
        BY <1>1 DEF CaptureFits, PairsFit
  <1>4. DOMAIN cap2 = DOMAIN cap /\ cap2[i] = v /\ \A j \in DOMAIN cap : j # i => cap2[j] = cap[j]
        BY <1>3
  <1>5. CaptureFits(cc, rc, n, cap2)
    <2>1. cap2 = [j \in Slots(cc, rc) |-> cap2[j]] BY <1>1 DEF CaptureFits
    <2>2. \A j \in Slots(cc, rc) : Fit(cc, n, j, cap[j]) BY <1>1 DEF CaptureFits
    <2>0. Fit(cc, n, i, v) OBVIOUS
    <2> HIDE DEF i, cap2
    <2>3. \A j \in Slots(cc, rc) : Fit(cc, n, j, cap2[j]) BY <1>3, <1>4, <2>0, <2>2
    <2> QED BY <2>1, <2>3 DEF CaptureFits
  <1>6. Keeps(C, P, s, cap, C, P, s, cap2)
    <2> HIDE DEF cap2
    <2> SUFFICES ASSUME NEW h \in C PROVE Undone(P, s, cap2, h) = Undone(P, s, cap, h)
        BY DEF Keeps
    <2>0. k > h /\ k \in P /\ s[k] = i BY <1>2
    <2> HIDE DEF i
    <2>1. ASSUME NEW j \in DOMAIN cap, NEW w, Oldest(P, s, cap, h, j, w)
          PROVE  Oldest(P, s, cap2, h, j, w)
      <3>1. CASE \E m \in P : m > h /\ s[m] = j /\ s[m + 1] = w
                    /\ \A q \in P : q > h /\ s[q] = j => m <= q
            BY <3>1 DEF Oldest
      <3>2. CASE (\A m \in P : m > h => s[m] # j) /\ w = cap[j]
        <4>1. j # i BY <2>0, <3>2
        <4>2. w = cap2[j] BY <1>4, <3>2, <4>1
        <4> QED BY <3>2, <4>2 DEF Oldest
      <3> QED BY <2>1, <3>1, <3>2 DEF Oldest
    <2>2. \A j \in DOMAIN cap : \A w : Oldest(P, s, cap, h, j, w) => Oldest(P, s, cap2, h, j, w)
          BY <2>1
    <2>3. Follows(P, s, cap, P, s, cap2, h) BY <1>2, <1>4, <2>2 DEF Follows
    <2> QED BY <2>3, UndoneSame
  <1>7. ReturnsStored(c, cc, C, P, s, cap2)
    <2> HIDE DEF cap2
    <2>1. C \subseteq C /\ \A h \in C : s[h - 2] = s[h - 2] OBVIOUS
    <2> QED BY <1>1, <1>6, <2>1, ReturnsKept
  <1>8. StackInv(c, cc, rc, n, C, P, s, b, cap2, A)
    <2> HIDE DEF cap2
    <2> QED BY <1>1, <1>5, <1>7 DEF StackInv
  <1> QED BY <1>6, <1>8

\* A state is saved that resumes at p, with the subject at q.
LEMMA SaveState ==
  ASSUME NEW c, NEW cc \in Nat, NEW rc \in Nat, NEW n \in Nat,
         NEW C, NEW P, NEW s, NEW b, NEW cap, NEW A,
         StackInv(c, cc, rc, n, C, P, s, b, cap, A),
         NEW p \in InsStarts(c), NEW q \in 0 .. n, NEW rec \in StateRec, p \in Int,
         rec.bp = b, AllStored(cc, cap, LiveRegs(c, p)),
         Nests(c, s, Enclosing(c, p), b),
         NEW A2, Nested(c, A2, rec, p)
  PROVE  LET s2 == s \o <<p, q, rec>>
             h2 == Len(s) + 3
         IN  /\ StackInv(c, cc, rc, n, C \cup {h2}, P, s2, h2, cap, A2)
             /\ Keeps(C, P, s, cap, C \cup {h2}, P, s2, cap)
  <1> DEFINE s2 == s \o <<p, q, rec>>
             l  == Len(s)
             h2 == l + 3
             C2 == C \cup {h2}
  <1>1. /\ Geometry(C, P, s, b) /\ CaptureFits(cc, rc, n, cap) /\ PairsFit(cc, rc, n, P, s)
        /\ StatesFit(c, n, C, s) /\ ReturnsStored(c, cc, C, P, s, cap)
        /\ AllNest(c, C, s, b, A)
        BY DEF StackInv
  <1>2. /\ s \in Seq(Elem) /\ l \in Nat
        /\ \A x \in P : x \in Nat /\ 1 <= x /\ x + 1 <= l /\ x + 1 \notin P
        /\ \A h \in C : h \in Nat /\ 3 <= h /\ h <= l /\ h - 2 \in Nat /\ h - 1 \in Nat
        /\ \A h \in C : s[h] \in StateRec /\ s[h].bp \in C \cup {0} /\ s[h].bp < h
        /\ b \in C \cup {0} /\ b \in Nat /\ b <= l /\ \A h \in C : h <= b
        BY <1>1, Places
  <1>3. /\ s2 \in Seq(Elem) /\ Len(s2) = l + 3
        /\ \A k \in 1 .. l : s2[k] = s[k]
        /\ s2[l + 1] = p /\ s2[l + 2] = q /\ s2[l + 3] = rec
    <2>1. <<p, q, rec>> \in Seq(Elem) BY DEF Elem
    <2> QED BY <1>2, <2>1
  <1>4. /\ l \in Nat /\ h2 = l + 3 /\ h2 - 2 = l + 1 /\ h2 - 1 = l + 2 /\ h2 \in Nat /\ h2 # 0
        /\ \A x \in P : x \in Nat /\ 1 <= x /\ x + 1 <= l /\ x + 1 \notin P
        /\ \A h \in C : h \in Nat /\ 3 <= h /\ h <= l /\ h - 2 \in Nat /\ h - 1 \in Nat
        /\ b \in Nat /\ b <= l /\ \A h \in C : h <= b
        /\ b \in C \cup {0} /\ C2 = C \cup {h2}
        BY <1>2
  <1>5. s2[h2] = rec /\ s2[h2 - 1] = q /\ s2[h2 - 2] = p BY <1>3, <1>4
  <1> HIDE DEF s2, h2, C2, l
  <1>6. /\ \A h \in C : s2[h] = s[h] /\ s2[h - 1] = s[h - 1] /\ s2[h - 2] = s[h - 2]
        /\ \A x \in P : s2[x] = s[x] /\ s2[x + 1] = s[x + 1]
    <2>1. \A h \in C : h \in 1 .. l /\ h - 1 \in 1 .. l /\ h - 2 \in 1 .. l BY <1>4
    <2>2. \A x \in P : x \in 1 .. l /\ x + 1 \in 1 .. l BY <1>4
    <2> QED BY <1>3, <2>1, <2>2
  <1>7. Geometry(C2, P, s2, h2)
    <2>0. /\ \A g, h \in C : g < h => g < h - 2
          /\ \A x \in P, h \in C : x + 1 < h - 2 \/ h < x
          /\ \A k \in 1 .. l : k \in P \/ k - 1 \in P \/ \E h \in C : k \in h - 2 .. h
          BY <1>1 DEF Geometry, Tiles, l
    <2>1. Tiles(P, C2, l + 3)
      <3>1. P \subseteq 1 .. l + 3 /\ C2 \subseteq 1 .. l + 3
        <4>1. \A x \in P : x \in 1 .. l + 3 BY <1>4
        <4>2. \A h \in C : h \in 1 .. l + 3 BY <1>4
        <4>3. h2 \in 1 .. l + 3 BY <1>4
        <4> QED BY <1>4, <4>1, <4>2, <4>3
      <3>2. \A x \in P : x + 1 <= l + 3 /\ x + 1 \notin P BY <1>4
      <3>3. \A h \in C2 : 1 <= h - 2 BY <1>4
      <3>4. \A g, h \in C2 : g < h => g < h - 2 BY <1>4, <2>0
      <3>5. \A x \in P, h \in C2 : x + 1 < h - 2 \/ h < x BY <1>4, <2>0
      <3>6. ASSUME NEW k \in 1 .. l + 3
            PROVE  k \in P \/ k - 1 \in P \/ \E h \in C2 : k \in h - 2 .. h
        <4>1. CASE k \in 1 .. l BY <1>4, <2>0, <4>1
        <4>2. CASE k \notin 1 .. l
          <5>1. k \in h2 - 2 .. h2 BY <1>4, <4>2
          <5> QED BY <1>4, <5>1
        <4> QED BY <4>1, <4>2
      <3> QED BY <3>1, <3>2, <3>3, <3>4, <3>5, <3>6 DEF Tiles
    <2>2. Under(C2, h2, Len(s2) + 1)
      <3>1. h2 < Len(s2) + 1 BY <1>3, <1>4
      <3> QED BY <1>4, <3>1 DEF Under
    <2>3. \A h \in C : s2[h] \in StateRec /\ Under(C, s2[h].bp, h)
          BY <1>1, <1>6 DEF Geometry
    <2>4. ASSUME NEW h \in C PROVE Under(C2, s2[h].bp, h)
      <3>1. Under(C, s2[h].bp, h) BY <2>3
      <3>2. h <= h2 BY <1>4
      <3> QED BY <1>4, <3>1, <3>2 DEF Under
    <2>5. s2[h2] \in StateRec /\ Under(C2, s2[h2].bp, h2)
      <3>1. b < h2 /\ \A z \in C2 : z <= b \/ h2 <= z BY <1>4
      <3> QED BY <1>4, <1>5, <3>1 DEF Under
    <2> QED BY <1>3, <1>4, <2>1, <2>2, <2>3, <2>4, <2>5 DEF Geometry
  <1>8. PairsFit(cc, rc, n, P, s2) BY <1>1, <1>6 DEF PairsFit
  <1>9. StatesFit(c, n, C2, s2) /\ AllNest(c, C2, s2, h2, A2)
    <2>1. /\ StatesFit(c, n, C, s2)
          /\ \A h \in C : Nests(c, s2, Enclosing(c, s2[h - 2]), s2[h].bp)
          /\ \A B, g : g \in C \cup {0} /\ Nests(c, s, B, g) => Nests(c, s2, B, g)
      <3>1. \A h \in C : Nests(c, s, Enclosing(c, s[h - 2]), s[h].bp)
            BY <1>1 DEF AllNest
      <3>2. \A h \in C : s[h].bp \in C \cup {0} BY <1>2
      <3> QED BY <1>1, <1>6, <3>1, <3>2, StatesKept
    <2>2. StatesFit(c, n, C2, s2) BY <1>4, <1>5, <2>1 DEF StatesFit
    <2>3. Nests(c, s2, A2, h2) BY <1>4, <1>5 DEF Nests
    <2>4. Nests(c, s2, Enclosing(c, s2[h2 - 2]), s2[h2].bp) BY <1>4, <1>5, <2>1
    <2> QED BY <1>4, <2>1, <2>2, <2>3, <2>4 DEF AllNest
  <1>10. Keeps(C, P, s, cap, C2, P, s2, cap) /\ Keeps(C, P, s, cap, C, P, s2, cap)
    <2> SUFFICES ASSUME NEW h \in C PROVE Undone(P, s2, cap, h) = Undone(P, s, cap, h)
        BY DEF Keeps
    <2>1. \A j \in DOMAIN cap : \A w : Oldest(P, s, cap, h, j, w) => Oldest(P, s2, cap, h, j, w)
      <3> SUFFICES ASSUME NEW j \in DOMAIN cap, NEW w, Oldest(P, s, cap, h, j, w)
                   PROVE  Oldest(P, s2, cap, h, j, w)
          OBVIOUS
      <3> QED BY <1>6 DEF Oldest
    <2>2. Follows(P, s, cap, P, s2, cap, h) BY <1>4, <2>1 DEF Follows
    <2> QED BY <2>2, UndoneSame
  <1>11. ReturnsStored(c, cc, C2, P, s2, cap)
    <2>1. ReturnsStored(c, cc, C, P, s2, cap)
      <3>1. C \subseteq C /\ \A h \in C : s2[h - 2] = s[h - 2] BY <1>6
      <3> QED BY <1>1, <1>10, <3>1, ReturnsKept
    <2>2. Undone(P, s2, cap, h2) = cap
      <3> DEFINE f == Undone(P, s2, cap, h2)
      <3>1. DOMAIN cap = Slots(cc, rc) /\ cap = [j \in Slots(cc, rc) |-> cap[j]]
            BY <1>1 DEF CaptureFits
      <3>2. f = [j \in Slots(cc, rc) |-> f[j]] BY <3>1 DEF Undone
      <3>3. ASSUME NEW j \in Slots(cc, rc) PROVE f[j] = cap[j]
        <4>1. {k \in P : k > h2 /\ s2[k] = j} = {} BY <1>4
        <4> QED BY <3>1, <4>1 DEF Undone
      <3> HIDE DEF f
      <3>4. f = cap BY <3>1, <3>2, <3>3
      <3> QED BY <3>4 DEF f
    <2>3. AllStored(cc, Undone(P, s2, cap, h2), LiveRegs(c, s2[h2 - 2])) BY <1>5, <2>2
    <2> QED BY <1>4, <2>1, <2>3 DEF ReturnsStored
  <1>12. StackInv(c, cc, rc, n, C2, P, s2, h2, cap, A2)
         BY <1>1, <1>7, <1>8, <1>9, <1>11 DEF StackInv
  <1> QED BY <1>10, <1>12 DEF s2, h2, C2, l

\* A return to the state under h.
LEMMA ReturnTo ==
  ASSUME NEW c, NEW cc \in Nat, NEW rc \in Nat, NEW n \in Nat,
         NEW C, NEW P, NEW s, NEW b, NEW cap, NEW A,
         StackInv(c, cc, rc, n, C, P, s, b, cap, A),
         NEW h \in C
  PROVE  LET s2   == SubSeq(s, 1, h - 3)
             C2   == {x \in C : x < h}
             P2   == {x \in P : x < h}
             cap2 == Undone(P, s, cap, h)
         IN  /\ StackInv(c, cc, rc, n, C2, P2, s2, s[h].bp, cap2, Enclosing(c, s[h - 2]))
             /\ Keeps(C, P, s, cap, C2, P2, s2, cap2)
             /\ AllStored(cc, cap2, LiveRegs(c, s[h - 2]))
             /\ s[h - 2] \in InsStarts(c) /\ s[h - 1] \in 0 .. n
             /\ Len(s2) <= Len(s)
  <1> DEFINE s2   == SubSeq(s, 1, h - 3)
             C2   == {x \in C : x < h}
             P2   == {x \in P : x < h}
             cap2 == Undone(P, s, cap, h)
             l    == Len(s)
             m    == h - 3
             b2   == s[h].bp
  <1>1. /\ Geometry(C, P, s, b) /\ CaptureFits(cc, rc, n, cap) /\ PairsFit(cc, rc, n, P, s)
        /\ StatesFit(c, n, C, s) /\ ReturnsStored(c, cc, C, P, s, cap)
        /\ AllNest(c, C, s, b, A)
        BY DEF StackInv
  <1>2. /\ s \in Seq(Elem) /\ l \in Nat
        /\ \A x \in P : x \in Nat /\ 1 <= x /\ x + 1 <= l /\ x + 1 \notin P
        /\ \A x \in C : x \in Nat /\ 3 <= x /\ x <= l /\ x - 2 \in Nat /\ x - 1 \in Nat
        /\ \A x, y \in C : x < y => x < y - 2
        /\ \A x \in P, y \in C : x + 1 < y - 2 \/ y < x
        /\ \A x \in C : s[x] \in StateRec /\ s[x].bp \in C \cup {0} /\ s[x].bp < x
        BY <1>1, Places
  <1>3. h \in Nat /\ 3 <= h /\ h <= l /\ m \in 0 .. l /\ m \in Nat /\ h - 2 = m + 1 /\ h = m + 3
        BY <1>2
  <1>4. s2 \in Seq(Elem) /\ Len(s2) = m /\ \A k \in 1 .. m : s2[k] = s[k]
        BY <1>2, <1>3
  <1>5. /\ l \in Nat
        /\ \A x \in P : x \in Nat /\ 1 <= x /\ x + 1 <= l /\ x + 1 \notin P
        /\ \A x \in C : x \in Nat /\ 3 <= x /\ x <= l /\ x - 2 \in Nat /\ x - 1 \in Nat
        /\ \A x, y \in C : x < y => x < y - 2
        /\ \A x \in P, y \in C : x + 1 < y - 2 \/ y < x
        /\ \A k \in 1 .. l : k \in P \/ k - 1 \in P \/ \E x \in C : k \in x - 2 .. x
        BY <1>1, <1>2 DEF Geometry, Tiles
  <1>6. DOMAIN cap2 = DOMAIN cap /\ CaptureFits(cc, rc, n, cap2)
    <2>1. DOMAIN cap2 = DOMAIN cap BY DEF Undone
    <2>2. P \subseteq Nat BY <1>5
    <2> QED BY <1>1, <2>1, <2>2, UndoneFits
  <1>0. /\ \A i \in DOMAIN cap : Oldest(P, s, cap, h, i, cap2[i])
        /\ AllStored(cc, cap2, LiveRegs(c, s[h - 2]))
    <2>1. P \subseteq Nat BY <1>5
    <2>2. \A i \in DOMAIN cap : Oldest(P, s, cap, h, i, cap2[i]) BY <2>1, UndoneHas
    <2> QED BY <1>1, <2>2 DEF ReturnsStored
  <1>b. b2 \in C2 \cup {0} /\ b2 < h /\ \A z \in C : z <= b2 \/ h <= z
    <2>1. Under(C, b2, h) BY <1>1 DEF Geometry
    <2> HIDE DEF b2
    <2> QED BY <2>1 DEF Under
  <1>c. /\ C2 \subseteq C /\ \A x \in C2 : x \in C /\ x < h
        /\ P2 \subseteq P /\ \A x \in P2 : x \in P /\ x < h
        /\ \A x \in C : x < h => x \in C2
        /\ \A x \in P : x < h => x \in P2
        OBVIOUS
  <1> HIDE DEF s2, C2, P2, cap2, l, m, b2
  <1>d. /\ \A x \in C2 : x \in Nat /\ 3 <= x /\ x <= m
        /\ \A x \in P2 : x \in Nat /\ 1 <= x /\ x + 1 <= m
        BY <1>3, <1>5, <1>c
  <1>7. /\ \A x \in C2 : s2[x] = s[x] /\ s2[x - 1] = s[x - 1] /\ s2[x - 2] = s[x - 2]
        /\ \A x \in P2 : s2[x] = s[x] /\ s2[x + 1] = s[x + 1]
    <2>1. \A x \in C2 : x \in 1 .. m /\ x - 1 \in 1 .. m /\ x - 2 \in 1 .. m BY <1>3, <1>d
    <2>2. \A x \in P2 : x \in 1 .. m /\ x + 1 \in 1 .. m BY <1>3, <1>d
    <2> QED BY <1>4, <2>1, <2>2
  <1>8. Geometry(C2, P2, s2, b2)
    <2>1. Tiles(P2, C2, m)
      <3>1. P2 \subseteq 1 .. m /\ C2 \subseteq 1 .. m
        <4>1. \A x \in P2 : x \in 1 .. m BY <1>3, <1>d
        <4>2. \A x \in C2 : x \in 1 .. m BY <1>3, <1>d
        <4> QED BY <4>1, <4>2
      <3>2. \A x \in P2 : x + 1 <= m /\ x + 1 \notin P2 BY <1>5, <1>c, <1>d
      <3>3. \A x \in C2 : 1 <= x - 2 BY <1>d
      <3>4. \A x, y \in C2 : x < y => x < y - 2 BY <1>5, <1>c
      <3>5. \A x \in P2, y \in C2 : x + 1 < y - 2 \/ y < x BY <1>5, <1>c
      <3>6. ASSUME NEW k \in 1 .. m
            PROVE  k \in P2 \/ k - 1 \in P2 \/ \E x \in C2 : k \in x - 2 .. x
        <4>0. l \in Nat BY <1>5
        <4>1. k \in 1 .. l /\ k < h /\ k - 1 < h /\ k < h - 2 BY <1>3, <4>0
        <4>2. CASE k \in P BY <1>c, <4>1, <4>2
        <4>3. CASE k - 1 \in P BY <1>c, <4>1, <4>3
        <4>4. ASSUME NEW x \in C, k \in x - 2 .. x PROVE x \in C2
          <5>1. x \in Nat /\ x - 2 <= k BY <1>5, <4>4
          <5>2. x < h \/ x = h \/ h < x - 2 BY <1>3, <1>5, <5>1
          <5> QED BY <1>3, <1>c, <4>1, <5>1, <5>2
        <4> QED BY <1>5, <4>1, <4>2, <4>3, <4>4
      <3> QED BY <3>1, <3>2, <3>3, <3>4, <3>5, <3>6 DEF Tiles
    <2>2. Under(C2, b2, Len(s2) + 1)
      <3>1. b2 < m + 1 BY <1>3, <1>b, <1>d
      <3>2. \A z \in C2 : z <= b2 BY <1>3, <1>b, <1>c, <1>d
      <3> QED BY <1>4, <1>b, <3>1, <3>2 DEF Under
    <2>3. ASSUME NEW x \in C2 PROVE s2[x] \in StateRec /\ Under(C2, s2[x].bp, x)
      <3>1. s[x] \in StateRec /\ Under(C, s[x].bp, x) /\ s2[x] = s[x]
            BY <1>1, <1>7, <1>c DEF Geometry
      <3> DEFINE y == s[x].bp
      <3> HIDE DEF y
      <3>2. y \in C \cup {0} /\ y < x /\ \A z \in C : z <= y \/ x <= z
            BY <3>1 DEF Under, y
      <3>3. y \in C2 \cup {0}
        <4>1. x \in Nat /\ y \in Nat /\ x < h BY <1>5, <1>c, <3>2
        <4>2. y < h BY <1>3, <3>2, <4>1
        <4> QED BY <1>c, <3>2, <4>2
      <3>4. Under(C2, y, x) BY <1>c, <3>2, <3>3 DEF Under
      <3> QED BY <3>1, <3>4 DEF y
    <2> QED BY <1>4, <2>1, <2>2, <2>3 DEF Geometry
  <1>9. PairsFit(cc, rc, n, P2, s2) BY <1>1, <1>7, <1>c DEF PairsFit
  <1>10. StatesFit(c, n, C2, s2) /\ AllNest(c, C2, s2, b2, Enclosing(c, s[h - 2]))
    <2>1. /\ StatesFit(c, n, C2, s2)
          /\ \A x \in C2 : Nests(c, s2, Enclosing(c, s2[x - 2]), s2[x].bp)
          /\ \A B, g : g \in C2 \cup {0} /\ Nests(c, s, B, g) => Nests(c, s2, B, g)
      <3>1. \A x \in C : Nests(c, s, Enclosing(c, s[x - 2]), s[x].bp)
            BY <1>1 DEF AllNest
      <3>2. \A x \in C2 : s[x].bp \in C2 \cup {0}
        <4>1. \A x \in C2 : Under(C2, s2[x].bp, x) /\ s2[x] = s[x]
              BY <1>7, <1>8 DEF Geometry
        <4> QED BY <4>1 DEF Under
      <3>3. \A x \in C2 : s2[x] = s[x] /\ s2[x - 1] = s[x - 1] /\ s2[x - 2] = s[x - 2]
            BY <1>7
      <3>4. StatesFit(c, n, C, s) /\ C2 \subseteq C BY <1>1, <1>c
      <3> QED BY <3>1, <3>2, <3>3, <3>4, StatesKept
    <2>2. Nests(c, s, Enclosing(c, s[h - 2]), b2) BY <1>1 DEF AllNest, b2
    <2> QED BY <1>b, <2>1, <2>2 DEF AllNest
  <1>11. Keeps(C, P, s, cap, C2, P2, s2, cap2)
    <2> SUFFICES ASSUME NEW g \in C2 PROVE Undone(P2, s2, cap2, g) = Undone(P, s, cap, g)
        BY DEF Keeps
    <2>0. g \in C /\ g < h /\ g \in Nat BY <1>c, <1>d
    <2>1. ASSUME NEW i \in DOMAIN cap, NEW v, Oldest(P, s, cap, g, i, v)
          PROVE  Oldest(P2, s2, cap2, g, i, v)
      <3>0. Oldest(P, s, cap, h, i, cap2[i]) BY <1>0
      <3>1. ASSUME NEW k \in P, k > g, s[k] = i, s[k + 1] = v,
                   \A j \in P : j > g /\ s[j] = i => k <= j
            PROVE  Oldest(P2, s2, cap2, g, i, v)
        <4>1. CASE k < h
          <5>1. k \in P2 /\ s2[k] = i /\ s2[k + 1] = v BY <1>7, <1>c, <3>1, <4>1
          <5>2. \A j \in P2 : j > g /\ s2[j] = i => k <= j BY <1>7, <1>c, <3>1
          <5> QED BY <3>1, <5>1, <5>2 DEF Oldest
        <4>2. CASE ~(k < h)
          <5>1. k > h BY <1>3, <1>5, <4>2
          <5>2. \A j \in P2 : j > g => s2[j] # i
            <6> SUFFICES ASSUME NEW j \in P2, j > g, s2[j] = i PROVE FALSE OBVIOUS
            <6>1. j \in P /\ j < h /\ s[j] = i BY <1>7, <1>c
            <6>2. k <= j BY <3>1, <6>1
            <6> QED BY <1>3, <1>5, <5>1, <6>1, <6>2
          <5>3. \A j \in P : j > h /\ s[j] = i => k <= j BY <1>3, <1>5, <2>0, <3>1
          <5>4. cap2[i] = v
            <6>1. ASSUME NEW j \in P, j > h, s[j] = i, s[j + 1] = cap2[i],
                         \A x \in P : x > h /\ s[x] = i => j <= x
                  PROVE  cap2[i] = v
              <7>1. k <= j /\ j <= k BY <3>1, <5>1, <5>3, <6>1
              <7>0. j \in Nat /\ k \in Nat BY <1>5
              <7>2. j = k BY <7>0, <7>1
              <7> QED BY <3>1, <6>1, <7>2
            <6> QED BY <3>0, <3>1, <5>1, <6>1 DEF Oldest
          <5> QED BY <5>2, <5>4 DEF Oldest
        <4> QED BY <4>1, <4>2
      <3>2. ASSUME \A k \in P : k > g => s[k] # i, v = cap[i]
            PROVE  Oldest(P2, s2, cap2, g, i, v)
        <4>1. \A k \in P2 : k > g => s2[k] # i BY <1>7, <1>c, <3>2
        <4>2. \A k \in P : k > h => s[k] # i BY <1>3, <1>5, <2>0, <3>2
        <4>3. cap2[i] = v BY <3>0, <3>2, <4>2 DEF Oldest
        <4> QED BY <4>1, <4>3 DEF Oldest
      <3> QED BY <2>1, <3>1, <3>2 DEF Oldest
    <2>2. \A i \in DOMAIN cap : \A v : Oldest(P, s, cap, g, i, v) => Oldest(P2, s2, cap2, g, i, v)
          BY <2>1
    <2>3. Follows(P, s, cap, P2, s2, cap2, g) BY <1>5, <1>6, <1>d, <2>2 DEF Follows
    <2> QED BY <2>3, UndoneSame
  <1>12. ReturnsStored(c, cc, C2, P2, s2, cap2)
    <2>1. C2 \subseteq C /\ \A x \in C2 : s2[x - 2] = s[x - 2] BY <1>7, <1>c
    <2> QED BY <1>1, <1>11, <2>1, ReturnsKept
  <1>13. StackInv(c, cc, rc, n, C2, P2, s2, b2, cap2, Enclosing(c, s[h - 2]))
         BY <1>6, <1>8, <1>9, <1>10, <1>12 DEF StackInv
  <1>14. s[h - 2] \in InsStarts(c) /\ s[h - 1] \in 0 .. n BY <1>1 DEF StatesFit
  <1>15. Len(s2) <= Len(s) BY <1>3, <1>4 DEF l
  <1> QED BY <1>0, <1>11, <1>13, <1>14, <1>15 DEF s2, C2, P2, cap2, b2

---------------------------------------------------------------------------
(***************************************************************************)
(* A lookahead that has matched drops its states and moves the undo pairs  *)
(* above down.  An element that is kept goes to its rank.                  *)
(***************************************************************************)
Rank(kept, k) == Cardinality({j \in kept : j <= k})

LEMMA Ranks ==
  ASSUME NEW l \in Nat, NEW h \in 0 .. l, NEW kept \in SUBSET (h + 1 .. l), NEW P,
         \A k \in h + 1 .. l : k \in kept <=> (k \in P \/ k - 1 \in P),
         h \notin P, l \notin P, \A p \in P : p + 1 \notin P
  PROVE  /\ Cardinality(kept) \in Nat
         /\ \A k \in kept : /\ Rank(kept, k) \in 1 .. Cardinality(kept)
                            /\ Rank(kept, k) % 2 = 1 <=> k \in P
         /\ \A j, k \in kept : j < k => Rank(kept, j) < Rank(kept, k)
         /\ \A r \in 1 .. Cardinality(kept) : \E k \in kept : Rank(kept, k) = r
         /\ \A k \in kept : k \in P => k + 1 \in kept /\ Rank(kept, k + 1) = Rank(kept, k) + 1
         /\ Cardinality(kept) % 2 = 0
  <1> DEFINE D(x) == Rank(kept, x)
             m    == Cardinality(kept)
  <1>0. h \in Nat /\ l \in Nat /\ h <= l /\ \A k \in kept : k \in Nat /\ h < k /\ k <= l
        OBVIOUS
  <1>1. IsFiniteSet(kept)
    <2>1. h + 1 \in Int /\ l \in Int BY <1>0
    <2>2. IsFiniteSet(h + 1 .. l) BY <2>1, FS_Interval
    <2> QED BY <2>2, FS_Subset
  <1>2. \A x : IsFiniteSet({j \in kept : j <= x}) /\ D(x) \in Nat
        BY <1>1, FS_Subset, FS_CardinalityType DEF Rank
  <1>3. m \in Nat BY <1>1, FS_CardinalityType
  <1>4. D(h) = 0
    <2>0. \A j \in kept : ~(j <= h) BY <1>0
    <2>1. {j \in kept : j <= h} = {} BY <2>0
    <2> QED BY <2>1, FS_EmptySet DEF Rank
  <1>5. D(l) = m
    <2>1. {j \in kept : j <= l} = kept BY <1>0
    <2> QED BY <2>1 DEF Rank
  <1>6. ASSUME NEW x \in h .. l, x # l
        PROVE  D(x + 1) = IF x + 1 \in kept THEN D(x) + 1 ELSE D(x)
    <2>0. x \in Nat BY <1>0
    <2>1. CASE x + 1 \in kept
      <3>0. \A j \in kept : j <= x + 1 <=> (j <= x \/ j = x + 1) BY <1>0, <2>0
      <3>1. {j \in kept : j <= x + 1} = {j \in kept : j <= x} \cup {x + 1}
        <4>1. x + 1 <= x + 1 BY <2>0
        <4> QED BY <2>1, <3>0, <4>1
      <3>2. x + 1 \notin {j \in kept : j <= x} BY <2>0
      <3>3. Cardinality({j \in kept : j <= x} \cup {x + 1}) = D(x) + 1
            BY <1>2, <3>2, FS_AddElement DEF Rank
      <3> QED BY <2>1, <3>1, <3>3 DEF Rank
    <2>2. CASE x + 1 \notin kept
      <3>1. {j \in kept : j <= x + 1} = {j \in kept : j <= x}
        <4>1. \A j \in kept : j <= x + 1 <=> j <= x BY <1>0, <2>0, <2>2
        <4> QED BY <4>1
      <3> QED BY <2>2, <3>1 DEF Rank
    <2> QED BY <2>1, <2>2
  <1> HIDE DEF D, m
  \* Parity.
  <1>7. \A x \in h .. l : D(x) % 2 = 1 <=> x \in P
    <2> DEFINE T == {d \in Nat : h + d <= l => (D(h + d) % 2 = 1 <=> h + d \in P)}
    <2>1. 0 \in T
      <3>1. h + 0 = h /\ 0 % 2 = 0 BY <1>0
      <3> QED BY <1>4, <3>1
    <2>2. ASSUME NEW d \in Nat, d \in T PROVE d + 1 \in T
      <3> SUFFICES ASSUME h + (d + 1) <= l
                   PROVE  D(h + (d + 1)) % 2 = 1 <=> h + (d + 1) \in P
          OBVIOUS
      <3> DEFINE x == h + d
      <3>1. x \in h .. l /\ x # l /\ h + (d + 1) = x + 1 /\ x + 1 \in h + 1 .. l
            /\ (x + 1) - 1 = x /\ h + d <= l
            BY <1>0
      <3>2. D(x) % 2 = 1 <=> x \in P BY <2>2, <3>1
      <3> HIDE DEF x
      <3>3. x + 1 \in kept <=> (x + 1 \in P \/ x \in P) BY <3>1
      <3>4. D(x + 1) = IF x + 1 \in kept THEN D(x) + 1 ELSE D(x) BY <1>6, <3>1
      <3>5. \A y \in Nat : (y + 1) % 2 = 1 <=> ~(y % 2 = 1) OBVIOUS
      <3>6. x \in P => x + 1 \notin P OBVIOUS
      <3>7. D(x) \in Nat BY <1>2
      <3>8. (D(x) + 1) % 2 = 1 <=> ~(D(x) % 2 = 1) BY <3>5, <3>7
      <3>9. D(x + 1) % 2 = 1 <=> x + 1 \in P
        <4>1. CASE x + 1 \in kept
          <5>1. D(x + 1) = D(x) + 1 BY <3>4, <4>1
          <5> QED BY <3>2, <3>3, <3>6, <3>8, <4>1, <5>1
        <4>2. CASE x + 1 \notin kept
          <5>1. D(x + 1) = D(x) BY <3>4, <4>2
          <5> QED BY <3>2, <3>3, <4>2, <5>1
        <4> QED BY <4>1, <4>2
      <3> QED BY <3>1, <3>9
    <2>3. Nat \subseteq T
      <3> HIDE DEF T
      <3> QED BY <2>1, <2>2, SetInduction
    <2> SUFFICES ASSUME NEW x \in h .. l PROVE D(x) % 2 = 1 <=> x \in P OBVIOUS
    <2>4. x - h \in Nat /\ h + (x - h) = x /\ x <= l BY <1>0
    <2>5. x - h \in T BY <2>3, <2>4
    <2> QED BY <2>4, <2>5
  <1>8. \A x, y \in h .. l : x <= y => D(x) <= D(y)
    <2> SUFFICES ASSUME NEW x \in h .. l, NEW y \in h .. l, x <= y PROVE D(x) <= D(y)
        OBVIOUS
    <2>0. x \in Nat /\ y \in Nat BY <1>0
    <2>1. {j \in kept : j <= x} \subseteq {j \in kept : j <= y}
      <3>1. \A j \in kept : j <= x => j <= y BY <1>0, <2>0
      <3> QED BY <3>1
    <2> QED BY <1>2, <2>1, FS_Subset DEF D, Rank
  <1>9. \A k \in kept : /\ k \in h .. l /\ k - 1 \in h .. l /\ k - 1 # l
                        /\ D(k) = D(k - 1) + 1 /\ D(k - 1) \in Nat
    <2> SUFFICES ASSUME NEW k \in kept
                 PROVE  /\ k \in h .. l /\ k - 1 \in h .. l /\ k - 1 # l
                        /\ D(k) = D(k - 1) + 1 /\ D(k - 1) \in Nat
        OBVIOUS
    <2>1. k \in h .. l /\ k - 1 \in h .. l /\ k - 1 # l /\ (k - 1) + 1 = k BY <1>0
    <2>2. D((k - 1) + 1) = D(k - 1) + 1 BY <1>6, <2>1
    <2> QED BY <1>2, <2>1, <2>2
  <1>10. \A k \in kept : D(k) \in 1 .. m /\ (D(k) % 2 = 1 <=> k \in P)
    <2> SUFFICES ASSUME NEW k \in kept PROVE D(k) \in 1 .. m /\ (D(k) % 2 = 1 <=> k \in P)
        OBVIOUS
    <2>1. k \in h .. l /\ l \in h .. l /\ k <= l BY <1>0
    <2>2. D(k) <= m BY <1>5, <1>8, <2>1
    <2>3. D(k) >= 1 /\ D(k) \in Nat BY <1>2, <1>9
    <2> QED BY <1>3, <1>7, <2>1, <2>2, <2>3
  <1>11. \A j, k \in kept : j < k => D(j) < D(k)
    <2> SUFFICES ASSUME NEW j \in kept, NEW k \in kept, j < k PROVE D(j) < D(k) OBVIOUS
    <2>1. j \in h .. l /\ k - 1 \in h .. l /\ j <= k - 1 BY <1>0
    <2>2. D(j) <= D(k - 1) BY <1>8, <2>1
    <2>3. D(k) = D(k - 1) + 1 /\ D(k - 1) \in Nat /\ D(j) \in Nat BY <1>2, <1>9
    <2> QED BY <2>2, <2>3
  <1>12. \A r \in 1 .. m : \E k \in kept : D(k) = r
    <2> SUFFICES ASSUME NEW r \in 1 .. m PROVE \E k \in kept : D(k) = r OBVIOUS
    <2>0. r \in Nat /\ 1 <= r /\ r <= m BY <1>3
    <2> DEFINE X == {x \in h .. l : r <= D(x)}
    <2>1. l \in X BY <1>0, <1>5, <2>0
    <2>2. X \in SUBSET Nat /\ X # {} BY <1>0, <2>1
    <2>3. PICK x \in X : \A y \in X : x <= y BY <2>2, Least
    <2>4. x \in h .. l /\ r <= D(x) OBVIOUS
    <2>5. x # h BY <1>4, <2>0, <2>4
    <2>6. x - 1 \in h .. l /\ x - 1 # l /\ (x - 1) + 1 = x /\ x - 1 < x BY <1>0, <2>4, <2>5
    <2>7. ~(r <= D(x - 1)) BY <2>3, <2>4, <2>6
    <2>8. D(x) = IF x \in kept THEN D(x - 1) + 1 ELSE D(x - 1) BY <1>6, <2>6
    <2>9. D(x) \in Nat /\ D(x - 1) \in Nat BY <1>2
    <2>10. x \in kept /\ D(x) = r BY <2>0, <2>4, <2>7, <2>8, <2>9
    <2> QED BY <2>10
  <1>13. \A k \in kept : k \in P => k + 1 \in kept /\ D(k + 1) = D(k) + 1
    <2> SUFFICES ASSUME NEW k \in kept, k \in P PROVE k + 1 \in kept /\ D(k + 1) = D(k) + 1
        OBVIOUS
    <2>1. k \in Nat /\ h < k /\ k <= l /\ k # l BY <1>0
    <2>2. k + 1 \in h + 1 .. l /\ (k + 1) - 1 = k /\ k \in h .. l BY <1>0, <2>1
    <2>3. k + 1 \in kept BY <2>2
    <2>4. D(k + 1) = D(k) + 1 BY <1>6, <2>1, <2>2, <2>3
    <2> QED BY <2>3, <2>4
  <1>14. m % 2 = 0
    <2>1. l \in h .. l BY <1>0
    <2>2. ~(m % 2 = 1) BY <1>5, <1>7, <2>1
    <2>3. \A y \in Nat : ~(y % 2 = 1) => y % 2 = 0 OBVIOUS
    <2> QED BY <1>3, <2>2, <2>3
  <1> QED BY <1>3, <1>10, <1>11, <1>12, <1>13, <1>14 DEF D, m

Moved(kept, s) == [n \in 1 .. Cardinality(kept) |-> s[CHOOSE k \in kept : Rank(kept, k) = n]]

\* What is kept above h.
KeptAbove(C, l, h) == {k \in h + 1 .. l : \A g \in {x \in C : x >= h} : k \notin g - 2 .. g}

LEMMA KeptAre ==
  ASSUME NEW l \in Nat, NEW C, NEW P, Tiles(P, C, l), NEW h \in C
  PROVE  \A k \in h + 1 .. l : k \in KeptAbove(C, l, h) <=> (k \in P \/ k - 1 \in P)
  <1>1. /\ \A c \in C : c \in Nat /\ 1 <= c - 2 /\ c <= l
        /\ \A p \in P : p \in Nat
        /\ \A p \in P, c \in C : p + 1 < c - 2 \/ c < p
        /\ \A k \in 1 .. l : k \in P \/ k - 1 \in P \/ \E c \in C : k \in c - 2 .. c
        BY DEF Tiles
  <1>2. SUFFICES ASSUME NEW k \in h + 1 .. l
                 PROVE  k \in KeptAbove(C, l, h) <=> (k \in P \/ k - 1 \in P)
        OBVIOUS
  <1>3. h \in Nat /\ k \in Nat /\ h < k /\ k \in 1 .. l BY <1>1
  <1>4. ASSUME k \in P \/ k - 1 \in P, NEW g \in C PROVE k \notin g - 2 .. g
    <2>1. g \in Nat BY <1>1
    <2>2. CASE k \in P
      <3>1. k + 1 < g - 2 \/ g < k BY <1>1, <2>2
      <3> QED BY <1>3, <2>1, <3>1
    <2>3. CASE k - 1 \in P
      <3>1. (k - 1) + 1 < g - 2 \/ g < k - 1 BY <1>1, <2>3
      <3> QED BY <1>3, <2>1, <3>1
    <2> QED BY <1>4, <2>2, <2>3
  <1>5. ASSUME NEW g \in C, k \in g - 2 .. g PROVE g >= h
    <2>1. g \in Nat BY <1>1
    <2> QED BY <1>3, <1>5, <2>1
  <1> QED BY <1>1, <1>3, <1>4, <1>5 DEF KeptAbove

\* An empty stack.
LEMMA EmptyStack ==
  ASSUME NEW c, NEW cc, NEW rc, NEW n, NEW cap, CaptureFits(cc, rc, n, cap)
  PROVE  StackInv(c, cc, rc, n, {}, {}, <<>>, 0, cap, {})
  <1>1. << >> \in Seq(Elem) /\ Len(<< >>) = 0 OBVIOUS
  <1>2. Geometry({}, {}, << >>, 0)
    <2>1. Tiles({}, {}, 0)
      <3>1. 1 .. 0 = {} OBVIOUS
      <3> QED BY <3>1 DEF Tiles
    <2>2. Under({}, 0, 0 + 1) BY DEF Under
    <2> QED BY <1>1, <2>1, <2>2 DEF Geometry
  <1>3. AllNest(c, {}, << >>, 0, {}) BY DEF AllNest, Nests
  <1> QED BY <1>2, <1>3 DEF StackInv, PairsFit, StatesFit, ReturnsStored

\* The states from h up are dropped.
LEMMA DropTo ==
  ASSUME NEW c, NEW cc \in Nat, NEW rc \in Nat, NEW n \in Nat,
         NEW C, NEW P, NEW s, NEW b, NEW cap, NEW A,
         StackInv(c, cc, rc, n, C, P, s, b, cap, A),
         NEW h \in C
  PROVE  LET s2 == SubSeq(s, 1, h - 3) \o Moved(KeptAbove(C, Len(s), h), s)
             C2 == {x \in C : x < h}
         IN  \E P2 : /\ StackInv(c, cc, rc, n, C2, P2, s2, s[h].bp, cap, Enclosing(c, s[h - 2]))
                     /\ Keeps(C, P, s, cap, C2, P2, s2, cap)
                     /\ Len(s2) <= Len(s)
  <1> DEFINE l    == Len(s)
             m    == h - 3
             kept == KeptAbove(C, l, h)
             u    == Cardinality(kept)
             s2   == SubSeq(s, 1, m) \o Moved(kept, s)
             C2   == {x \in C : x < h}
             P2   == {x \in P : x < h} \cup {j \in m + 1 .. m + u : (j - m) % 2 = 1}
             b2   == s[h].bp
             R(k) == Rank(kept, k)
  <1>1. /\ Geometry(C, P, s, b) /\ CaptureFits(cc, rc, n, cap) /\ PairsFit(cc, rc, n, P, s)
        /\ StatesFit(c, n, C, s) /\ ReturnsStored(c, cc, C, P, s, cap)
        /\ AllNest(c, C, s, b, A)
        BY DEF StackInv
  <1>2. /\ s \in Seq(Elem) /\ l \in Nat
        /\ \A x \in P : x \in Nat /\ 1 <= x /\ x + 1 <= l /\ x + 1 \notin P
        /\ \A x \in C : x \in Nat /\ 3 <= x /\ x <= l /\ x - 2 \in Nat /\ x - 1 \in Nat
        /\ \A x, y \in C : x < y => x < y - 2
        /\ \A x \in P, y \in C : x + 1 < y - 2 \/ y < x
        /\ \A x \in C : s[x] \in StateRec /\ s[x].bp \in C \cup {0} /\ s[x].bp < x
        BY <1>1, Places
  <1>3. h \in Nat /\ 3 <= h /\ h <= l /\ m \in 0 .. l /\ m \in Nat /\ h - 2 = m + 1 /\ h = m + 3
        BY <1>2
  <1>4. /\ l \in Nat
        /\ \A x \in P : x \in Nat /\ 1 <= x /\ x + 1 <= l /\ x + 1 \notin P
        /\ \A x \in C : x \in Nat /\ 3 <= x /\ x <= l /\ x - 2 \in Nat /\ x - 1 \in Nat
        /\ \A x, y \in C : x < y => x < y - 2
        /\ \A x \in P, y \in C : x + 1 < y - 2 \/ y < x
        /\ \A k \in 1 .. l : k \in P \/ k - 1 \in P \/ \E x \in C : k \in x - 2 .. x
        BY <1>1, <1>2 DEF Geometry, Tiles
  <1>5. \A k \in h + 1 .. l : k \in kept <=> (k \in P \/ k - 1 \in P)
        BY <1>1, <1>4, KeptAre DEF Geometry
  <1>6. kept \in SUBSET (h + 1 .. l) BY DEF KeptAbove
  <1>7. h \notin P /\ l \notin P
    <2>1. \A x \in P : x # h BY <1>3, <1>4
    <2>2. \A x \in P : x # l BY <1>4
    <2> QED BY <2>1, <2>2
  <1>l. l \in Nat /\ h \in 0 .. l BY <1>3, <1>4
  <1>s. s \in Seq(Elem) /\ Len(s) = l BY <1>2
  <1> HIDE DEF kept, l, m
  <1>8. /\ u \in Nat
        /\ \A k \in kept : R(k) \in 1 .. u /\ (R(k) % 2 = 1 <=> k \in P)
        /\ \A j, k \in kept : j < k => R(j) < R(k)
        /\ \A r \in 1 .. u : \E k \in kept : R(k) = r
        /\ \A k \in kept : k \in P => k + 1 \in kept /\ R(k + 1) = R(k) + 1
        /\ u % 2 = 0
    <2>2. \A x \in P : x + 1 \notin P BY <1>4
    <2> QED BY <1>l, <1>5, <1>6, <1>7, <2>2, Ranks
  <1>9. Moved(kept, s) \in Seq(Elem) /\ Len(Moved(kept, s)) = u
        /\ \A k \in kept : Moved(kept, s)[R(k)] = s[k]
    <2> DEFINE at(r) == CHOOSE k \in kept : Rank(kept, k) = r
    <2>1. \A r \in 1 .. u : at(r) \in kept BY <1>8
    <2>2. \A k \in kept : k \in 1 .. l BY <1>3, <1>4, <1>6
    <2>3. \A k \in 1 .. l : s[k] \in Elem BY <1>s
    <2>4. \A r \in 1 .. u : s[at(r)] \in Elem BY <2>1, <2>2, <2>3
    <2>5. ASSUME NEW k \in kept PROVE at(R(k)) = k
      <3>1. R(k) \in 1 .. u BY <1>8
      <3>2. at(R(k)) \in kept /\ R(at(R(k))) = R(k)
        <4>1. \E j \in kept : Rank(kept, j) = R(k) OBVIOUS
        <4> QED BY <4>1
      <3> DEFINE j == at(R(k))
      <3> HIDE DEF j
      <3>3. j \in kept /\ R(j) = R(k) BY <3>2 DEF j
      <3>4. j \in Nat /\ k \in Nat /\ R(k) \in Nat BY <1>3, <1>6, <1>8, <3>3
      <3>5. ~(R(j) < R(k)) /\ ~(R(k) < R(j)) BY <1>8, <3>3, <3>4
      <3>6. ~(j < k) /\ ~(k < j) BY <1>8, <3>3, <3>5
      <3>7. j = k BY <3>4, <3>6
      <3> QED BY <3>7 DEF j
    <2> HIDE DEF at, u, R
    <2>6. Moved(kept, s) = [r \in 1 .. u |-> s[at(r)]] BY DEF Moved, at, u
    <2>7. Moved(kept, s) \in Seq(Elem) /\ Len(Moved(kept, s)) = u BY <1>8, <2>4, <2>6
    <2>8. \A k \in kept : Moved(kept, s)[R(k)] = s[k] BY <1>8, <2>5, <2>6
    <2> QED BY <2>7, <2>8
  <1> HIDE DEF u, R
  <1>10. /\ s2 \in Seq(Elem) /\ Len(s2) = m + u
         /\ \A k \in 1 .. m : s2[k] = s[k]
         /\ \A k \in kept : s2[m + R(k)] = s[k]
    <2> DEFINE low  == SubSeq(s, 1, m)
               high == Moved(kept, s)
    <2>1. low \in Seq(Elem) /\ Len(low) = m /\ \A k \in 1 .. m : low[k] = s[k] BY <1>s, <1>3
    <2>2. high \in Seq(Elem) /\ Len(high) = u BY <1>9
    <2> HIDE DEF low, high
    <2>3. low \o high \in Seq(Elem) /\ Len(low \o high) = m + u
          /\ (\A k \in 1 .. m : (low \o high)[k] = low[k])
          /\ \A r \in 1 .. u : (low \o high)[m + r] = high[r]
          BY <2>1, <2>2
    <2>4. s2 = low \o high BY DEF low, high
    <2>5. \A k \in kept : high[R(k)] = s[k] BY <1>9 DEF high
    <2> HIDE DEF s2
    <2> QED BY <1>8, <2>1, <2>3, <2>4, <2>5
  <1>11. Len(s2) <= l
    <2>1. h + 1 \in Int /\ l \in Int BY <1>3, <1>4
    <2>2. IsFiniteSet(h + 1 .. l) /\ Cardinality(h + 1 .. l) = IF h + 1 > l THEN 0 ELSE l - (h + 1) + 1
          BY <2>1, FS_Interval
    <2>3. u <= Cardinality(h + 1 .. l) BY <1>6, <2>2, FS_Subset DEF u
    <2>4. m + u <= l
      <3>1. m \in Nat /\ h \in Nat /\ u \in Nat /\ l \in Nat /\ h = m + 3 /\ h <= l
            BY <1>3, <1>l, <1>8
      <3>2. u <= l - h BY <2>2, <2>3, <3>1
      <3> QED BY <3>1, <3>2
    <2> QED BY <1>10, <2>4
  <1>12. b2 \in C2 \cup {0} /\ b2 < h /\ \A z \in C : z <= b2 \/ h <= z
    <2>1. Under(C, b2, h) BY <1>1 DEF Geometry
    <2> HIDE DEF b2
    <2> QED BY <2>1 DEF Under
  <1>13. C2 \subseteq C /\ (\A x \in C2 : x \in C /\ x < h) /\ \A x \in C : x < h => x \in C2
         OBVIOUS
  <1>14. \A x \in P : x < h => x \in P2 OBVIOUS
  \* The pairs are those below h, and those moved.
  <1>15. \A j \in P2 : \/ j \in P /\ j < h
                       \/ j \in m + 1 .. m + u /\ (j - m) % 2 = 1
         OBVIOUS
  <1>16. ASSUME NEW k \in P, k > h
         PROVE  /\ k \in kept /\ m + R(k) \in P2 /\ m + R(k) > m
                /\ s2[m + R(k)] = s[k] /\ s2[(m + R(k)) + 1] = s[k + 1]
    <2>0. k \in Nat /\ k + 1 <= l /\ h \in Nat /\ l \in Nat BY <1>3, <1>4, <1>l
    <2>1. k \in h + 1 .. l BY <2>0, <1>16
    <2>2. k \in kept BY <1>5, <2>1
    <2>3. k + 1 \in kept /\ R(k + 1) = R(k) + 1 /\ R(k) \in 1 .. u /\ R(k) % 2 = 1
          BY <1>8, <2>2
    <2>4. R(k) \in Nat /\ (m + R(k)) + 1 = m + R(k + 1) /\ (m + R(k)) - m = R(k)
          BY <1>3, <2>3
    <2>5. m + R(k) \in m + 1 .. m + u /\ m + R(k) > m
      <3>1. \A r \in 1 .. u : m + r \in m + 1 .. m + u /\ m + r > m BY <1>3, <1>8
      <3> QED BY <2>3, <3>1
    <2>6. m + R(k) \in P2 BY <2>3, <2>4, <2>5
    <2>7. s2[m + R(k)] = s[k] /\ s2[m + R(k + 1)] = s[k + 1] BY <1>10, <2>2, <2>3
    <2> QED BY <2>2, <2>4, <2>5, <2>6, <2>7
  <1>17. ASSUME NEW j \in P2
         PROVE  /\ j \in Nat /\ 1 <= j /\ j + 1 <= m + u
                /\ \/ j \in P /\ j + 1 <= m
                   \/ /\ m < j /\ (j - m) % 2 = 1
                      /\ \E k \in P : /\ k > h /\ k \in kept /\ j = m + R(k)
                                      /\ s2[j] = s[k] /\ s2[j + 1] = s[k + 1]
    <2> HIDE DEF P2
    <2>1. CASE j \in P /\ j < h
      <3>1. j \in Nat /\ 1 <= j /\ (j + 1 < h - 2 \/ h < j) BY <1>4, <2>1
      <3> QED BY <1>3, <1>8, <2>1, <3>1
    <2>2. CASE j \in m + 1 .. m + u /\ (j - m) % 2 = 1
      <3>1. j - m \in 1 .. u /\ j \in Nat /\ 1 <= j /\ m < j /\ j = m + (j - m)
            BY <1>3, <1>8, <2>2
      <3>2. PICK k \in kept : R(k) = j - m BY <1>8, <3>1
      <3>3. k \in P BY <1>8, <2>2, <3>2
      <3>4. k > h BY <1>3, <1>4, <1>6, <3>2
      <3>5. s2[m + R(k)] = s[k] /\ s2[(m + R(k)) + 1] = s[k + 1] BY <1>16, <3>3, <3>4
      <3>6. j - m # u BY <1>8, <2>2
      <3>7. j + 1 <= m + u BY <1>3, <1>8, <3>1, <3>6
      <3>8. j = m + R(k) BY <3>1, <3>2
      <3> QED BY <2>2, <3>1, <3>2, <3>3, <3>4, <3>5, <3>7, <3>8
    <2> QED BY <1>15, <2>1, <2>2
  <1> HIDE DEF s2, C2, P2, b2
  <1>18. \A x \in C2 : x \in Nat /\ 3 <= x /\ x <= m BY <1>3, <1>4, <1>13
  <1>19. /\ \A x \in C2 : s2[x] = s[x] /\ s2[x - 1] = s[x - 1] /\ s2[x - 2] = s[x - 2]
         /\ \A x \in P : x + 1 <= m => s2[x] = s[x] /\ s2[x + 1] = s[x + 1]
    <2>1. \A x \in C2 : x \in 1 .. m /\ x - 1 \in 1 .. m /\ x - 2 \in 1 .. m BY <1>3, <1>18
    <2>2. \A x \in P : x + 1 <= m => x \in 1 .. m /\ x + 1 \in 1 .. m BY <1>3, <1>4
    <2> QED BY <1>10, <2>1, <2>2
  <1>20. Geometry(C2, P2, s2, b2)
    <2>1. Tiles(P2, C2, m + u)
      <3>1. P2 \subseteq 1 .. m + u /\ C2 \subseteq 1 .. m + u
        <4>1. \A x \in P2 : x \in 1 .. m + u BY <1>3, <1>8, <1>17
        <4>2. \A x \in C2 : x \in 1 .. m + u BY <1>3, <1>8, <1>18
        <4> QED BY <4>1, <4>2
      <3>2. \A x \in P2 : x + 1 <= m + u /\ x + 1 \notin P2
        <4> SUFFICES ASSUME NEW x \in P2, x + 1 \in P2 PROVE FALSE BY <1>17
        <4>0. x \in Nat BY <1>17
        <4>1. CASE x \in P /\ x + 1 <= m
          <5>1. x + 1 \in P \/ m < x + 1 BY <1>17
          <5> QED BY <1>3, <1>4, <4>0, <4>1, <5>1
        <4>2. CASE m < x /\ (x - m) % 2 = 1
          <5>1. m < x + 1 /\ ~((x + 1) + 1 <= m) BY <1>3, <4>0, <4>2
          <5>2. ((x + 1) - m) % 2 = 1 BY <1>17, <5>1
          <5>3. \A d \in Nat : d % 2 = 1 => (d + 1) % 2 # 1 OBVIOUS
          <5>4. x - m \in Nat /\ (x + 1) - m = (x - m) + 1 BY <1>3, <4>0, <4>2
          <5> QED BY <4>2, <5>2, <5>3, <5>4
        <4> QED BY <1>17, <4>1, <4>2
      <3>3. \A x \in C2 : 1 <= x - 2 BY <1>18
      <3>4. \A x, y \in C2 : x < y => x < y - 2 BY <1>4, <1>13
      <3>5. \A x \in P2, y \in C2 : x + 1 < y - 2 \/ y < x
        <4> SUFFICES ASSUME NEW x \in P2, NEW y \in C2 PROVE x + 1 < y - 2 \/ y < x OBVIOUS
        <4>1. CASE x \in P BY <1>4, <1>13, <4>1
        <4>2. CASE m < x BY <1>3, <1>17, <1>18, <4>2
        <4> QED BY <1>17, <4>1, <4>2
      <3>6. ASSUME NEW k \in 1 .. m + u
            PROVE  k \in P2 \/ k - 1 \in P2 \/ \E x \in C2 : k \in x - 2 .. x
        <4>0. k \in Nat /\ 1 <= k /\ k <= m + u BY <1>3, <1>8
        <4>1. CASE k <= m
          <5>0. l \in Nat BY <1>4
          <5>1. k \in 1 .. l /\ k < h /\ k - 1 < h /\ k < h - 2 BY <1>3, <4>0, <4>1, <5>0
          <5>2. CASE k \in P BY <1>14, <5>1, <5>2
          <5>3. CASE k - 1 \in P BY <1>14, <5>1, <5>3
          <5>4. ASSUME NEW x \in C, k \in x - 2 .. x PROVE x \in C2
            <6>1. x \in Nat /\ x - 2 <= k BY <1>4, <5>4
            <6>2. x < h \/ x = h \/ h < x - 2 BY <1>3, <1>4, <6>1
            <6> QED BY <1>3, <1>13, <5>1, <6>1, <6>2
          <5> QED BY <1>4, <5>1, <5>2, <5>3, <5>4
        <4>2. CASE m < k
          <5>1. k - m \in 1 .. u /\ k = m + (k - m) BY <1>3, <1>8, <4>0, <4>2
          <5>2. PICK j \in kept : R(j) = k - m BY <1>8, <5>1
          <5>3. j \in P \/ j - 1 \in P BY <1>5, <1>6
          <5>4. j \in Nat /\ h < j /\ j <= l BY <1>3, <1>4, <1>6
          <5>5. CASE j \in P
            <6>1. m + R(j) \in P2 BY <1>16, <5>4, <5>5
            <6> QED BY <5>1, <5>2, <6>1
          <5>6. CASE j - 1 \in P
            <6>1. j - 1 # h BY <1>7, <5>6
            <6>2. j - 1 > h /\ (j - 1) + 1 = j BY <1>3, <5>4, <6>1
            <6>3. j - 1 \in kept /\ m + R(j - 1) \in P2 BY <1>16, <5>6, <6>2
            <6>4. R(j) = R(j - 1) + 1 /\ R(j - 1) \in Nat BY <1>8, <5>6, <6>2, <6>3
            <6>5. k - 1 = m + R(j - 1) BY <1>3, <5>1, <5>2, <6>4, <4>0
            <6> QED BY <6>3, <6>5
          <5> QED BY <5>3, <5>5, <5>6
        <4> QED BY <1>3, <4>0, <4>1, <4>2
      <3> QED BY <3>1, <3>2, <3>3, <3>4, <3>5, <3>6 DEF Tiles
    <2>2. Under(C2, b2, Len(s2) + 1)
      <3>1. b2 < (m + u) + 1 BY <1>3, <1>8, <1>12, <1>18
      <3>2. \A z \in C2 : z <= b2 BY <1>3, <1>12, <1>13, <1>18
      <3> QED BY <1>10, <1>12, <3>1, <3>2 DEF Under
    <2>3. ASSUME NEW x \in C2 PROVE s2[x] \in StateRec /\ Under(C2, s2[x].bp, x)
      <3>1. s[x] \in StateRec /\ Under(C, s[x].bp, x) /\ s2[x] = s[x]
            BY <1>1, <1>13, <1>19 DEF Geometry
      <3> DEFINE y == s[x].bp
      <3> HIDE DEF y
      <3>2. y \in C \cup {0} /\ y < x /\ \A z \in C : z <= y \/ x <= z
            BY <3>1 DEF Under, y
      <3>3. y \in C2 \cup {0}
        <4>1. x \in Nat /\ y \in Nat /\ x < h BY <1>4, <1>13, <3>2
        <4>2. y < h BY <1>3, <3>2, <4>1
        <4> QED BY <1>13, <3>2, <4>2
      <3>4. Under(C2, y, x) BY <1>13, <3>2, <3>3 DEF Under
      <3> QED BY <3>1, <3>4 DEF y
    <2> QED BY <1>10, <2>1, <2>2, <2>3 DEF Geometry
  <1>21. PairsFit(cc, rc, n, P2, s2)
    <2> SUFFICES ASSUME NEW j \in P2
                 PROVE  s2[j] \in Slots(cc, rc) /\ Fit(cc, n, s2[j], s2[j + 1])
        BY DEF PairsFit
    <2>1. \E k \in P : s2[j] = s[k] /\ s2[j + 1] = s[k + 1] BY <1>17, <1>19
    <2> QED BY <1>1, <2>1 DEF PairsFit
  <1>22. StatesFit(c, n, C2, s2) /\ AllNest(c, C2, s2, b2, Enclosing(c, s[h - 2]))
    <2>1. /\ StatesFit(c, n, C2, s2)
          /\ \A x \in C2 : Nests(c, s2, Enclosing(c, s2[x - 2]), s2[x].bp)
          /\ \A B, g : g \in C2 \cup {0} /\ Nests(c, s, B, g) => Nests(c, s2, B, g)
      <3>1. \A x \in C : Nests(c, s, Enclosing(c, s[x - 2]), s[x].bp)
            BY <1>1 DEF AllNest
      <3>2. \A x \in C2 : s[x].bp \in C2 \cup {0}
        <4>1. \A x \in C2 : Under(C2, s2[x].bp, x) /\ s2[x] = s[x]
              BY <1>19, <1>20 DEF Geometry
        <4> QED BY <4>1 DEF Under
      <3>3. \A x \in C2 : s2[x] = s[x] /\ s2[x - 1] = s[x - 1] /\ s2[x - 2] = s[x - 2]
            BY <1>19
      <3>4. StatesFit(c, n, C, s) /\ C2 \subseteq C BY <1>1, <1>13
      <3> QED BY <3>1, <3>2, <3>3, <3>4, StatesKept
    <2>2. Nests(c, s, Enclosing(c, s[h - 2]), b2) BY <1>1 DEF AllNest, b2
    <2> QED BY <1>12, <2>1, <2>2 DEF AllNest
  <1>23. Keeps(C, P, s, cap, C2, P2, s2, cap)
    <2> SUFFICES ASSUME NEW g \in C2 PROVE Undone(P2, s2, cap, g) = Undone(P, s, cap, g)
        BY DEF Keeps
    <2>0. g \in C /\ g < h /\ g \in Nat /\ g <= m BY <1>13, <1>18
    <2>1. ASSUME NEW i \in DOMAIN cap, NEW v, Oldest(P, s, cap, g, i, v)
          PROVE  Oldest(P2, s2, cap, g, i, v)
      <3>1. ASSUME NEW k \in P, k > g, s[k] = i, s[k + 1] = v,
                   \A j \in P : j > g /\ s[j] = i => k <= j
            PROVE  Oldest(P2, s2, cap, g, i, v)
        <4>0. k \in Nat /\ (k + 1 < h - 2 \/ h < k) BY <1>4
        <4>1. CASE k + 1 <= m
          <5>1. k \in P2 /\ s2[k] = i /\ s2[k + 1] = v BY <1>3, <1>14, <1>19, <3>1, <4>0, <4>1
          <5>2. ASSUME NEW j \in P2, j > g, s2[j] = i PROVE k <= j
            <6>1. CASE j \in P /\ j + 1 <= m BY <1>19, <3>1, <5>2, <6>1
            <6>2. CASE m < j BY <1>3, <1>17, <4>0, <4>1, <6>2
            <6> QED BY <1>17, <6>1, <6>2
          <5> QED BY <3>1, <5>1, <5>2 DEF Oldest
        <4>2. CASE h < k
          <5> DEFINE y == m + R(k)
          <5>1. k \in kept /\ y \in P2 /\ y > m /\ s2[y] = s[k] /\ s2[y + 1] = s[k + 1]
                BY <1>16, <4>2
          <5>0. R(k) \in Nat BY <1>8, <5>1
          <5>2. ASSUME NEW j \in P2, j > g, s2[j] = i PROVE y <= j
            <6>1. CASE j \in P /\ j + 1 <= m
              <7>1. s[j] = i BY <1>19, <5>2, <6>1
              <7>2. k <= j BY <3>1, <5>2, <6>1, <7>1
              <7>3. j \in Nat BY <1>17
              <7> QED BY <1>3, <4>0, <4>2, <6>1, <7>2, <7>3
            <6>2. ASSUME NEW x \in P, x > h, x \in kept, j = m + R(x), s2[j] = s[x] PROVE y <= j
              <7>1. x \in Nat /\ x > g BY <1>3, <1>4, <2>0, <6>2
              <7>2. k <= x BY <3>1, <5>2, <6>2, <7>1
              <7>3. k = x \/ R(k) < R(x) BY <1>8, <4>0, <5>1, <6>2, <7>1, <7>2
              <7>4. R(x) \in Nat BY <1>8, <6>2
              <7> QED BY <1>3, <5>0, <6>2, <7>3, <7>4
            <6> QED BY <1>17, <6>1, <6>2
          <5>3. y > g BY <1>3, <2>0, <5>0, <5>1
          <5> HIDE DEF y
          <5> QED BY <3>1, <5>1, <5>2, <5>3 DEF Oldest
        <4> QED BY <1>3, <4>0, <4>1, <4>2
      <3>2. ASSUME \A k \in P : k > g => s[k] # i, v = cap[i]
            PROVE  Oldest(P2, s2, cap, g, i, v)
        <4>1. ASSUME NEW j \in P2, j > g PROVE s2[j] # i
          <5>1. CASE j \in P /\ j + 1 <= m BY <1>19, <3>2, <4>1, <5>1
          <5>2. ASSUME NEW x \in P, x > h, s2[j] = s[x] PROVE s2[j] # i
            <6>1. x > g BY <1>3, <1>4, <2>0, <5>2
            <6> QED BY <3>2, <5>2, <6>1
          <5> QED BY <1>17, <5>1, <5>2
        <4> QED BY <3>2, <4>1 DEF Oldest
      <3> QED BY <2>1, <3>1, <3>2 DEF Oldest
    <2>2. \A i \in DOMAIN cap : \A v : Oldest(P, s, cap, g, i, v) => Oldest(P2, s2, cap, g, i, v)
          BY <2>1
    <2>3. \A x \in P2 : x \in Nat BY <1>17
    <2>4. \A x \in P : x \in Nat BY <1>4
    <2>5. Follows(P, s, cap, P2, s2, cap, g) BY <2>2, <2>3, <2>4 DEF Follows
    <2> QED BY <2>5, UndoneSame
  <1>24. ReturnsStored(c, cc, C2, P2, s2, cap)
    <2>1. C2 \subseteq C /\ \A x \in C2 : s2[x - 2] = s[x - 2] BY <1>13, <1>19
    <2> QED BY <1>1, <1>23, <2>1, ReturnsKept
  <1>25. StackInv(c, cc, rc, n, C2, P2, s2, b2, cap, Enclosing(c, s[h - 2]))
         BY <1>1, <1>20, <1>21, <1>22, <1>24 DEF StackInv
  <1> QED BY <1>11, <1>23, <1>25 DEF s2, C2, b2, l, m, kept

---------------------------------------------------------------------------
(***************************************************************************)
(* The stack of the interpreter is such a stack.                           *)
(***************************************************************************)
Here(C, P) ==
    StackInv(code, capture_count, register_count, Len(subject), C, P, stack, bp, capture,
             Enclosing(code, pc))

Fixed == UNCHANGED <<code, flags, capture_count, register_count, subject, utf16>>

\* What every step is to do.
Kept == IInv' /\ RestoresSame

LEMMA Views ==
  /\ Saved = Descent(stack)[bp] /\ Saved' = Descent(stack')[bp']
  /\ \A g : TopOf(g) = TopIn(Saved, Len(stack), g)
  /\ \A g : Pairs(g) = PairsIn(Saved, Len(stack), g)
  /\ \A h : UndoneTo(h) = UndoneIn(Saved, stack, capture, h)
  /\ \A h : UndoneTo(h)' = UndoneIn(Saved', stack', capture', h)
  <1>1. Saved = Descent(stack)[bp] /\ Saved' = Descent(stack')[bp'] BY DEF Saved, Descent
  <1>2. /\ \A g : TopOf(g) = TopIn(Saved, Len(stack), g)
        /\ \A g : TopOf(g)' = TopIn(Saved', Len(stack'), g)
        BY DEF TopOf, TopIn
  <1>3. /\ \A g : Pairs(g) = PairsIn(Saved, Len(stack), g)
        /\ \A g : Pairs(g)' = PairsIn(Saved', Len(stack'), g)
        BY <1>2 DEF Pairs, PairsIn
  <1>4. /\ \A h : UndoneTo(h) = UndoneIn(Saved, stack, capture, h)
        /\ \A h : UndoneTo(h)' = UndoneIn(Saved', stack', capture', h)
        BY <1>3 DEF UndoneTo, UndoneIn
  <1> QED BY <1>1, <1>2, <1>3, <1>4

LEMMA SavedIs ==
  ASSUME NEW C, NEW P, Here(C, P)
  PROVE  /\ Saved = C
         /\ \A h \in C : UndoneTo(h) = Undone(P, stack, capture, h)
         /\ \A g \in C \cup {0} : /\ Pairs(g) \subseteq P
                                  /\ (TopOf(g) - g) % 2 = 0
         /\ \A i : AlreadySaved(i) <=> \E k \in P : k > bp /\ stack[k] = i
  <1>1. Geometry(C, P, stack, bp) BY DEF Here, StackInv
  <1>2. Saved = C BY <1>1, Views, DescentIs
  <1>3. Len(stack) \in Nat /\ Tiles(P, C, Len(stack)) /\ Under(C, bp, Len(stack) + 1)
        BY <1>1 DEF Geometry
  <1>4. \A h \in C : UndoneTo(h) = Undone(P, stack, capture, h)
        BY <1>2, <1>3, Views, UndoneIs
  <1>5. \A g \in C \cup {0} : /\ Pairs(g) = {p \in P : g < p /\ p <= TopIn(C, Len(stack), g)}
                              /\ (TopOf(g) - g) % 2 = 0
    <2> SUFFICES ASSUME NEW g \in C \cup {0}
                 PROVE  /\ Pairs(g) = {p \in P : g < p /\ p <= TopIn(C, Len(stack), g)}
                        /\ (TopOf(g) - g) % 2 = 0
        OBVIOUS
    <2>1. Pairs(g) = PairsIn(C, Len(stack), g) /\ TopOf(g) = TopIn(C, Len(stack), g)
          BY <1>2, Views
    <2>2. /\ PairsIn(C, Len(stack), g) = {p \in P : g < p /\ p <= TopIn(C, Len(stack), g)}
          /\ (TopIn(C, Len(stack), g) - g) % 2 = 0
          BY <1>3, PairsAre
    <2> QED BY <2>1, <2>2
  <1>6. Pairs(bp) = {p \in P : p > bp}
    <2>1. bp \in C \cup {0} /\ bp \in Nat /\ \A z \in C : z \in Nat /\ z <= bp
          BY <1>1, Places
    <2>0. \A z \in C : ~(z > bp) BY <2>1
    <2>2. {z \in C : z > bp} = {} BY <2>0
    <2>3. TopIn(C, Len(stack), bp) = Len(stack) BY <2>2 DEF TopIn
    <2>4. \A p \in P : p \in Nat /\ p <= Len(stack) BY <1>3 DEF Tiles
    <2>5. Pairs(bp) = {p \in P : bp < p /\ p <= Len(stack)} BY <1>5, <2>1, <2>3
    <2> QED BY <2>1, <2>4, <2>5
  <1>7. \A i : AlreadySaved(i) <=> \E k \in P : k > bp /\ stack[k] = i
        BY <1>6 DEF AlreadySaved
  <1> QED BY <1>2, <1>4, <1>5, <1>7

\* A step that goes on.
LEMMA Goes ==
  ASSUME IInv, ret = "running", Fixed,
         NEW C, NEW P, Here(C, P), NEW C2, NEW P2,
         StackInv(code, capture_count, register_count, Len(subject), C2, P2,
                  stack', bp', capture', Enclosing(code, pc')),
         Keeps(C, P, stack, capture, C2, P2, stack', capture'),
         pc' \in InsStarts(code), cptr' \in 0 .. Len(subject),
         stack_size' \in Nat, Len(stack') <= stack_size',
         AllStored(capture_count, capture', LiveRegs(code, pc'))
  PROVE  Kept
  <1>0. /\ code' = code /\ capture_count' = capture_count /\ register_count' = register_count
        /\ subject' = subject
        BY DEF Fixed
  <1>1. IInv'
    <2>1. \E C3, P3 : StackInv(code, capture_count, register_count, Len(subject), C3, P3,
                               stack', bp', capture', Enclosing(code, pc'))
          OBVIOUS
    <2> QED BY <1>0, <2>1 DEF IInv
  <1>2. RestoresSame
    <2>1. Geometry(C2, P2, stack', bp') BY DEF StackInv
    <2>2. Saved' = C2 BY <2>1, Views, DescentIs
    <2>3. Saved = C BY SavedIs
    <2>4. \A h \in C2 : UndoneTo(h)' = Undone(P2, stack', capture', h)
      <3>1. Len(stack') \in Nat /\ Tiles(P2, C2, Len(stack')) BY <2>1 DEF Geometry
      <3> QED BY <2>2, <3>1, Views, UndoneIs
    <2>5. \A h \in C : UndoneTo(h) = Undone(P, stack, capture, h) BY SavedIs
    <2>6. \A h \in C \cap C2 : UndoneTo(h)' = UndoneTo(h) BY <2>4, <2>5 DEF Keeps
    <2> QED BY <2>2, <2>3, <2>6 DEF RestoresSame
  <1> QED BY <1>1, <1>2 DEF Kept

\* A step that ends.
LEMMA Stops ==
  ASSUME IInv, Fixed, ret' # "running"
  PROVE  Kept
  <1>0. /\ code' = code /\ capture_count' = capture_count /\ register_count' = register_count
        /\ subject' = subject
        BY DEF Fixed
  <1>1. IInv' BY <1>0 DEF IInv
  <1>2. RestoresSame BY DEF RestoresSame
  <1> QED BY <1>1, <1>2 DEF Kept

\* What the code promises of the instruction at pc.
LEMMA Legal ==
  ASSUME IInv, ret = "running"
  PROVE  /\ pc \in InsStarts(code) /\ pc \in Nat
         /\ After = NextOf(code, pc) /\ Target = TargetOf(code, pc)
         /\ Successors(code, pc) \subseteq InsStarts(code)
         /\ OperandsFit(Ins, capture_count, register_count)
         /\ LookaroundsFit(code, pc) /\ RegistersFit(code, pc)
         /\ \E C, P : Here(C, P)
         /\ cptr \in 0 .. Len(subject) /\ Len(subject) \in Nat
         /\ stack_size \in Nat /\ Len(stack) <= stack_size
         /\ AllStored(capture_count, capture, LiveRegs(code, pc))
         /\ capture_count \in Nat /\ register_count \in Nat
  <1>1. pc \in InsStarts(code) /\ Runnable(code, capture_count, register_count) BY DEF IInv
  <1>2. pc \in Nat BY <1>1 DEF InsStarts
  <1>3. After = NextOf(code, pc) BY DEF After, NextOf, Ins
  <1>4. Target = TargetOf(code, pc) BY <1>3 DEF Target, TargetOf, Ins
  <1>5. /\ Successors(code, pc) \subseteq InsStarts(code)
        /\ OperandsFit(Ins, capture_count, register_count)
        /\ LookaroundsFit(code, pc) /\ RegistersFit(code, pc)
        BY <1>1 DEF Runnable, Ins
  <1> QED BY <1>1, <1>2, <1>3, <1>4, <1>5 DEF IInv, Here

---------------------------------------------------------------------------
(***************************************************************************)
(* The ways a step goes on: at the next instruction or a target, or at a   *)
(* saved state.                                                            *)
(***************************************************************************)
LEMMA SameStack ==
  ASSUME NEW C, NEW P, NEW s, NEW cap
  PROVE  Keeps(C, P, s, cap, C, P, s, cap)
  BY DEF Keeps

\* Outside the instructions that open a lookaround, execution stays in the same
\* lookarounds, and registers are only taken out of use.
LEMMA Onward ==
  ASSUME IInv, ret = "running", NEW q \in Successors(code, pc),
         Ins.op \notin Lookarounds, Ins.op \notin Pushes
  PROVE  /\ q \in InsStarts(code)
         /\ Enclosing(code, q) = Enclosing(code, pc)
         /\ LiveRegs(code, q) \subseteq LiveRegs(code, pc)
  <1>1. /\ Successors(code, pc) \subseteq InsStarts(code)
        /\ LookaroundsFit(code, pc) /\ RegistersFit(code, pc)
        BY Legal
  <1>2. Enclosing(code, q) = Enclosing(code, pc) BY <1>1 DEF LookaroundsFit, Ins
  <1>3. LiveRegs(code, q) \subseteq LiveRegs(code, pc) BY <1>1 DEF RegistersFit, Ins
  <1> QED BY <1>1, <1>2, <1>3

LEMMA AdvanceKept ==
  ASSUME IInv, ret = "running", Fixed, NEW q \in Successors(code, pc),
         NEW x \in 0 .. Len(subject),
         Ins.op \notin Lookarounds, Ins.op \notin Pushes,
         Advance(q, x)
  PROVE  Kept
  <1>1. /\ q \in InsStarts(code) /\ Enclosing(code, q) = Enclosing(code, pc)
        /\ LiveRegs(code, q) \subseteq LiveRegs(code, pc)
        BY Onward
  <1>2. PICK C, P : Here(C, P) BY Legal
  <1>3. /\ pc' = q /\ cptr' = x /\ capture' = capture /\ stack' = stack /\ bp' = bp
        /\ stack_size' = stack_size
        BY DEF Advance
  <1>4. StackInv(code, capture_count, register_count, Len(subject), C, P,
                 stack', bp', capture', Enclosing(code, pc'))
        BY <1>1, <1>2, <1>3 DEF Here
  <1>5. Keeps(C, P, stack, capture, C, P, stack', capture') BY <1>3, SameStack
  <1>6. stack_size' \in Nat /\ Len(stack') <= stack_size' BY <1>3, Legal
  <1>7. AllStored(capture_count, capture', LiveRegs(code, pc'))
    <2>1. AllStored(capture_count, capture, LiveRegs(code, pc)) BY Legal
    <2> QED BY <1>1, <1>3, <2>1 DEF AllStored
  <1> QED BY <1>1, <1>2, <1>3, <1>4, <1>5, <1>6, <1>7, Goes

LEMMA RestoreKept ==
  ASSUME IInv, ret = "running", Fixed, NEW h \in Saved, Restore(h),
         stack_size' \in Nat, Len(stack) <= stack_size'
  PROVE  Kept
  <1>1. PICK C, P : Here(C, P) BY Legal
  <1>2. h \in C /\ UndoneTo(h) = Undone(P, stack, capture, h) BY <1>1, SavedIs
  <1>3. /\ capture' = Undone(P, stack, capture, h) /\ pc' = stack[h - 2]
        /\ cptr' = stack[h - 1] /\ bp' = stack[h].bp /\ stack' = SubSeq(stack, 1, h - 3)
        BY <1>2 DEF Restore
  <1> DEFINE C2 == {x \in C : x < h}
             P2 == {x \in P : x < h}
  <1>4. /\ StackInv(code, capture_count, register_count, Len(subject), C2, P2,
                    stack', bp', capture', Enclosing(code, pc'))
        /\ Keeps(C, P, stack, capture, C2, P2, stack', capture')
        /\ AllStored(capture_count, capture', LiveRegs(code, pc'))
        /\ pc' \in InsStarts(code) /\ cptr' \in 0 .. Len(subject)
        /\ Len(stack') <= Len(stack)
    <2>1. /\ capture_count \in Nat /\ register_count \in Nat /\ Len(subject) \in Nat
          BY Legal
    <2>2. StackInv(code, capture_count, register_count, Len(subject), C, P, stack, bp, capture,
                   Enclosing(code, pc))
          BY <1>1 DEF Here
    <2> QED BY <1>2, <1>3, <2>1, <2>2, ReturnTo
  <1>5. Len(stack') <= stack_size'
    <2>1. Len(stack) \in Nat
      <3>1. Geometry(C, P, stack, bp) BY <1>1 DEF Here, StackInv
      <3> QED BY <3>1, Places
    <2>2. Len(stack') \in Nat
      <3>1. Geometry(C2, P2, stack', bp') BY <1>4 DEF StackInv
      <3> QED BY <3>1, Places
    <2> QED BY <1>4, <2>1, <2>2
  <1> HIDE DEF C2, P2
  <1> QED BY <1>1, <1>4, <1>5, Goes

\* The newest of some saved states.
LEMMA NewestIs ==
  ASSUME IInv, ret = "running", NEW S, S \subseteq Saved, S # {}
  PROVE  Max(S) \in S /\ \A h \in S : h <= Max(S)
  <1>1. PICK C, P : Here(C, P) BY Legal
  <1>2. Saved = C BY <1>1, SavedIs
  <1>3. Geometry(C, P, stack, bp) BY <1>1 DEF Here, StackInv
  <1>4. Len(stack) \in Nat /\ \A h \in C : h \in Nat /\ h <= Len(stack) BY <1>3, Places
  <1>5. S \in SUBSET (0 .. Len(stack)) BY <1>2, <1>4
  <1> QED BY <1>4, <1>5, MaxIs

LEMMA NoMatchKept ==
  ASSUME IInv, ret = "running", Fixed, NEW size \in Nat, Len(stack) <= size, NoMatchIn(size)
  PROVE  Kept
  <1>1. CASE Resumable = {}
    <2>1. ret' = "no_match" BY <1>1 DEF NoMatchIn
    <2>2. ret' # "running" BY <2>1
    <2> QED BY <2>2, Stops
  <1>2. CASE Resumable # {}
    <2>1. Max(Resumable) \in Saved
      <3>1. Resumable \subseteq Saved BY DEF Resumable, SavedAs
      <3>2. Max(Resumable) \in Resumable BY <1>2, <3>1, NewestIs
      <3> QED BY <3>1, <3>2
    <2>2. Restore(Max(Resumable)) /\ stack_size' = size BY <1>2 DEF NoMatchIn
    <2> QED BY <2>1, <2>2, RestoreKept
  <1> QED BY <1>1, <1>2

\* A step that fails without asking for memory.
LEMMA FailureKept ==
  ASSUME IInv, ret = "running", Fixed, NoMatch
  PROVE  Kept
  <1>1. stack_size \in Nat /\ Len(stack) <= stack_size BY Legal
  <1>2. NoMatchIn(stack_size) BY DEF NoMatch
  <1> QED BY <1>1, <1>2, NoMatchKept

LEMMA MemoryKept ==
  ASSUME IInv, Fixed, OutOfMemory
  PROVE  Kept
  <1>1. ret' # "running" BY DEF OutOfMemory, MEMORY_ERROR
  <1> QED BY <1>1, Stops

\* CHECK_STACK_SPACE makes room.
LEMMA RoomIs ==
  ASSUME NEW size \in Nat, NEW height \in Nat, NEW n \in Nat, height <= size
  PROVE  Room(size, height, n) \in Nat /\ Room(size, height, n) >= height + n
  <1>1. CASE size - height >= n BY <1>1 DEF Room
  <1>2. CASE ~(size - height >= n)
    <2> DEFINE a == (size * 3) \div 2
               b == height + n
    <2>1. a \in Nat /\ b \in Nat OBVIOUS
    <2>2. Room(size, height, n) = Max({a, b}) BY <1>2 DEF Room
    <2> HIDE DEF a
    <2>3. {a, b} \in SUBSET (0 .. a + b) /\ {a, b} # {} /\ a + b \in Nat BY <2>1
    <2>4. Max({a, b}) \in {a, b} /\ \A y \in {a, b} : y <= Max({a, b}) BY <2>3, MaxIs
    <2> QED BY <2>1, <2>2, <2>4
  <1> QED BY <1>1, <1>2

---------------------------------------------------------------------------
(***************************************************************************)
(* The recursion that reads a back reference.                              *)
(***************************************************************************)
Iterates(f, D, stop, val, next) ==
    f = [d \in D |-> IF stop[d] THEN val[d] ELSE f[next[d]]]

Shrinks(D, N, mu, stop, next) ==
    /\ \A d \in D : mu[d] \in 0 .. N
    /\ \A d \in D : ~stop[d] => next[d] \in D /\ mu[next[d]] < mu[d]

Yields(D, stop, val, V) == \A d \in D : stop[d] => val[d] \in V

\* A recursion that goes on at a smaller argument until it stops has a solution,
\* and every solution has one of the values it stops at.
LEMMA IterationExists ==
  ASSUME NEW D, NEW N \in Nat, NEW mu, NEW stop, NEW val, NEW next,
         Shrinks(D, N, mu, stop, next)
  PROVE  \E f : Iterates(f, D, stop, val, next)
  <1> DEFINE Dom(n) == {d \in D : mu[d] < n}
             T == {n \in Nat : \E f : Iterates(f, Dom(n), stop, val, next)}
  <1>a. /\ \A d \in D : mu[d] \in 0 .. N
        /\ \A d \in D : ~stop[d] => next[d] \in D /\ mu[next[d]] < mu[d]
        BY DEF Shrinks
  <1>1. 0 \in T
    <2>1. Dom(0) = {}
      <3>1. \A d \in D : ~(mu[d] < 0) BY <1>a
      <3> QED BY <3>1
    <2> DEFINE f == [d \in {} |-> 0]
    <2>2. f = [d \in {} |-> IF stop[d] THEN val[d] ELSE f[next[d]]] OBVIOUS
    <2> HIDE DEF f, Dom
    <2>3. Iterates(f, Dom(0), stop, val, next) BY <2>1, <2>2 DEF Iterates
    <2> QED BY <2>3
  <1>2. ASSUME NEW n \in Nat, n \in T PROVE n + 1 \in T
    <2>1. PICK f : Iterates(f, Dom(n), stop, val, next) BY <1>2
    <2> DEFINE body(g, d) == IF stop[d] THEN val[d] ELSE g[next[d]]
               g == [d \in Dom(n + 1) |-> body(f, d)]
    <2>2. ASSUME NEW d \in Dom(n + 1), ~stop[d] PROVE next[d] \in Dom(n) /\ next[d] \in Dom(n + 1)
      <3>1. next[d] \in D /\ mu[next[d]] < mu[d] /\ mu[d] < n + 1 BY <1>a, <2>2
      <3>2. mu[next[d]] \in Nat /\ mu[d] \in Nat BY <1>a, <3>1
      <3>3. mu[next[d]] < n /\ mu[next[d]] < n + 1 BY <3>1, <3>2
      <3> QED BY <3>1, <3>3
    <2> HIDE DEF Dom
    <2>3. ASSUME NEW d \in Dom(n + 1) PROVE body(f, d) = body(g, d)
      <3>1. CASE stop[d] BY <3>1
      <3>2. CASE ~stop[d]
        <4> DEFINE y == next[d]
        <4>1. y \in Dom(n) /\ y \in Dom(n + 1) BY <2>2, <3>2
        <4> HIDE DEF y
        <4>2. f[y] = body(f, y)
          <5>1. f = [x \in Dom(n) |-> body(f, x)] BY <2>1 DEF Iterates
          <5> HIDE DEF body
          <5> QED BY <4>1, <5>1
        <4>3. g[y] = body(f, y)
          <5> HIDE DEF body
          <5> QED BY <4>1
        <4>4. f[y] = g[y] BY <4>2, <4>3
        <4> HIDE DEF g
        <4> QED BY <3>2, <4>4 DEF y
      <3> QED BY <3>1, <3>2
    <2>4. g = [d \in Dom(n + 1) |-> body(g, d)]
      <3> DEFINE h == [d \in Dom(n + 1) |-> body(g, d)]
      <3>1. \A d \in Dom(n + 1) : h[d] = body(g, d) OBVIOUS
      <3>2. \A d \in Dom(n + 1) : g[d] = body(f, d)
        <4> HIDE DEF body
        <4> QED OBVIOUS
      <3>3. g = [d \in Dom(n + 1) |-> g[d]] /\ h = [d \in Dom(n + 1) |-> h[d]]
        <4> HIDE DEF body
        <4> QED OBVIOUS
      <3>4. \A d \in Dom(n + 1) : g[d] = h[d] BY <2>3, <3>1, <3>2
      <3> HIDE DEF g, h
      <3>5. g = h BY <3>3, <3>4
      <3> QED BY <3>5 DEF h
    <2> HIDE DEF g
    <2>5. Iterates(g, Dom(n + 1), stop, val, next) BY <2>4 DEF Iterates
    <2> QED BY <2>5
  <1>3. Nat \subseteq T
    <2> HIDE DEF T
    <2> QED BY <1>1, <1>2, SetInduction
  <1>4. N + 1 \in T
    <2> HIDE DEF T
    <2> QED BY <1>3
  <1>5. Dom(N + 1) = D
    <2>1. \A d \in D : mu[d] < N + 1 BY <1>a
    <2> QED BY <2>1
  <1> HIDE DEF Dom
  <1> QED BY <1>4, <1>5

LEMMA IterationIs ==
  ASSUME NEW D, NEW N \in Nat, NEW mu, NEW stop, NEW val, NEW next,
         Shrinks(D, N, mu, stop, next),
         NEW f, Iterates(f, D, stop, val, next),
         NEW V, Yields(D, stop, val, V)
  PROVE  \A d \in D : f[d] \in V
  <1> DEFINE Bad == {d \in D : f[d] \notin V}
             S == {mu[d] : d \in Bad}
  <1>a. /\ \A d \in D : mu[d] \in 0 .. N
        /\ \A d \in D : ~stop[d] => next[d] \in D /\ mu[next[d]] < mu[d]
        BY DEF Shrinks
  <1>0. \A d \in D : f[d] = IF stop[d] THEN val[d] ELSE f[next[d]] BY DEF Iterates
  <1>1. SUFFICES ASSUME Bad # {} PROVE FALSE OBVIOUS
  <1>2. S \in SUBSET Nat /\ S # {} BY <1>1, <1>a
  <1>3. PICK x \in S : \A y \in S : x <= y BY <1>2, Least
  <1>4. PICK d \in Bad : x = mu[d] BY <1>3
  <1>5. d \in D /\ f[d] \notin V BY <1>4
  <1>6. ~stop[d] BY <1>0, <1>5 DEF Yields
  <1> DEFINE y == next[d]
  <1>7. y \in D /\ mu[y] < mu[d] /\ f[d] = f[y] BY <1>0, <1>5, <1>6, <1>a
  <1> HIDE DEF y
  <1>8. y \in Bad BY <1>5, <1>7
  <1>9. mu[y] \in S BY <1>8
  <1>10. mu[y] \in Nat /\ mu[d] \in Nat BY <1>5, <1>7, <1>a
  <1> HIDE DEF S
  <1> QED BY <1>3, <1>4, <1>7, <1>9, <1>10

\* Reading a character moves one or two positions, within the subject.
LEMMA ReadsForward ==
  ASSUME subject \in Seq(Nat), NEW p \in Nat, p < Len(subject)
  PROVE  /\ CharAt(subject, p, utf16).at \in p + 1 .. Len(subject)
         /\ CharAt(subject, p, utf16).at \in {p + 1, p + 2}
  BY DEF CharAt, PairAt

LEMMA ReadsBackward ==
  ASSUME subject \in Seq(Nat), NEW p \in Nat, NEW start \in Nat, start < p
  PROVE  CharBefore(subject, p, start, utf16).at \in start .. p - 1
  BY DEF CharBefore

\* A back reference ends at a position, or fails.
LEMMA MatchForwardIs ==
  ASSUME subject \in Seq(Nat), NEW s \in Positions, NEW e \in Positions,
         NEW p \in Positions, NEW i
  PROVE  MatchForward(s, e, p, i) \in {-1} \cup Positions
  <1> DEFINE n == Len(subject)
             D == Positions \X Positions
             a(d) == IF PairAt(subject, d[1], utf16) /\ d[1] + 1 < e
                     THEN CharAt(subject, d[1], utf16)
                     ELSE [c |-> subject[d[1] + 1], at |-> d[1] + 1]
             b(d) == CharAt(subject, d[2], utf16)
             Body(g, d) ==
                 IF d[1] >= e THEN d[2]
                 ELSE IF d[2] >= Len(subject) \/ Folded(a(d).c, i) # Folded(b(d).c, i) THEN -1
                 ELSE g[<<a(d).at, b(d).at>>]
             stop == [d \in D |-> \/ d[1] >= e \/ d[2] >= Len(subject)
                                  \/ Folded(a(d).c, i) # Folded(b(d).c, i)]
             val  == [d \in D |-> IF d[1] >= e THEN d[2] ELSE -1]
             next == [d \in D |-> <<a(d).at, b(d).at>>]
             mu   == [d \in D |-> n - d[1]]
             go   == CHOOSE g : g = [d \in D |-> Body(g, d)]
             V    == {-1} \cup Positions
  <1>1. n \in Nat /\ Positions = 0 .. n BY DEF Positions
  <1>2. \A d \in D : d[1] \in 0 .. n /\ d[2] \in 0 .. n BY <1>1
  <1>3. \A d \in D : mu[d] \in 0 .. n BY <1>1, <1>2
  <1>4. ASSUME NEW d \in D, ~stop[d] PROVE next[d] \in D /\ mu[next[d]] < mu[d]
    <2>1. d[1] \in Nat /\ d[2] \in Nat /\ d[1] < e /\ e \in Nat /\ e <= n /\ d[2] < n
          BY <1>1, <1>2, <1>4
    <2>2. b(d).at \in d[2] + 1 .. n BY <2>1, ReadsForward
    <2>3. a(d).at \in d[1] + 1 .. e
      <3>1. d[1] < n BY <1>1, <2>1
      <3>2. CharAt(subject, d[1], utf16).at \in {d[1] + 1, d[1] + 2} BY <2>1, <3>1, ReadsForward
      <3> DEFINE x == a(d).at
      <3>3. CASE PairAt(subject, d[1], utf16) /\ d[1] + 1 < e
        <4>1. x = CharAt(subject, d[1], utf16).at BY <3>3
        <4> HIDE DEF x
        <4>2. x \in d[1] + 1 .. e BY <2>1, <3>2, <3>3, <4>1
        <4> QED BY <4>2 DEF x
      <3>4. CASE ~(PairAt(subject, d[1], utf16) /\ d[1] + 1 < e)
        <4>1. x = d[1] + 1 BY <3>4
        <4> HIDE DEF x
        <4>2. x \in d[1] + 1 .. e BY <2>1, <4>1
        <4> QED BY <4>2 DEF x
      <3> QED BY <3>3, <3>4
    <2> DEFINE x == a(d).at
               y == b(d).at
    <2>4. next[d] = <<x, y>> /\ x \in d[1] + 1 .. e /\ y \in d[2] + 1 .. n BY <2>2, <2>3
    <2> HIDE DEF x, y, next, stop
    <2>5. x \in Nat /\ x <= n /\ d[1] < x /\ y \in Nat /\ y <= n
          BY <1>1, <2>1, <2>4
    <2>6. <<x, y>> \in D BY <1>1, <2>5
    <2>7. mu[<<x, y>>] = n - x /\ mu[d] = n - d[1] BY <2>6
    <2>8. mu[<<x, y>>] < mu[d] BY <1>1, <2>1, <2>5, <2>7
    <2> QED BY <2>4, <2>6, <2>8
  <1>5. Yields(D, stop, val, V) BY <1>1, <1>2 DEF Yields
  <1>6. \A g : [d \in D |-> Body(g, d)] = [d \in D |-> IF stop[d] THEN val[d] ELSE g[next[d]]]
    <2> SUFFICES ASSUME NEW g
                 PROVE  \A d \in D : Body(g, d) = IF stop[d] THEN val[d] ELSE g[next[d]]
        OBVIOUS
    <2> HIDE DEF a, b
    <2> QED OBVIOUS
  <1>7. MatchForward(s, e, p, i) = go[<<s, p>>] BY DEF MatchForward
  <1>8. <<s, p>> \in D OBVIOUS
  <1>a. Shrinks(D, n, mu, stop, next)
    <2> HIDE DEF D, stop, mu, next
    <2> QED BY <1>3, <1>4 DEF Shrinks
  <1> HIDE DEF stop, val, next, mu, Body, D, V
  <1>9. \E g : g = [d \in D |-> Body(g, d)]
    <2>1. PICK g : Iterates(g, D, stop, val, next) BY <1>1, <1>a, IterationExists
    <2>2. g = [d \in D |-> Body(g, d)] BY <1>6, <2>1 DEF Iterates
    <2> QED BY <2>2
  <1>10. go = [d \in D |-> Body(go, d)] BY <1>9
  <1> HIDE DEF go
  <1>11. Iterates(go, D, stop, val, next) BY <1>6, <1>10 DEF Iterates
  <1>12. \A d \in D : go[d] \in V BY <1>1, <1>a, <1>5, <1>11, IterationIs
  <1> QED BY <1>7, <1>8, <1>12 DEF V

LEMMA MatchBackwardIs ==
  ASSUME subject \in Seq(Nat), NEW s \in Positions, NEW e \in Positions,
         NEW p \in Positions, NEW i
  PROVE  MatchBackward(s, e, p, i) \in {-1} \cup Positions
  <1> DEFINE n == Len(subject)
             D == Positions \X Positions
             a(d) == CharBefore(subject, d[1], s, utf16)
             b(d) == CharBefore(subject, d[2], 0, utf16)
             Body(g, d) ==
                 IF d[1] <= s THEN d[2]
                 ELSE IF d[2] = 0 \/ Folded(a(d).c, i) # Folded(b(d).c, i) THEN -1
                 ELSE g[<<a(d).at, b(d).at>>]
             stop == [d \in D |-> \/ d[1] <= s \/ d[2] = 0
                                  \/ Folded(a(d).c, i) # Folded(b(d).c, i)]
             val  == [d \in D |-> IF d[1] <= s THEN d[2] ELSE -1]
             next == [d \in D |-> <<a(d).at, b(d).at>>]
             mu   == [d \in D |-> d[1]]
             go   == CHOOSE g : g = [d \in D |-> Body(g, d)]
             V    == {-1} \cup Positions
  <1>1. n \in Nat /\ Positions = 0 .. n BY DEF Positions
  <1>2. \A d \in D : d[1] \in 0 .. n /\ d[2] \in 0 .. n BY <1>1
  <1>3. \A d \in D : mu[d] \in 0 .. n BY <1>1, <1>2
  <1>4. ASSUME NEW d \in D, ~stop[d] PROVE next[d] \in D /\ mu[next[d]] < mu[d]
    <2>1. d[1] \in Nat /\ d[2] \in Nat /\ s < d[1] /\ s \in Nat /\ d[1] <= n /\ d[2] <= n /\ 0 < d[2]
          BY <1>1, <1>2, <1>4
    <2>2. b(d).at \in 0 .. d[2] - 1 BY <2>1, ReadsBackward
    <2>3. a(d).at \in s .. d[1] - 1 BY <2>1, ReadsBackward
    <2> DEFINE x == a(d).at
               y == b(d).at
    <2>4. next[d] = <<x, y>> /\ x \in s .. d[1] - 1 /\ y \in 0 .. d[2] - 1 BY <2>2, <2>3
    <2> HIDE DEF x, y, next, stop
    <2>5. x \in Nat /\ x <= n /\ x < d[1] /\ y \in Nat /\ y <= n
          BY <1>1, <2>1, <2>4
    <2>6. <<x, y>> \in D BY <1>1, <2>5
    <2>7. mu[<<x, y>>] = x /\ mu[d] = d[1] BY <2>6
    <2>8. mu[<<x, y>>] < mu[d] BY <2>5, <2>7
    <2> QED BY <2>4, <2>6, <2>8
  <1>5. Yields(D, stop, val, V) BY <1>1, <1>2 DEF Yields
  <1>6. \A g : [d \in D |-> Body(g, d)] = [d \in D |-> IF stop[d] THEN val[d] ELSE g[next[d]]]
    <2> SUFFICES ASSUME NEW g
                 PROVE  \A d \in D : Body(g, d) = IF stop[d] THEN val[d] ELSE g[next[d]]
        OBVIOUS
    <2> HIDE DEF a, b
    <2> QED OBVIOUS
  <1>7. MatchBackward(s, e, p, i) = go[<<e, p>>] BY DEF MatchBackward
  <1>8. <<e, p>> \in D OBVIOUS
  <1>a. Shrinks(D, n, mu, stop, next)
    <2> HIDE DEF D, stop, mu, next
    <2> QED BY <1>3, <1>4 DEF Shrinks
  <1> HIDE DEF stop, val, next, mu, Body, D, V
  <1>9. \E g : g = [d \in D |-> Body(g, d)]
    <2>1. PICK g : Iterates(g, D, stop, val, next) BY <1>1, <1>a, IterationExists
    <2>2. g = [d \in D |-> Body(g, d)] BY <1>6, <2>1 DEF Iterates
    <2> QED BY <2>2
  <1>10. go = [d \in D |-> Body(go, d)] BY <1>9
  <1> HIDE DEF go
  <1>11. Iterates(go, D, stop, val, next) BY <1>6, <1>10 DEF Iterates
  <1>12. \A d \in D : go[d] \in V BY <1>1, <1>a, <1>5, <1>11, IterationIs
  <1> QED BY <1>7, <1>8, <1>12 DEF V

---------------------------------------------------------------------------
(***************************************************************************)
(* The steps that leave the stack alone, or fail.                          *)
(***************************************************************************)
LEMMA NextIs ==
  ASSUME IInv, ret = "running", Ins.op \notin Ends, Ins.op # "goto"
  PROVE  After \in Successors(code, pc)
  <1>1. After = NextOf(code, pc) BY Legal
  <1> QED BY <1>1 DEF Successors, Ins

LEMMA TargetIs ==
  ASSUME IInv, ret = "running", Ins.op \in Loops \cup Lookarounds \cup Splits \cup {"goto"}
  PROVE  Target \in Successors(code, pc)
  <1>1. Target = TargetOf(code, pc) BY Legal
  <1> QED BY <1>1 DEF Successors, Ins

Plain == Consuming \cup {"prev", "line_start", "line_start_m", "line_end", "line_end_m",
                         "word_boundary", "not_word_boundary", "back_reference",
                         "backward_back_reference", "check_advance"}

\* An instruction that succeeds at the next one or fails.
LEMMA PassKept ==
  ASSUME IInv, ret = "running", Fixed, Ins.op \in Plain, NEW x,
         \/ x \in 0 .. Len(subject) /\ Advance(After, x)
         \/ NoMatch
  PROVE  Kept
  <1>1. /\ Ins.op \notin Ends /\ Ins.op # "goto"
        /\ Ins.op \notin Lookarounds /\ Ins.op \notin Pushes
        BY DEF Plain, Consuming, Ends, Lookarounds, Pushes
  <1>2. CASE NoMatch BY <1>2, FailureKept
  <1>3. CASE x \in 0 .. Len(subject) /\ Advance(After, x)
    <2>1. After \in Successors(code, pc) BY <1>1, NextIs
    <2> QED BY <1>1, <1>3, <2>1, AdvanceKept
  <1> QED BY <1>2, <1>3

LEMMA Numbers ==
  ASSUME IInv, ret = "running"
  PROVE  subject \in Seq(Nat) /\ Len(subject) \in Nat /\ cptr \in Nat /\ cptr <= Len(subject)
         /\ cptr \in 0 .. Len(subject)
  BY DEF IInv

LEMMA OpCharKept == ASSUME IInv, Fixed, OpChar PROVE Kept
  <1>1. ret = "running" /\ Ins.op \in Plain BY DEF OpChar, Running, Plain
  <1>2. CASE ~AtEnd /\ Accepts(Ins, Cur.c)
    <2>1. Advance(After, Cur.at) BY <1>2 DEF OpChar
    <2>2. cptr < Len(subject) BY <1>1, <1>2, Numbers DEF AtEnd
    <2>3. Cur.at \in cptr + 1 .. Len(subject) BY <1>1, <2>2, Numbers, ReadsForward DEF Cur
    <2>4. Cur.at \in 0 .. Len(subject)
      <3> DEFINE x == Cur.at
      <3> HIDE DEF x
      <3>1. x \in cptr + 1 .. Len(subject) BY <2>3 DEF x
      <3>2. x \in 0 .. Len(subject) BY <1>1, <3>1, Numbers
      <3> QED BY <3>2 DEF x
    <2> QED BY <1>1, <2>1, <2>4, PassKept
  <1>3. CASE ~(~AtEnd /\ Accepts(Ins, Cur.c))
    <2>1. NoMatch BY <1>3 DEF OpChar
    <2> QED BY <1>1, <2>1, PassKept
  <1> QED BY <1>2, <1>3

LEMMA OpPrevKept == ASSUME IInv, Fixed, OpPrev PROVE Kept
  <1>1. ret = "running" /\ Ins.op \in Plain BY DEF OpPrev, Running, Plain
  <1>2. CASE cptr # 0
    <2> DEFINE x == CharBefore(subject, cptr, 0, utf16).at
    <2>1. Advance(After, x) BY <1>2 DEF OpPrev
    <2>2. x \in 0 .. cptr - 1 BY <1>1, <1>2, Numbers, ReadsBackward
    <2> HIDE DEF x
    <2>3. x \in 0 .. Len(subject) BY <1>1, <2>2, Numbers
    <2> QED BY <1>1, <2>1, <2>3, PassKept
  <1>3. CASE cptr = 0
    <2>1. NoMatch BY <1>3 DEF OpPrev
    <2> QED BY <1>1, <2>1, PassKept
  <1> QED BY <1>2, <1>3

LEMMA OpLineStartKept == ASSUME IInv, Fixed, OpLineStart PROVE Kept
  <1>1. ret = "running" /\ Ins.op \in Plain BY DEF OpLineStart, Running, Plain
  <1>2. Advance(After, cptr) \/ NoMatch BY DEF OpLineStart
  <1>3. cptr \in 0 .. Len(subject) BY <1>1, Numbers
  <1> QED BY <1>1, <1>2, <1>3, PassKept

LEMMA OpLineEndKept == ASSUME IInv, Fixed, OpLineEnd PROVE Kept
  <1>1. ret = "running" /\ Ins.op \in Plain BY DEF OpLineEnd, Running, Plain
  <1>2. Advance(After, cptr) \/ NoMatch BY DEF OpLineEnd
  <1>3. cptr \in 0 .. Len(subject) BY <1>1, Numbers
  <1> QED BY <1>1, <1>2, <1>3, PassKept

LEMMA OpWordBoundaryKept == ASSUME IInv, Fixed, OpWordBoundary PROVE Kept
  <1>1. ret = "running" /\ Ins.op \in Plain BY DEF OpWordBoundary, Running, Plain
  <1>2. Advance(After, cptr) \/ NoMatch BY DEF OpWordBoundary
  <1>3. cptr \in 0 .. Len(subject) BY <1>1, Numbers
  <1> QED BY <1>1, <1>2, <1>3, PassKept

LEMMA OpCheckAdvanceKept == ASSUME IInv, Fixed, OpCheckAdvance PROVE Kept
  <1>1. ret = "running" /\ Ins.op \in Plain BY DEF OpCheckAdvance, Running, Plain
  <1>2. Advance(After, cptr) \/ NoMatch BY DEF OpCheckAdvance
  <1>3. cptr \in 0 .. Len(subject) BY <1>1, Numbers
  <1> QED BY <1>1, <1>2, <1>3, PassKept

LEMMA OpGotoKept == ASSUME IInv, Fixed, OpGoto PROVE Kept
  <1>1. ret = "running" /\ Ins.op = "goto" /\ Advance(Target, cptr) BY DEF OpGoto, Running
  <1>2. Target \in Successors(code, pc) BY <1>1, TargetIs
  <1>3. Ins.op \notin Lookarounds /\ Ins.op \notin Pushes BY <1>1 DEF Lookarounds, Pushes
  <1>4. cptr \in 0 .. Len(subject) BY <1>1, Numbers
  <1> QED BY <1>1, <1>2, <1>3, <1>4, AdvanceKept

LEMMA OpMatchKept == ASSUME IInv, Fixed, OpMatch PROVE Kept
  <1>1. ret' # "running" BY DEF OpMatch
  <1> QED BY <1>1, Stops

LEMMA ElementsAre == ASSUME NEW S, NEW t \in Seq(S), NEW m \in DOMAIN t PROVE t[m] \in S
  OBVIOUS

\* A group that has taken part in the match has a start and an end.
LEMMA OpBackReferenceKept == ASSUME IInv, Fixed, OpBackReference PROVE Kept
  <1>1. /\ ret = "running" /\ Ins.op \in {"back_reference", "backward_back_reference"}
        /\ Ins.op \in Plain
        BY DEF OpBackReference, Running, Plain
  <1> DEFINE set == {n \in DOMAIN Ins.groups : IsSet(Ins.groups[n])}
             g   == Ins.groups[Min(set)]
             s   == capture[2 * g]
             e   == capture[2 * g + 1]
             p   == IF Ins.op = "back_reference"
                    THEN MatchForward(s, e, cptr, Ins.i)
                    ELSE MatchBackward(s, e, cptr, Ins.i)
  <1>2. IF set = {} THEN Advance(After, cptr)
        ELSE IF p = -1 THEN NoMatch ELSE Advance(After, p)
        BY DEF OpBackReference
  <1>3. subject \in Seq(Nat) /\ Positions = 0 .. Len(subject) /\ cptr \in Positions
        BY <1>1, Numbers DEF Positions
  <1>4. CASE set = {}
    <2>1. Advance(After, cptr) /\ cptr \in 0 .. Len(subject) BY <1>2, <1>3, <1>4
    <2> QED BY <1>1, <2>1, PassKept
  <1>5. CASE set # {}
    <2>1. Ins.groups \in Seq(0 .. capture_count - 1) /\ capture_count \in Nat
          /\ register_count \in Nat
      <3>1. OperandsFit(Ins, capture_count, register_count) /\ capture_count \in Nat
            /\ register_count \in Nat
            BY <1>1, Legal
      <3> QED BY <1>1, <3>1 DEF OperandsFit
    <2>2. Min(set) \in set
      <3>1. \A n \in DOMAIN Ins.groups : n \in Nat BY <2>1
      <3>2. set \in SUBSET Nat BY <3>1
      <3> QED BY <1>5, <3>2, MinIs
    <2>3. Min(set) \in DOMAIN Ins.groups /\ IsSet(g) BY <2>2
    <2>4. g \in 0 .. capture_count - 1
      <3> DEFINE m == Min(set)
      <3>1. g = Ins.groups[m] /\ m \in DOMAIN Ins.groups BY <2>3
      <3> HIDE DEF m, g, set
      <3> DEFINE t == Ins.groups
      <3>2. t \in Seq(0 .. capture_count - 1) /\ m \in DOMAIN t /\ g = t[m] BY <2>1, <3>1
      <3> HIDE DEF t
      <3>3. t[m] \in 0 .. capture_count - 1 BY <3>2, ElementsAre
      <3> QED BY <3>2, <3>3
    <2> HIDE DEF g
    <2>5. s \in Positions /\ e \in Positions
      <3>1. PICK C, P : Here(C, P) BY <1>1, Legal
      <3>2. CaptureFits(capture_count, register_count, Len(subject), capture)
            BY <3>1 DEF Here, StackInv
      <3>3. \A i \in Slots(capture_count, register_count) :
               i < 2 * capture_count => capture[i] \in {Null} \cup 0 .. Len(subject)
            BY <3>2 DEF CaptureFits, Fit
      <3>4. /\ 2 * g \in Slots(capture_count, register_count) /\ 2 * g < 2 * capture_count
            /\ 2 * g + 1 \in Slots(capture_count, register_count)
            /\ 2 * g + 1 < 2 * capture_count
            BY <2>1, <2>4 DEF Slots
      <3>5. s # Null /\ e # Null BY <2>3 DEF IsSet
      <3>6. capture[2 * g] \in {Null} \cup 0 .. Len(subject) BY <3>3, <3>4
      <3>7. capture[2 * g + 1] \in {Null} \cup 0 .. Len(subject) BY <3>3, <3>4
      <3> QED BY <1>3, <3>5, <3>6, <3>7
    <2> HIDE DEF s, e
    <2>6. p \in {-1} \cup Positions BY <1>3, <2>5, MatchForwardIs, MatchBackwardIs
    <2>7. NoMatch \/ (p \in 0 .. Len(subject) /\ Advance(After, p))
      <3> HIDE DEF p, set
      <3>1. CASE p = -1 BY <1>2, <1>5, <3>1
      <3>2. CASE p # -1
        <4>1. p \in 0 .. Len(subject) BY <1>3, <2>6, <3>2
        <4>2. Advance(After, p) BY <1>2, <1>5, <3>2
        <4> QED BY <4>1, <4>2
      <3> QED BY <3>1, <3>2
    <2> HIDE DEF p
    <2> QED BY <1>1, <2>7, PassKept
  <1> QED BY <1>4, <1>5

---------------------------------------------------------------------------
(***************************************************************************)
(* The steps that save a state.                                            *)
(***************************************************************************)
LEMMA Pushed ==
  ASSUME NEW s \in Seq(Elem), NEW x \in Elem, NEW y \in Elem, NEW z \in Elem
  PROVE  Len(s \o <<x, y, z>>) = Len(s) + 3
  <1>1. <<x, y, z>> \in Seq(Elem) /\ Len(<<x, y, z>>) = 3 OBVIOUS
  <1> QED BY <1>1

\* A state is saved on a stack that restores what the present one does.
LEMMA SaveGoes ==
  ASSUME IInv, ret = "running", Fixed,
         NEW C, NEW P, Here(C, P), NEW P1, NEW stk, NEW cap,
         StackInv(code, capture_count, register_count, Len(subject), C, P1, stk, bp, cap,
                  Enclosing(code, pc)),
         Keeps(C, P, stack, capture, C, P1, stk, cap),
         NEW p \in InsStarts(code), NEW next \in InsStarts(code),
         NEW type \in {"split", "lookahead", "negative_lookahead"},
         Enclosing(code, p) = Enclosing(code, pc),
         Nested(code, Enclosing(code, next), [bp |-> bp, type |-> type], p),
         AllStored(capture_count, cap, LiveRegs(code, p)),
         AllStored(capture_count, cap, LiveRegs(code, next)),
         stack_size' \in Nat, Len(stk) + 3 <= stack_size',
         stack' = stk \o <<p, cptr, [bp |-> bp, type |-> type]>>,
         bp' = Len(stk) + 3, pc' = next, cptr' = cptr, capture' = cap
  PROVE  Kept
  <1> DEFINE rec == [bp |-> bp, type |-> type]
             C2  == C \cup {Len(stk) + 3}
  <1>1. Geometry(C, P1, stk, bp) BY DEF StackInv
  <1>2. bp \in Nat /\ Len(stk) \in Nat /\ stk \in Seq(Elem) /\ \A h \in C : h \in Nat /\ h <= Len(stk)
        BY <1>1, Places
  <1>3. /\ capture_count \in Nat /\ register_count \in Nat /\ Len(subject) \in Nat
        /\ cptr \in 0 .. Len(subject)
        BY Legal
  <1>4. rec \in StateRec /\ rec.bp = bp BY <1>2 DEF StateRec
  <1>5. p \in Int BY DEF InsStarts
  <1>6. Nests(code, stk, Enclosing(code, p), bp) BY DEF StackInv, AllNest
  <1> HIDE DEF rec
  <1>7. /\ stack' = stk \o <<p, cptr, rec>> /\ Nested(code, Enclosing(code, next), rec, p)
        BY DEF rec
  <1>8. /\ StackInv(code, capture_count, register_count, Len(subject), C2, P1,
                    stk \o <<p, cptr, rec>>, Len(stk) + 3, cap, Enclosing(code, next))
        /\ Keeps(C, P1, stk, cap, C2, P1, stk \o <<p, cptr, rec>>, cap)
    <2> DEFINE n   == Len(subject)
               A   == Enclosing(code, pc)
               A2  == Enclosing(code, next)
               cc  == capture_count
               rc  == register_count
    <2>1. StackInv(code, cc, rc, n, C, P1, stk, bp, cap, A) /\ cc \in Nat /\ rc \in Nat /\ n \in Nat
          BY <1>3
    <2>2. /\ cptr \in 0 .. n /\ AllStored(cc, cap, LiveRegs(code, p)) /\ Nested(code, A2, rec, p)
          /\ Nests(code, stk, Enclosing(code, p), bp)
          BY <1>3, <1>6, <1>7
    <2> HIDE DEF n, A, A2, cc, rc
    <2>3. /\ StackInv(code, cc, rc, n, C \cup {Len(stk) + 3}, P1,
                      stk \o <<p, cptr, rec>>, Len(stk) + 3, cap, A2)
          /\ Keeps(C, P1, stk, cap, C \cup {Len(stk) + 3}, P1, stk \o <<p, cptr, rec>>, cap)
          BY <1>4, <1>5, <2>1, <2>2, SaveState
    <2> QED BY <2>3 DEF n, A2, cc, rc
  <1>9. StackInv(code, capture_count, register_count, Len(subject), C2, P1,
                 stack', bp', capture', Enclosing(code, pc'))
        BY <1>7, <1>8
  <1>10. Keeps(C, P, stack, capture, C2, P1, stack', capture')
    <2>1. Keeps(C, P1, stk, cap, C2, P1, stack', capture') BY <1>7, <1>8
    <2> QED BY <2>1 DEF Keeps
  <1>11. Len(stack') <= stack_size'
    <2>1. Geometry(C2, P1, stack', bp') BY <1>9 DEF StackInv
    <2>2. p \in Elem /\ cptr \in Elem /\ rec \in Elem BY <1>3, <1>4, <1>5 DEF Elem
    <2>3. Len(stack') = Len(stk) + 3 BY <1>2, <1>7, <2>2, Pushed
    <2> QED BY <2>3
  <1> HIDE DEF C2
  <1> QED BY <1>3, <1>9, <1>10, <1>11, Goes

\* PushState on the stack as it is.
LEMMA PushKept ==
  ASSUME IInv, ret = "running", Fixed,
         NEW p \in InsStarts(code), NEW next \in InsStarts(code),
         NEW type \in {"split", "lookahead", "negative_lookahead"},
         Enclosing(code, p) = Enclosing(code, pc),
         Nested(code, Enclosing(code, next), [bp |-> bp, type |-> type], p),
         LiveRegs(code, p) \subseteq LiveRegs(code, pc),
         LiveRegs(code, next) \subseteq LiveRegs(code, pc),
         PushState(p, type, next)
  PROVE  Kept
  <1> DEFINE size == Room(stack_size, Len(stack), 3)
  <1>1. PICK C, P : Here(C, P) BY Legal
  <1>2. Geometry(C, P, stack, bp) BY <1>1 DEF Here, StackInv
  <1>3. Len(stack) \in Nat BY <1>2, Places
  <1>4. stack_size \in Nat /\ Len(stack) <= stack_size BY Legal
  <1>5. size \in Nat /\ Len(stack) + 3 <= size BY <1>3, <1>4, RoomIs
  <1> HIDE DEF size
  <1>6. CASE size > StackMax
    <2>1. OutOfMemory BY <1>6 DEF PushState, size
    <2> QED BY <2>1, MemoryKept
  <1>7. CASE ~(size > StackMax)
    <2>1. /\ stack_size' = size /\ stack' = stack \o <<p, cptr, [bp |-> bp, type |-> type]>>
          /\ bp' = Len(stack) + 3 /\ pc' = next /\ cptr' = cptr /\ capture' = capture
          BY <1>7 DEF PushState, size, Grown, SavedState
    <2>2. /\ AllStored(capture_count, capture, LiveRegs(code, p))
          /\ AllStored(capture_count, capture, LiveRegs(code, next))
      <3>1. AllStored(capture_count, capture, LiveRegs(code, pc)) BY Legal
      <3> QED BY <3>1 DEF AllStored
    <2>3. Keeps(C, P, stack, capture, C, P, stack, capture) BY SameStack
    <2>4. StackInv(code, capture_count, register_count, Len(subject), C, P, stack, bp, capture,
                   Enclosing(code, pc))
          BY <1>1 DEF Here
    <2>5. stack_size' \in Nat /\ Len(stack) + 3 <= stack_size' BY <1>5, <2>1
    <2> QED BY <1>1, <2>1, <2>2, <2>3, <2>4, <2>5, SaveGoes
  <1> QED BY <1>6, <1>7

LEMMA OpSplitKept == ASSUME IInv, Fixed, OpSplit PROVE Kept
  <1>1. ret = "running" /\ Ins.op \in Splits BY DEF OpSplit, Running, Splits
  <1>2. /\ Ins.op \notin Ends /\ Ins.op # "goto" /\ Ins.op \notin Lookarounds
        /\ Ins.op \notin Pushes
        BY <1>1 DEF Splits, Ends, Lookarounds, Pushes
  <1>3. After \in Successors(code, pc) /\ Target \in Successors(code, pc)
        BY <1>1, <1>2, NextIs, TargetIs
  <1>4. ASSUME NEW p \in Successors(code, pc), NEW next \in Successors(code, pc),
               PushState(p, "split", next)
        PROVE  Kept
    <2>1. /\ p \in InsStarts(code) /\ Enclosing(code, p) = Enclosing(code, pc)
          /\ LiveRegs(code, p) \subseteq LiveRegs(code, pc)
          BY <1>1, <1>2, Onward
    <2>2. /\ next \in InsStarts(code) /\ Enclosing(code, next) = Enclosing(code, pc)
          /\ LiveRegs(code, next) \subseteq LiveRegs(code, pc)
          BY <1>1, <1>2, Onward
    <2>3. Nested(code, Enclosing(code, next), [bp |-> bp, type |-> "split"], p)
          BY <2>1, <2>2 DEF Nested
    <2> QED BY <1>1, <1>4, <2>1, <2>2, <2>3, PushKept
  <1>5. \/ PushState(Target, "split", After)
        \/ PushState(After, "split", Target)
        BY DEF OpSplit
  <1> QED BY <1>3, <1>4, <1>5

\* The lookaround that opens is the innermost one inside it.
LEMMA OpLookaheadKept == ASSUME IInv, Fixed, OpLookahead PROVE Kept
  <1>1. ret = "running" /\ Ins.op \in Lookarounds /\ PushState(Target, Ins.op, After)
        BY DEF OpLookahead, Running, Lookarounds
  <1>2. /\ Ins.op \notin Ends /\ Ins.op # "goto" /\ Ins.op \notin Pushes
        /\ Ins.op \in {"split", "lookahead", "negative_lookahead"} /\ Ins.op # "split"
        BY <1>1 DEF Ends, Lookarounds, Pushes
  <1>3. After \in Successors(code, pc) /\ Target \in Successors(code, pc)
        BY <1>1, <1>2, NextIs, TargetIs
  <1>4. /\ Successors(code, pc) \subseteq InsStarts(code)
        /\ LookaroundsFit(code, pc) /\ RegistersFit(code, pc)
        /\ After = NextOf(code, pc) /\ Target = TargetOf(code, pc) /\ pc \in Nat
        BY <1>1, Legal
  <1> DEFINE inside == Enclosing(code, pc)
  <1>5. /\ Enclosing(code, After) = inside \cup {pc} /\ Enclosing(code, Target) = inside
        BY <1>1, <1>4 DEF LookaroundsFit, Ins
  <1>6. LiveRegs(code, After) \subseteq LiveRegs(code, pc)
        /\ LiveRegs(code, Target) \subseteq LiveRegs(code, pc)
        BY <1>2, <1>3, <1>4 DEF RegistersFit, Ins
  <1>7. \A j \in inside : j \in Nat /\ j < pc BY DEF Enclosing, InsStarts
  <1>8. Max(inside \cup {pc}) = pc /\ (inside \cup {pc}) \ {pc} = inside
    <2> HIDE DEF inside
    <2>1. inside \cup {pc} \in SUBSET (0 .. pc) BY <1>4, <1>7
    <2>2. \A y \in inside \cup {pc} : y <= pc BY <1>4, <1>7
    <2>3. Max(inside \cup {pc}) = pc BY <1>4, <2>1, <2>2, MaxEq
    <2>4. pc \notin inside BY <1>4, <1>7
    <2> QED BY <2>3, <2>4
  <1>9. Nested(code, Enclosing(code, After), [bp |-> bp, type |-> Ins.op], Target)
    <2>1. code[pc + 1].op = Ins.op BY DEF Ins
    <2> HIDE DEF inside
    <2> QED BY <1>2, <1>4, <1>5, <1>8, <2>1 DEF Nested
  <1>10. After \in InsStarts(code) /\ Target \in InsStarts(code) BY <1>3, <1>4
  <1> QED BY <1>1, <1>2, <1>5, <1>6, <1>9, <1>10, PushKept

---------------------------------------------------------------------------
(***************************************************************************)
(* The steps that write a register.                                        *)
(***************************************************************************)
\* A number in a register: the counter of a loop, or a position.
Holds(v, kind) == v \in Nat /\ (kind = "set_i32" => v # 0)

\* The registers in use afterwards hold what they are read as: the written one
\* the new value, the others what they held.
LEMMA StoredAfter ==
  ASSUME NEW cc \in Nat, NEW cap, NEW live, AllStored(cc, cap, live),
         NEW r \in Nat, 2 * cc + r \in DOMAIN cap, NEW v, NEW live2,
         \A x \in live2 : IF x[1] = r THEN Holds(v, x[2]) ELSE x \in live
  PROVE  AllStored(cc, [cap EXCEPT ![2 * cc + r] = v], live2)
  <1> DEFINE cap2 == [cap EXCEPT ![2 * cc + r] = v]
  <1>1. SUFFICES ASSUME NEW x \in live2 PROVE Stored(cc, cap2, x)
        BY DEF AllStored
  <1>2. CASE x[1] = r
    <2>1. cap2[2 * cc + r] = v /\ 2 * cc + r \in DOMAIN cap2 OBVIOUS
    <2> HIDE DEF cap2
    <2>2. v \in Nat /\ (x[2] = "set_i32" => v # 0) BY <1>2 DEF Holds
    <2> QED BY <1>2, <2>1, <2>2 DEF Stored
  <1>3. CASE x[1] # r
    <2>1. Stored(cc, cap, x) BY <1>3 DEF AllStored
    <2>2. x[1] \in Nat /\ 2 * cc + x[1] \in DOMAIN cap BY <2>1 DEF Stored
    <2>3. 2 * cc + x[1] # 2 * cc + r BY <1>3, <2>2
    <2>4. cap2[2 * cc + x[1]] = cap[2 * cc + x[1]] /\ 2 * cc + x[1] \in DOMAIN cap2
          BY <2>2, <2>3
    <2> HIDE DEF cap2
    <2> QED BY <2>1, <2>2, <2>4 DEF Stored
  <1> QED BY <1>2, <1>3

\* The write itself, with its undo pair unless there is one.
LEMMA WriteIs ==
  ASSUME IInv, ret = "running", NEW C, NEW P, Here(C, P),
         NEW i \in Slots(capture_count, register_count), NEW v,
         Fit(capture_count, Len(subject), i, v)
  PROVE  LET stk == stack \o UndoOf(i)
             cap == [capture EXCEPT ![i] = v]
         IN  /\ \E P1 : /\ StackInv(code, capture_count, register_count, Len(subject), C, P1,
                                    stk, bp, cap, Enclosing(code, pc))
                        /\ Keeps(C, P, stack, capture, C, P1, stk, cap)
             /\ Len(UndoOf(i)) \in Nat /\ Len(stk) = Len(stack) + Len(UndoOf(i))
             /\ Len(stack) \in Nat
  <1> DEFINE n  == Len(subject)
             A  == Enclosing(code, pc)
             cc == capture_count
             rc == register_count
  <1>1. /\ StackInv(code, cc, rc, n, C, P, stack, bp, capture, A)
        /\ cc \in Nat /\ rc \in Nat /\ n \in Nat
        BY Legal DEF Here
  <1>2. Geometry(C, P, stack, bp) /\ CaptureFits(cc, rc, n, capture) BY <1>1 DEF StackInv
  <1>3. stack \in Seq(Elem) /\ Len(stack) \in Nat BY <1>2, Places
  <1>4. CASE AlreadySaved(i)
    <2>1. UndoOf(i) = << >> BY <1>4 DEF UndoOf
    <2>2. stack \o << >> = stack /\ Len(<< >>) = 0 BY <1>3
    <2>3. PICK k \in P : k > bp /\ stack[k] = i BY <1>4, SavedIs
    <2>4. Fit(cc, n, stack[k], v) BY <2>3
    <2> DEFINE cap == [capture EXCEPT ![i] = v]
    <2> HIDE DEF n, A, cc, rc
    <2>5. /\ StackInv(code, cc, rc, n, C, P, stack, bp, [capture EXCEPT ![stack[k]] = v], A)
          /\ Keeps(C, P, stack, capture, C, P, stack, [capture EXCEPT ![stack[k]] = v])
          BY <1>1, <2>3, <2>4, WriteSaved
    <2>6. cap = [capture EXCEPT ![stack[k]] = v] BY <2>3
    <2> HIDE DEF cap
    <2>7. \E P1 : /\ StackInv(code, cc, rc, n, C, P1, stack, bp, cap, A)
                  /\ Keeps(C, P, stack, capture, C, P1, stack, cap)
          BY <2>5, <2>6
    <2> QED BY <1>3, <2>1, <2>2, <2>7 DEF n, A, cc, rc, cap
  <1>5. CASE ~AlreadySaved(i)
    <2>1. UndoOf(i) = <<i, capture[i]>> BY <1>5 DEF UndoOf
    <2>2. i \in Elem /\ capture[i] \in Elem
      <3>1. i \in Int BY <1>1 DEF Slots
      <3>2. capture[i] \in Int BY <1>2 DEF CaptureFits, Fit
      <3> QED BY <3>1, <3>2 DEF Elem
    <2>3. Len(<<i, capture[i]>>) = 2 /\ Len(stack \o <<i, capture[i]>>) = Len(stack) + 2
      <3>1. <<i, capture[i]>> \in Seq(Elem) /\ Len(<<i, capture[i]>>) = 2 BY <2>2
      <3> QED BY <1>3, <3>1
    <2> DEFINE cap == [capture EXCEPT ![i] = v]
               stk == stack \o <<i, capture[i]>>
    <2> HIDE DEF n, A, cc, rc
    <2>4. /\ StackInv(code, cc, rc, n, C, P \cup {Len(stack) + 1}, stk, bp, cap, A)
          /\ Keeps(C, P, stack, capture, C, P \cup {Len(stack) + 1}, stk, cap)
      <3>1. i \in Slots(cc, rc) /\ Fit(cc, n, i, v) BY DEF cc, rc, n
      <3> QED BY <1>1, <3>1, PushPair
    <2>5. Len(UndoOf(i)) \in Nat /\ Len(stk) = Len(stack) + Len(UndoOf(i)) BY <2>1, <2>3
    <2> HIDE DEF cap
    <2> QED BY <1>3, <2>1, <2>4, <2>5 DEF n, A, cc, rc, cap
  <1> QED BY <1>4, <1>5

\* What the code promises of an instruction that names a register.
LEMMA RegisterIs ==
  ASSUME IInv, ret = "running", Ins.op \in Pushes \cup Pops1 \cup Pops2
  PROVE  /\ Ins.reg \in Nat /\ Reg = 2 * capture_count + Ins.reg
         /\ Reg \in Slots(capture_count, register_count) /\ Reg \in DOMAIN capture
         /\ \A v \in Int : Fit(capture_count, Len(subject), Reg, v)
         /\ Ins.op \in Pops2 => Reg + 1 \in Slots(capture_count, register_count)
         /\ DOMAIN capture = Slots(capture_count, register_count)
  <1> DEFINE r == Ins.reg
  <1>1. /\ r \in 0 .. register_count - 1 /\ (Ins.op \in Pops2 => r + 1 \in 0 .. register_count - 1)
        /\ capture_count \in Nat /\ register_count \in Nat
    <2>1. OperandsFit(Ins, capture_count, register_count) /\ capture_count \in Nat
          /\ register_count \in Nat
          BY Legal
    <2> QED BY <2>1 DEF OperandsFit
  <1>2. Reg = 2 * capture_count + r BY DEF Reg
  <1>3. PICK C, P : Here(C, P) BY Legal
  <1>4. DOMAIN capture = Slots(capture_count, register_count)
        BY <1>3 DEF Here, StackInv, CaptureFits
  <1> HIDE DEF r
  <1>5. r \in Nat /\ Reg \in Slots(capture_count, register_count) /\ ~(Reg < 2 * capture_count)
        BY <1>1, <1>2 DEF Slots
  <1>6. Ins.op \in Pops2 => Reg + 1 \in Slots(capture_count, register_count)
        BY <1>1, <1>2 DEF Slots
  <1>7. \A v \in Int : Fit(capture_count, Len(subject), Reg, v) BY <1>5 DEF Fit
  <1> QED BY <1>2, <1>4, <1>5, <1>6, <1>7 DEF r

\* The registers live at q find what they are read as, after v is written.
Finds(v, q) ==
    \A x \in LiveRegs(code, q) :
       IF x[1] = Ins.reg THEN Holds(v, x[2]) ELSE x \in LiveRegs(code, pc)

LEMMA FoundAfter ==
  ASSUME IInv, ret = "running", Ins.op \in Pushes \cup Pops1 \cup Pops2, NEW v, NEW q, Finds(v, q)
  PROVE  AllStored(capture_count, [capture EXCEPT ![Reg] = v], LiveRegs(code, q))
  <1> DEFINE r     == Ins.reg
             live  == LiveRegs(code, pc)
             live2 == LiveRegs(code, q)
             cc    == capture_count
  <1>1. /\ r \in Nat /\ Reg = 2 * cc + r /\ Reg \in DOMAIN capture
        BY RegisterIs
  <1>2. cc \in Nat /\ AllStored(cc, capture, live) BY Legal
  <1>3. \A x \in live2 : IF x[1] = r THEN Holds(v, x[2]) ELSE x \in live BY DEF Finds
  <1> HIDE DEF r, live, live2, cc
  <1>4. AllStored(cc, [capture EXCEPT ![2 * cc + r] = v], live2)
        BY <1>1, <1>2, <1>3, StoredAfter
  <1> QED BY <1>1, <1>4 DEF live2, cc

LEMMA SetRegisterKept ==
  ASSUME IInv, ret = "running", Fixed, Ins.op \in Pushes \cup Pops1 \cup Pops2,
         NEW v \in Int, NEW q \in InsStarts(code), Enclosing(code, q) = Enclosing(code, pc),
         Finds(v, q), SetRegister(v, q)
  PROVE  Kept
  <1> DEFINE stk  == stack \o UndoOf(Reg)
             cap  == [capture EXCEPT ![Reg] = v]
             size == Room(stack_size, Len(stack), Len(UndoOf(Reg)))
  <1>1. Reg \in Slots(capture_count, register_count) /\ Fit(capture_count, Len(subject), Reg, v)
        BY RegisterIs
  <1>2. PICK C, P : Here(C, P) BY Legal
  <1>3. /\ \E P1 : /\ StackInv(code, capture_count, register_count, Len(subject), C, P1,
                               stk, bp, cap, Enclosing(code, pc))
                   /\ Keeps(C, P, stack, capture, C, P1, stk, cap)
        /\ Len(UndoOf(Reg)) \in Nat /\ Len(stk) = Len(stack) + Len(UndoOf(Reg))
        /\ Len(stack) \in Nat
        BY <1>1, <1>2, WriteIs
  <1>4. AllStored(capture_count, cap, LiveRegs(code, q)) BY FoundAfter
  <1>5. stack_size \in Nat /\ Len(stack) <= stack_size /\ cptr \in 0 .. Len(subject) BY Legal
  <1>6. size \in Nat /\ size >= Len(stack) + Len(UndoOf(Reg)) BY <1>3, <1>5, RoomIs
  <1>7. CASE size > StackMax
    <2>1. OutOfMemory BY <1>7 DEF SetRegister
    <2> QED BY <2>1, MemoryKept
  <1>8. CASE ~(size > StackMax)
    <2>1. /\ stack_size' = size /\ stack' = stk /\ capture' = cap /\ pc' = q
          /\ cptr' = cptr /\ bp' = bp
          BY <1>8 DEF SetRegister, Grown
    <2>2. stack_size' \in Nat /\ Len(stk) <= stack_size' BY <1>3, <1>6, <2>1
    <2> HIDE DEF stk, cap, size
    <2>3. PICK P1 : /\ StackInv(code, capture_count, register_count, Len(subject), C, P1,
                                stack', bp', capture', Enclosing(code, pc'))
                    /\ Keeps(C, P, stack, capture, C, P1, stack', capture')
          BY <1>3, <2>1
    <2> QED BY <1>2, <1>4, <1>5, <2>1, <2>2, <2>3, Goes
  <1> QED BY <1>7, <1>8

\* A push puts a register in use.
LEMMA PushFinds ==
  ASSUME IInv, ret = "running", Ins.op \in Pushes, NEW v, Holds(v, Ins.op)
  PROVE  /\ Finds(v, After) /\ After \in InsStarts(code)
         /\ Enclosing(code, After) = Enclosing(code, pc)
  <1>1. /\ Ins.op \notin Ends /\ Ins.op # "goto" /\ Ins.op \notin Lookarounds
        BY DEF Pushes, Ends, Lookarounds
  <1>2. After \in Successors(code, pc) BY <1>1, NextIs
  <1>3. /\ Successors(code, pc) \subseteq InsStarts(code)
        /\ LookaroundsFit(code, pc) /\ RegistersFit(code, pc)
        BY Legal
  <1>4. Enclosing(code, After) = Enclosing(code, pc) BY <1>1, <1>2, <1>3 DEF LookaroundsFit, Ins
  <1>5. \A x \in LiveRegs(code, After) :
           \/ x \in LiveRegs(code, pc) /\ x[1] # Ins.reg
           \/ x = <<Ins.reg, Ins.op>>
        BY <1>2, <1>3 DEF RegistersFit, Ins
  <1>6. Finds(v, After)
    <2> SUFFICES ASSUME NEW x \in LiveRegs(code, After)
                 PROVE  IF x[1] = Ins.reg THEN Holds(v, x[2]) ELSE x \in LiveRegs(code, pc)
        BY DEF Finds
    <2>1. CASE x \in LiveRegs(code, pc) /\ x[1] # Ins.reg BY <2>1
    <2>2. CASE x = <<Ins.reg, Ins.op>>
      <3>1. x[1] = Ins.reg /\ x[2] = Ins.op BY <2>2
      <3> QED BY <3>1
    <2> QED BY <1>5, <2>1, <2>2
  <1> QED BY <1>2, <1>3, <1>4, <1>6

LEMMA OpSetI32Kept == ASSUME IInv, Fixed, OpSetI32 PROVE Kept
  <1>1. ret = "running" /\ Ins.op = "set_i32" /\ SetRegister(Ins.val, After)
        BY DEF OpSetI32, Running
  <1>2. Ins.op \in Pushes BY <1>1 DEF Pushes
  <1>3. Ins.val \in Nat \ {0}
    <2>1. OperandsFit(Ins, capture_count, register_count) BY <1>1, Legal
    <2> QED BY <1>1, <2>1 DEF OperandsFit
  <1>4. Holds(Ins.val, Ins.op) /\ Ins.val \in Int BY <1>3 DEF Holds
  <1>5. /\ Finds(Ins.val, After) /\ After \in InsStarts(code)
        /\ Enclosing(code, After) = Enclosing(code, pc)
        BY <1>1, <1>2, <1>4, PushFinds
  <1> QED BY <1>1, <1>2, <1>4, <1>5, SetRegisterKept

LEMMA OpSetCharPosKept == ASSUME IInv, Fixed, OpSetCharPos PROVE Kept
  <1>1. ret = "running" /\ Ins.op = "set_char_pos" /\ SetRegister(cptr, After)
        BY DEF OpSetCharPos, Running
  <1>2. Ins.op \in Pushes /\ Ins.op # "set_i32" BY <1>1 DEF Pushes
  <1>3. cptr \in Nat BY <1>1, Numbers
  <1>4. Holds(cptr, Ins.op) /\ cptr \in Int BY <1>2, <1>3 DEF Holds
  <1>5. /\ Finds(cptr, After) /\ After \in InsStarts(code)
        /\ Enclosing(code, After) = Enclosing(code, pc)
        BY <1>1, <1>2, <1>4, PushFinds
  <1> QED BY <1>1, <1>2, <1>4, <1>5, SetRegisterKept

\* The counter of a loop is set; at its end it is not read again.
LEMMA LoopFinds ==
  ASSUME IInv, ret = "running", Ins.op \in Loops
  PROVE  /\ capture[Reg] \in Nat \ {0}
         /\ \A v : Finds(v, After)
         /\ \A v \in Nat \ {0} : Finds(v, Target)
         /\ After \in InsStarts(code) /\ Target \in InsStarts(code)
         /\ Enclosing(code, After) = Enclosing(code, pc)
         /\ Enclosing(code, Target) = Enclosing(code, pc)
         /\ Ins.op \in Pushes \cup Pops1 \cup Pops2
  <1>1. /\ Ins.op \notin Ends /\ Ins.op # "goto" /\ Ins.op \notin Lookarounds
        /\ Ins.op \notin Pushes /\ Ins.op \in Pops1 \cup Pops2
        BY DEF Loops, Ends, Lookarounds, Pushes, Pops1, Pops2
  <1>2. After \in Successors(code, pc) /\ Target \in Successors(code, pc)
        BY <1>1, NextIs, TargetIs
  <1>3. /\ After \in InsStarts(code) /\ Target \in InsStarts(code)
        /\ Enclosing(code, After) = Enclosing(code, pc)
        /\ Enclosing(code, Target) = Enclosing(code, pc)
        /\ LiveRegs(code, After) \subseteq LiveRegs(code, pc)
        /\ LiveRegs(code, Target) \subseteq LiveRegs(code, pc)
        BY <1>1, <1>2, Onward
  <1>4. RegistersFit(code, pc) /\ After = NextOf(code, pc) BY Legal
  <1>5. /\ <<Ins.reg, "set_i32">> \in LiveRegs(code, pc)
        /\ \A x \in LiveRegs(code, After) : x[1] # Ins.reg
        BY <1>4 DEF RegistersFit, Ins
  <1>6. capture[Reg] \in Nat \ {0}
    <2>1. AllStored(capture_count, capture, LiveRegs(code, pc)) BY Legal
    <2>2. Stored(capture_count, capture, <<Ins.reg, "set_i32">>) BY <1>5, <2>1 DEF AllStored
    <2>3. Reg = 2 * capture_count + Ins.reg BY DEF Reg
    <2> QED BY <2>2, <2>3 DEF Stored
  <1>7. \A v : Finds(v, After) BY <1>3, <1>5 DEF Finds
  <1>8. \A v \in Nat \ {0} : Finds(v, Target) BY <1>3 DEF Finds, Holds
  <1> QED BY <1>1, <1>3, <1>6, <1>7, <1>8

LEMMA OpLoopKept == ASSUME IInv, Fixed, OpLoop PROVE Kept
  <1> DEFINE v == capture[Reg] - 1
  <1>1. ret = "running" /\ Ins.op \in Loops
        /\ SetRegister(v, IF v # 0 THEN Target ELSE After)
        BY DEF OpLoop, Running, Loops
  <1>2. v \in Nat /\ v \in Int BY <1>1, LoopFinds
  <1> HIDE DEF v
  <1>3. /\ \A q : Finds(q, After)
        /\ \A q \in Nat \ {0} : Finds(q, Target)
        /\ After \in InsStarts(code) /\ Target \in InsStarts(code)
        /\ Enclosing(code, After) = Enclosing(code, pc)
        /\ Enclosing(code, Target) = Enclosing(code, pc)
        /\ Ins.op \in Pushes \cup Pops1 \cup Pops2
        BY <1>1, LoopFinds
  <1>4. CASE v # 0
    <2>1. SetRegister(v, Target) /\ Finds(v, Target) BY <1>1, <1>2, <1>3, <1>4
    <2> QED BY <1>1, <1>2, <1>3, <2>1, SetRegisterKept
  <1>5. CASE v = 0
    <2>1. SetRegister(v, After) /\ Finds(v, After) BY <1>1, <1>3, <1>5
    <2> QED BY <1>1, <1>2, <1>3, <2>1, SetRegisterKept
  <1> QED BY <1>4, <1>5

\* A loop that becomes a choice writes its counter and saves a state, in one step.
LEMMA LoopChoiceKept ==
  ASSUME IInv, ret = "running", Fixed, Ins.op \in Loops, NEW v \in Nat \ {0},
         NEW later \in {After, Target}, NEW first \in {After, Target},
         NEW size \in Nat, size >= Len(stack \o UndoOf(Reg)) + 3,
         stack_size' = size,
         stack' = (stack \o UndoOf(Reg)) \o <<later, cptr, [bp |-> bp, type |-> "split"]>>,
         capture' = [capture EXCEPT ![Reg] = v],
         bp' = Len(stack \o UndoOf(Reg)) + 3, pc' = first, cptr' = cptr
  PROVE  Kept
  <1> DEFINE stk == stack \o UndoOf(Reg)
             cap == [capture EXCEPT ![Reg] = v]
  <1>1. /\ Finds(v, After) /\ Finds(v, Target)
        /\ After \in InsStarts(code) /\ Target \in InsStarts(code)
        /\ Enclosing(code, After) = Enclosing(code, pc)
        /\ Enclosing(code, Target) = Enclosing(code, pc)
        /\ Ins.op \in Pushes \cup Pops1 \cup Pops2
        BY LoopFinds
  <1>2. v \in Int OBVIOUS
  <1>3. Reg \in Slots(capture_count, register_count) /\ Fit(capture_count, Len(subject), Reg, v)
        BY <1>1, <1>2, RegisterIs
  <1>4. PICK C, P : Here(C, P) BY Legal
  <1>5. /\ \E P1 : /\ StackInv(code, capture_count, register_count, Len(subject), C, P1,
                               stk, bp, cap, Enclosing(code, pc))
                   /\ Keeps(C, P, stack, capture, C, P1, stk, cap)
        BY <1>3, <1>4, WriteIs
  <1>6. /\ AllStored(capture_count, cap, LiveRegs(code, After))
        /\ AllStored(capture_count, cap, LiveRegs(code, Target))
        BY <1>1, FoundAfter
  <1>7. /\ later \in InsStarts(code) /\ first \in InsStarts(code)
        /\ Enclosing(code, later) = Enclosing(code, pc)
        /\ Enclosing(code, first) = Enclosing(code, pc)
        /\ AllStored(capture_count, cap, LiveRegs(code, later))
        /\ AllStored(capture_count, cap, LiveRegs(code, first))
        BY <1>1, <1>6
  <1>8. Geometry(C, P, stack, bp) BY <1>4 DEF Here, StackInv
  <1>9. Nested(code, Enclosing(code, first), [bp |-> bp, type |-> "split"], later)
        BY <1>7 DEF Nested
  <1>10. /\ stack_size' \in Nat /\ Len(stk) + 3 <= stack_size'
         /\ stack' = stk \o <<later, cptr, [bp |-> bp, type |-> "split"]>>
         /\ bp' = Len(stk) + 3 /\ capture' = cap
    <2>1. \E P1 : Geometry(C, P1, stk, bp) BY <1>5 DEF StackInv
    <2>2. Len(stk) \in Nat BY <2>1, Places
    <2> QED BY <2>2
  <1> HIDE DEF stk, cap
  <1>11. PICK P1 : /\ StackInv(code, capture_count, register_count, Len(subject), C, P1,
                               stk, bp, cap, Enclosing(code, pc))
                   /\ Keeps(C, P, stack, capture, C, P1, stk, cap)
         BY <1>5
  <1>12. "split" \in {"split", "lookahead", "negative_lookahead"} OBVIOUS
  <1> QED BY <1>4, <1>7, <1>9, <1>10, <1>11, <1>12, SaveGoes

LEMMA OpLoopSplitKept == ASSUME IInv, Fixed, OpLoopSplit PROVE Kept
  <1> DEFINE v     == capture[Reg] - 1
             stuck == /\ Ins.op \in LoopChecks
                      /\ capture[Reg + 1] = cptr
                      /\ v # Ins.limit
             stk   == stack \o UndoOf(Reg)
             size1 == Room(stack_size, Len(stack), Len(UndoOf(Reg)))
             size  == Room(size1, Len(stk), 3)
             first == IF Ins.op \in NextFirst THEN After ELSE Target
             later == IF Ins.op \in NextFirst THEN Target ELSE After
  <1>1. ret = "running" /\ Ins.op \in Loops /\ Ins.op # "loop"
        BY DEF OpLoopSplit, Running, Loops, LoopChecks, Pops2
  <1>2. v \in Nat /\ v \in Int BY <1>1, LoopFinds
  <1>3. /\ \A q : Finds(q, After)
        /\ \A q \in Nat \ {0} : Finds(q, Target)
        /\ After \in InsStarts(code) /\ Target \in InsStarts(code)
        /\ Enclosing(code, After) = Enclosing(code, pc)
        /\ Enclosing(code, Target) = Enclosing(code, pc)
        /\ Ins.op \in Pushes \cup Pops1 \cup Pops2
        BY <1>1, LoopFinds
  <1>4. Ins.limit \in Nat
    <2>1. OperandsFit(Ins, capture_count, register_count) BY <1>1, Legal
    <2> QED BY <1>1, <2>1 DEF OperandsFit
  <1>5. /\ size1 \in Nat /\ size1 >= Len(stack)
        /\ size \in Nat /\ size >= Len(stk) + 3
    <2>1. Reg \in Slots(capture_count, register_count) /\ Fit(capture_count, Len(subject), Reg, v)
          BY <1>1, <1>2, <1>3, RegisterIs
    <2>2. PICK C, P : Here(C, P) BY <1>1, Legal
    <2>3. /\ Len(UndoOf(Reg)) \in Nat /\ Len(stk) = Len(stack) + Len(UndoOf(Reg))
          /\ Len(stack) \in Nat
          BY <1>1, <2>1, <2>2, WriteIs
    <2>4. stack_size \in Nat /\ Len(stack) <= stack_size BY <1>1, Legal
    <2> HIDE DEF stk
    <2>5. size1 \in Nat /\ size1 >= Len(stack) + Len(UndoOf(Reg)) BY <2>3, <2>4, RoomIs
    <2> HIDE DEF size1
    <2>6. Len(stk) \in Nat /\ Len(stk) <= size1 /\ size1 >= Len(stack) BY <2>3, <2>5
    <2>7. size \in Nat /\ size >= Len(stk) + 3 BY <2>5, <2>6, RoomIs
    <2> QED BY <2>5, <2>6, <2>7
  <1>6. \/ v > Ins.limit /\ SetRegister(v, Target)
        \/ IF size1 > StackMax THEN OutOfMemory ELSE NoMatchIn(size1)
        \/ v = 0 /\ SetRegister(v, After)
        \/ /\ v # 0
           /\ IF size > StackMax THEN OutOfMemory
              ELSE /\ stack_size' = size
                   /\ capture' = [capture EXCEPT ![Reg] = v]
                   /\ stack' = stk \o <<later, cptr, [bp |-> bp, type |-> "split"]>>
                   /\ bp' = Len(stk) + 3
                   /\ pc' = first
                   /\ cptr' = cptr
        BY DEF OpLoopSplit, Grown
  <1> HIDE DEF v, size1, size
  <1>7. CASE v > Ins.limit /\ SetRegister(v, Target)
    <2>1. v \in Nat \ {0} BY <1>2, <1>4, <1>7
    <2>2. Finds(v, Target) BY <1>3, <2>1
    <2> QED BY <1>1, <1>2, <1>3, <1>7, <2>2, SetRegisterKept
  <1>8. CASE IF size1 > StackMax THEN OutOfMemory ELSE NoMatchIn(size1)
    <2>1. CASE OutOfMemory BY <2>1, MemoryKept
    <2>2. CASE NoMatchIn(size1)
      <3>1. Len(stack) <= size1
        <4>1. PICK C, P : Here(C, P) BY <1>1, Legal
        <4>2. Geometry(C, P, stack, bp) BY <4>1 DEF Here, StackInv
        <4>3. Len(stack) \in Nat BY <4>2, Places
        <4> QED BY <1>5, <4>3
      <3> QED BY <1>1, <1>5, <2>2, <3>1, NoMatchKept
    <2> QED BY <1>8, <2>1, <2>2
  <1>9. CASE v = 0 /\ SetRegister(v, After)
    <2>1. Finds(v, After) BY <1>3
    <2> QED BY <1>1, <1>2, <1>3, <1>9, <2>1, SetRegisterKept
  <1>10. CASE /\ v # 0
              /\ IF size > StackMax THEN OutOfMemory
                 ELSE /\ stack_size' = size
                      /\ capture' = [capture EXCEPT ![Reg] = v]
                      /\ stack' = stk \o <<later, cptr, [bp |-> bp, type |-> "split"]>>
                      /\ bp' = Len(stk) + 3
                      /\ pc' = first
                      /\ cptr' = cptr
    <2>1. CASE OutOfMemory BY <2>1, MemoryKept
    <2>2. CASE /\ stack_size' = size
               /\ capture' = [capture EXCEPT ![Reg] = v]
               /\ stack' = stk \o <<later, cptr, [bp |-> bp, type |-> "split"]>>
               /\ bp' = Len(stk) + 3
               /\ pc' = first
               /\ cptr' = cptr
      <3>1. v \in Nat \ {0} BY <1>2, <1>10
      <3>2. later \in {After, Target} /\ first \in {After, Target} OBVIOUS
      <3> HIDE DEF later, first
      <3> QED BY <1>1, <1>5, <2>2, <3>1, <3>2, LoopChoiceKept
    <2> QED BY <1>10, <2>1, <2>2
  <1> QED BY <1>6, <1>7, <1>8, <1>9, <1>10

---------------------------------------------------------------------------
(***************************************************************************)
(* The steps that write captures.                                          *)
(***************************************************************************)
\* The undo pairs of the first k writes w, and capture[] after them: fin has the
\* values written.
Undos(w, cap, k) ==
    [n \in 1 .. 2 * k |-> LET i == w[(n + 1) \div 2][1]
                          IN  IF n % 2 = 1 THEN i ELSE cap[i]]

Written(w, cap, fin, k) ==
    [i \in DOMAIN cap |-> IF \E j \in 1 .. k : w[j][1] = i THEN fin[i] ELSE cap[i]]

\* u2 is u and two elements more.
Extends(u2, u) == Len(u2) = Len(u) + 2 /\ \A j \in 1 .. Len(u) : u2[j] = u[j]

LEMMA AppendTwo ==
  ASSUME NEW S, NEW s \in Seq(S), NEW u \in Seq(S), NEW u2 \in Seq(S), Extends(u2, u)
  PROVE  s \o u2 = (s \o u) \o <<u2[Len(u) + 1], u2[Len(u) + 2]>>
  <1> DEFINE x == u2[Len(u) + 1]
             y == u2[Len(u) + 2]
             l == Len(u)
             a == s \o u2
             d == (s \o u) \o <<x, y>>
  <1>0. Len(u2) = Len(u) + 2 /\ \A j \in 1 .. Len(u) : u2[j] = u[j] BY DEF Extends
  <1>1. l \in Nat /\ Len(s) \in Nat /\ x \in S /\ y \in S
    <2>1. l \in Nat /\ Len(s) \in Nat OBVIOUS
    <2>2. l + 1 \in 1 .. Len(u2) /\ l + 2 \in 1 .. Len(u2) BY <1>0, <2>1
    <2> QED BY <2>1, <2>2, ElementsAre
  <1> HIDE DEF x, y
  <1>2. s \o u \in Seq(S) /\ <<x, y>> \in Seq(S) /\ Len(<<x, y>>) = 2 BY <1>1
  <1>3. a \in Seq(S) /\ d \in Seq(S) /\ Len(a) = Len(s) + l + 2 /\ Len(d) = Len(s) + l + 2
        BY <1>0, <1>1, <1>2
  <1>4. ASSUME NEW k \in 1 .. Len(s) + l + 2 PROVE a[k] = d[k]
    <2>1. CASE k <= Len(s) BY <1>0, <1>1, <1>2, <2>1
    <2>2. CASE k > Len(s) /\ k <= Len(s) + l
      <3>1. a[k] = u2[k - Len(s)] /\ k - Len(s) \in 1 .. l BY <1>0, <1>1, <2>2
      <3>2. d[k] = (s \o u)[k] BY <1>1, <1>2, <2>2
      <3>3. (s \o u)[k] = u[k - Len(s)] BY <1>1, <2>2
      <3> QED BY <1>0, <3>1, <3>2, <3>3
    <2>3. CASE k = Len(s) + l + 1
      <3>1. a[k] = u2[l + 1] BY <1>0, <1>1, <2>3
      <3>2. d[k] = x BY <1>1, <1>2, <2>3
      <3> QED BY <3>1, <3>2 DEF x
    <2>4. CASE k = Len(s) + l + 2
      <3>1. a[k] = u2[l + 2] BY <1>0, <1>1, <2>4
      <3>2. d[k] = y BY <1>1, <1>2, <2>4
      <3> QED BY <3>1, <3>2 DEF y
    <2>5. \/ k <= Len(s)
          \/ k > Len(s) /\ k <= Len(s) + l
          \/ k = Len(s) + l + 1
          \/ k = Len(s) + l + 2
      <3> HIDE DEF l
      <3> QED BY <1>1
    <2> HIDE DEF a, d
    <2> QED BY <2>1, <2>2, <2>3, <2>4, <2>5
  <1> HIDE DEF a, d
  <1>5. a = d BY <1>3, <1>4
  <1> QED BY <1>5 DEF a, d, x, y

\* The slots and their values are numbers.
Numeric(w, cap, m) == \A k \in 1 .. m : w[k][1] \in Int /\ cap[w[k][1]] \in Int

\* The pairs are a sequence of elements, each longer by two.
LEMMA UndosAre ==
  ASSUME NEW m \in Nat, NEW w, NEW cap,
         Numeric(w, cap, m), NEW k \in Nat, k <= m
  PROVE  /\ Undos(w, cap, k) \in Seq(Elem) /\ Len(Undos(w, cap, k)) = 2 * k
         /\ \A j \in 1 .. k : /\ Undos(w, cap, k)[2 * j - 1] = w[j][1]
                              /\ Undos(w, cap, k)[2 * j] = cap[w[j][1]]
  <1> DEFINE u == Undos(w, cap, k)
  <1>1. ASSUME NEW n \in 1 .. 2 * k PROVE u[n] \in Elem
    <2> DEFINE j == (n + 1) \div 2
    <2>1. j \in 1 .. m OBVIOUS
    <2>2. u[n] = IF n % 2 = 1 THEN w[j][1] ELSE cap[w[j][1]] BY DEF Undos
    <2> HIDE DEF j, u
    <2>3. w[j][1] \in Int /\ cap[w[j][1]] \in Int BY <2>1 DEF Numeric
    <2> QED BY <2>2, <2>3 DEF Elem
  <1>2. u = [n \in 1 .. 2 * k |-> u[n]] BY DEF Undos
  <1>3. ASSUME NEW j \in 1 .. k PROVE u[2 * j - 1] = w[j][1] /\ u[2 * j] = cap[w[j][1]]
    <2>1. /\ 2 * j - 1 \in 1 .. 2 * k /\ 2 * j \in 1 .. 2 * k
          /\ (2 * j - 1 + 1) \div 2 = j /\ (2 * j + 1) \div 2 = j
          /\ (2 * j - 1) % 2 = 1 /\ (2 * j) % 2 = 0
          OBVIOUS
    <2> QED BY <2>1 DEF Undos
  <1> HIDE DEF u
  <1>4. u \in Seq(Elem) /\ Len(u) = 2 * k BY <1>1, <1>2
  <1> QED BY <1>3, <1>4 DEF u

\* Writes to captures, each to a slot of its own.
Writes(cc, rc, n, w, fin, m) ==
    /\ \A k \in 1 .. m : w[k][1] \in Slots(cc, rc) /\ Fit(cc, n, w[k][1], fin[w[k][1]])
    /\ \A j, k \in 1 .. m : w[j][1] = w[k][1] => j = k

\* What the next write adds.
NextWrite(cc, rc, n, w, cap, fin, s, k) ==
    LET i == w[k + 1][1]
        c == Written(w, cap, fin, k)
    IN  /\ i \in Slots(cc, rc) /\ Fit(cc, n, i, fin[i]) /\ c[i] = cap[i]
        /\ Written(w, cap, fin, k + 1) = [c EXCEPT ![i] = fin[i]]
        /\ s \o Undos(w, cap, k + 1) = (s \o Undos(w, cap, k)) \o <<i, cap[i]>>

LEMMA WriteNext ==
  ASSUME NEW cc \in Nat, NEW rc \in Nat, NEW n \in Nat, NEW m \in Nat, NEW w, NEW cap, NEW fin,
         Writes(cc, rc, n, w, fin, m), CaptureFits(cc, rc, n, cap),
         NEW s \in Seq(Elem), NEW k \in Nat, k + 1 <= m
  PROVE  NextWrite(cc, rc, n, w, cap, fin, s, k)
  <1> DEFINE i == w[k + 1][1]
             c == Written(w, cap, fin, k)
             d == Written(w, cap, fin, k + 1)
             e == [c EXCEPT ![i] = fin[i]]
  <1>1. k + 1 \in 1 .. m /\ k + 1 \in Nat OBVIOUS
  <1>2. i \in Slots(cc, rc) /\ Fit(cc, n, i, fin[i]) BY <1>1 DEF Writes
  <1>3. DOMAIN cap = Slots(cc, rc) BY DEF CaptureFits
  <1>4. \A j \in 1 .. k : j \in 1 .. m /\ j # k + 1 BY <1>1
  <1>5. \A j \in 1 .. k : w[j][1] # i BY <1>1, <1>4 DEF Writes
  <1>6. c = [x \in DOMAIN cap |-> IF \E j \in 1 .. k : w[j][1] = x THEN fin[x] ELSE cap[x]]
        /\ d = [x \in DOMAIN cap |-> IF \E j \in 1 .. k + 1 : w[j][1] = x THEN fin[x] ELSE cap[x]]
        BY DEF Written
  <1>7. \A x : (\E j \in 1 .. k + 1 : w[j][1] = x) <=> (x = i \/ \E j \in 1 .. k : w[j][1] = x)
    <2>1. \A j \in 1 .. k + 1 : j = k + 1 \/ j \in 1 .. k OBVIOUS
    <2>2. k + 1 \in 1 .. k + 1 /\ \A j \in 1 .. k : j \in 1 .. k + 1 OBVIOUS
    <2>3. i = w[k + 1][1] OBVIOUS
    <2> HIDE DEF i
    <2>4. ASSUME NEW x, NEW j \in 1 .. k + 1, w[j][1] = x
          PROVE  x = i \/ \E z \in 1 .. k : w[z][1] = x
          BY <2>1, <2>3, <2>4
    <2>5. ASSUME NEW x, x = i \/ \E j \in 1 .. k : w[j][1] = x
          PROVE  \E j \in 1 .. k + 1 : w[j][1] = x
          BY <2>2, <2>3, <2>5
    <2> QED BY <2>4, <2>5
  <1>8. Numeric(w, cap, m)
    <2>1. \A j \in 1 .. m : w[j][1] \in Slots(cc, rc) BY DEF Writes
    <2>2. \A x \in Slots(cc, rc) : x \in Int /\ cap[x] \in Int BY DEF CaptureFits, Fit, Slots
    <2> QED BY <2>1, <2>2 DEF Numeric
  <1> HIDE DEF i, c, d
  <1>9. d = e
    <2>0. DOMAIN c = DOMAIN cap /\ c = [x \in DOMAIN cap |-> c[x]] /\ i \in DOMAIN cap
          /\ d = [x \in DOMAIN cap |-> d[x]]
          BY <1>2, <1>3, <1>6
    <2>1. e = [x \in DOMAIN cap |-> IF x = i THEN fin[i] ELSE c[x]] BY <2>0
    <2>2. ASSUME NEW x \in DOMAIN cap PROVE d[x] = IF x = i THEN fin[i] ELSE c[x]
          BY <1>6, <1>7
    <2> HIDE DEF e
    <2>3. \A x \in DOMAIN cap : d[x] = e[x] BY <2>1, <2>2
    <2>4. e = [x \in DOMAIN cap |-> e[x]] BY <2>1
    <2> QED BY <2>0, <2>3, <2>4
  <1>10. c[i] = cap[i] BY <1>2, <1>3, <1>5, <1>6
  <1>11. s \o Undos(w, cap, k + 1) = (s \o Undos(w, cap, k)) \o <<i, cap[i]>>
    <2> DEFINE u  == Undos(w, cap, k)
               u2 == Undos(w, cap, k + 1)
    <2>0. k \in Nat /\ k <= m /\ k + 1 \in Nat /\ k + 1 <= m BY <1>1
    <2>1. /\ u \in Seq(Elem) /\ Len(u) = 2 * k
          /\ \A j \in 1 .. k : u[2 * j - 1] = w[j][1] /\ u[2 * j] = cap[w[j][1]]
          BY <1>8, <2>0, UndosAre
    <2>2. /\ u2 \in Seq(Elem) /\ Len(u2) = 2 * (k + 1)
          /\ \A j \in 1 .. k + 1 : u2[2 * j - 1] = w[j][1] /\ u2[2 * j] = cap[w[j][1]]
      <3> DEFINE z == k + 1
      <3>1. z \in Nat /\ z <= m /\ u2 = Undos(w, cap, z) BY <2>0
      <3> HIDE DEF z, u, u2
      <3>2. /\ Undos(w, cap, z) \in Seq(Elem) /\ Len(Undos(w, cap, z)) = 2 * z
            /\ \A j \in 1 .. z : /\ Undos(w, cap, z)[2 * j - 1] = w[j][1]
                                 /\ Undos(w, cap, z)[2 * j] = cap[w[j][1]]
            BY <1>8, <3>1, UndosAre
      <3>3. /\ u2 \in Seq(Elem) /\ Len(u2) = 2 * z
            /\ \A j \in 1 .. z : u2[2 * j - 1] = w[j][1] /\ u2[2 * j] = cap[w[j][1]]
            BY <3>1, <3>2
      <3> QED BY <3>3 DEF z
    <2>3. \A j \in 1 .. Len(u) : u2[j] = u[j]
      <3>1. \A j \in 1 .. Len(u) : j \in 1 .. 2 * k /\ j \in 1 .. 2 * (k + 1) BY <2>1
      <3>2. \A j \in 1 .. 2 * k : u[j] = LET x == w[(j + 1) \div 2][1]
                                         IN  IF j % 2 = 1 THEN x ELSE cap[x]
            BY DEF Undos
      <3>3. \A j \in 1 .. 2 * (k + 1) : u2[j] = LET x == w[(j + 1) \div 2][1]
                                                IN  IF j % 2 = 1 THEN x ELSE cap[x]
            BY DEF Undos
      <3> QED BY <3>1, <3>2, <3>3
    <2>4. u2[Len(u) + 1] = i /\ u2[Len(u) + 2] = cap[i]
      <3>0. Len(u) = 2 * k BY <2>1
      <3>1. k + 1 \in 1 .. k + 1 /\ 2 * (k + 1) - 1 = Len(u) + 1 /\ 2 * (k + 1) = Len(u) + 2
        <4> HIDE DEF u
        <4> QED BY <3>0
      <3>2. u2[2 * (k + 1) - 1] = w[k + 1][1] /\ u2[2 * (k + 1)] = cap[w[k + 1][1]]
            BY <2>2, <3>1
      <3> QED BY <3>1, <3>2 DEF i
    <2>5. Extends(u2, u)
      <3> HIDE DEF u, u2
      <3> QED BY <2>1, <2>2, <2>3 DEF Extends
    <2> HIDE DEF u, u2
    <2>6. s \o u2 = (s \o u) \o <<u2[Len(u) + 1], u2[Len(u) + 2]>> 
      <3>1. u \in Seq(Elem) /\ u2 \in Seq(Elem) /\ s \in Seq(Elem) BY <2>1, <2>2
      <3> QED BY <2>5, <3>1, AppendTwo
    <2> QED BY <2>4, <2>6 DEF u, u2
  <1> QED BY <1>2, <1>9, <1>10, <1>11 DEF NextWrite, i, c, d

LEMMA PushPairs ==
  ASSUME NEW c, NEW cc \in Nat, NEW rc \in Nat, NEW n \in Nat,
         NEW C, NEW P, NEW s, NEW b, NEW cap, NEW A,
         StackInv(c, cc, rc, n, C, P, s, b, cap, A),
         NEW m \in Nat, NEW w, NEW fin, Writes(cc, rc, n, w, fin, m)
  PROVE  \E P2 : /\ StackInv(c, cc, rc, n, C, P2, s \o Undos(w, cap, m), b,
                             Written(w, cap, fin, m), A)
                 /\ Keeps(C, P, s, cap, C, P2, s \o Undos(w, cap, m), Written(w, cap, fin, m))
  <1> DEFINE stk(k) == s \o Undos(w, cap, k)
             wr(k)  == Written(w, cap, fin, k)
             Good(k) == \E P2 : /\ StackInv(c, cc, rc, n, C, P2, stk(k), b, wr(k), A)
                                /\ Keeps(C, P, s, cap, C, P2, stk(k), wr(k))
             T == {k \in Nat : k <= m => Good(k)}
  <1>1. Geometry(C, P, s, b) /\ CaptureFits(cc, rc, n, cap) BY DEF StackInv
  <1>2. s \in Seq(Elem) BY <1>1, Places
  <1>3. 0 \in T
    <2>1. stk(0) = s
      <3>1. Undos(w, cap, 0) = << >>
        <4>1. 1 .. 2 * 0 = {} OBVIOUS
        <4> QED BY <4>1 DEF Undos
      <3>2. s \o << >> = s BY <1>2
      <3> QED BY <3>1, <3>2
    <2>2. wr(0) = cap
      <3>1. 1 .. 0 = {} OBVIOUS
      <3>2. wr(0) = [i \in DOMAIN cap |-> cap[i]] BY <3>1 DEF Written
      <3>3. DOMAIN cap = Slots(cc, rc) /\ cap = [i \in Slots(cc, rc) |-> cap[i]]
            BY <1>1 DEF CaptureFits
      <3> QED BY <3>2, <3>3
    <2>3. Keeps(C, P, s, cap, C, P, s, cap) BY SameStack
    <2> HIDE DEF stk, wr
    <2>4. Good(0) BY <2>1, <2>2, <2>3
    <2> HIDE DEF Good
    <2> QED BY <2>4
  <1>4. ASSUME NEW k \in Nat, k \in T PROVE k + 1 \in T
    <2>1. SUFFICES ASSUME k + 1 <= m PROVE Good(k + 1)
      <3> HIDE DEF Good
      <3> QED OBVIOUS
    <2>2. Good(k)
      <3> HIDE DEF Good
      <3> QED BY <1>4, <2>1
    <2>3. PICK P1 : /\ StackInv(c, cc, rc, n, C, P1, stk(k), b, wr(k), A)
                    /\ Keeps(C, P, s, cap, C, P1, stk(k), wr(k))
          BY <2>2
    <2> DEFINE i == w[k + 1][1]
               v == fin[i]
    <2>4. /\ i \in Slots(cc, rc) /\ Fit(cc, n, i, v) /\ wr(k)[i] = cap[i]
          /\ wr(k + 1) = [wr(k) EXCEPT ![i] = v]
          /\ stk(k + 1) = stk(k) \o <<i, cap[i]>>
      <3>1. NextWrite(cc, rc, n, w, cap, fin, s, k) BY <1>1, <1>2, <2>1, WriteNext
      <3> QED BY <3>1 DEF NextWrite
    <2> DEFINE s1   == stk(k)
               cap1 == wr(k)
               s2   == stk(k + 1)
               cap2 == wr(k + 1)
               P2   == P1 \cup {Len(s1) + 1}
    <2>5. /\ StackInv(c, cc, rc, n, C, P1, s1, b, cap1, A)
          /\ Keeps(C, P, s, cap, C, P1, s1, cap1)
          /\ cap1[i] = cap[i] /\ cap2 = [cap1 EXCEPT ![i] = v] /\ s2 = s1 \o <<i, cap1[i]>>
          BY <2>3, <2>4
    <2> HIDE DEF i, v, s1, cap1, s2, cap2, stk, wr
    <2>6. /\ StackInv(c, cc, rc, n, C, P2, s1 \o <<i, cap1[i]>>, b, [cap1 EXCEPT ![i] = v], A)
          /\ Keeps(C, P1, s1, cap1, C, P2, s1 \o <<i, cap1[i]>>, [cap1 EXCEPT ![i] = v])
      <3>1. i \in Slots(cc, rc) /\ Fit(cc, n, i, v) BY <2>4
      <3>2. StackInv(c, cc, rc, n, C, P1, s1, b, cap1, A) BY <2>5
      <3> QED BY <3>1, <3>2, PushPair
    <2> HIDE DEF P2
    <2>7. /\ StackInv(c, cc, rc, n, C, P2, s2, b, cap2, A)
          /\ Keeps(C, P1, s1, cap1, C, P2, s2, cap2)
          BY <2>5, <2>6
    <2>8. Keeps(C, P, s, cap, C, P2, s2, cap2) BY <2>5, <2>7 DEF Keeps
    <2> QED BY <2>7, <2>8 DEF s2, cap2
  <1>5. Nat \subseteq T
    <2> HIDE DEF T
    <2> QED BY <1>3, <1>4, SetInduction
  <1>6. Good(m)
    <2> HIDE DEF Good
    <2> QED BY <1>5
  <1> QED BY <1>6

\* The sizes the array takes on, a pair at a time.
Sizing(f, size, height, m) ==
    f = [k \in 0 .. m |-> IF k = 0 THEN size ELSE Room(f[k - 1], height + 2 * (k - 1), 2)]

Sizes(size, height, m) ==
    CHOOSE f : f = [k \in 0 .. m |->
            IF k = 0 THEN size ELSE Room(f[k - 1], height + 2 * (k - 1), 2)]

LEMMA SizingExists ==
  ASSUME NEW size, NEW height, NEW m \in Nat
  PROVE  \E f : Sizing(f, size, height, m)
  <1> DEFINE T == {k \in Nat : \E f : Sizing(f, size, height, k)}
             body(f, k) == IF k = 0 THEN size ELSE Room(f[k - 1], height + 2 * (k - 1), 2)
  <1>1. 0 \in T
    <2> DEFINE f == [k \in 0 .. 0 |-> size]
    <2>1. f = [k \in 0 .. 0 |-> body(f, k)]
      <3>1. \A k \in 0 .. 0 : k = 0 OBVIOUS
      <3> DEFINE g == [k \in 0 .. 0 |-> body(f, k)]
      <3>2. g = [k \in 0 .. 0 |-> g[k]] /\ \A k \in 0 .. 0 : g[k] = size BY <3>1
      <3> HIDE DEF g
      <3>3. f = g BY <3>2
      <3> QED BY <3>3 DEF g
    <2> HIDE DEF f
    <2>2. Sizing(f, size, height, 0) BY <2>1 DEF Sizing
    <2> QED BY <2>2
  <1>2. ASSUME NEW n \in Nat, n \in T PROVE n + 1 \in T
    <2>1. PICK f : Sizing(f, size, height, n) BY <1>2
    <2> DEFINE g == [k \in 0 .. n + 1 |-> body(f, k)]
               h == [k \in 0 .. n + 1 |-> body(g, k)]
    <2>2. f = [k \in 0 .. n |-> body(f, k)] BY <2>1 DEF Sizing
    <2>3. ASSUME NEW k \in 0 .. n + 1 PROVE body(f, k) = body(g, k)
      <3>1. CASE k = 0 BY <3>1
      <3>2. CASE k # 0
        <4>1. k - 1 \in 0 .. n /\ k - 1 \in 0 .. n + 1 BY <3>2
        <4> HIDE DEF body
        <4>2. f[k - 1] = body(f, k - 1) BY <2>2, <4>1
        <4>3. g[k - 1] = body(f, k - 1) BY <4>1
        <4>4. f[k - 1] = g[k - 1] BY <4>2, <4>3
        <4> HIDE DEF g
        <4> QED BY <4>4 DEF body
      <3> QED BY <3>1, <3>2
    <2>4. /\ g = [k \in 0 .. n + 1 |-> g[k]] /\ h = [k \in 0 .. n + 1 |-> h[k]]
          /\ \A k \in 0 .. n + 1 : g[k] = body(f, k) /\ h[k] = body(g, k)
      <3> HIDE DEF body
      <3> QED OBVIOUS
    <2>5. \A k \in 0 .. n + 1 : g[k] = h[k] BY <2>3, <2>4
    <2>6. g = h
      <3> HIDE DEF g, h
      <3> QED BY <2>4, <2>5
    <2>7. g = [k \in 0 .. n + 1 |-> body(g, k)] BY <2>6
    <2> HIDE DEF g
    <2>8. Sizing(g, size, height, n + 1) BY <2>7 DEF Sizing
    <2> QED BY <2>8
  <1>3. Nat \subseteq T
    <2> HIDE DEF T
    <2> QED BY <1>1, <1>2, SetInduction
  <1> QED BY <1>3

\* Each pair finds room.
LEMMA SizesAre ==
  ASSUME NEW size \in Nat, NEW height \in Nat, height <= size, NEW m \in Nat
  PROVE  Sizes(size, height, m)[m] \in Nat /\ Sizes(size, height, m)[m] >= height + 2 * m
  <1> DEFINE f == Sizes(size, height, m)
             T == {k \in Nat : k <= m => f[k] \in Nat /\ f[k] >= height + 2 * k}
  <1>1. Sizing(f, size, height, m)
    <2>1. \E g : Sizing(g, size, height, m) BY SizingExists
    <2>2. Sizing(CHOOSE g : Sizing(g, size, height, m), size, height, m) BY <2>1
    <2>3. f = CHOOSE g : Sizing(g, size, height, m) BY DEF Sizing, Sizes
    <2> HIDE DEF f
    <2> QED BY <2>2, <2>3
  <1> HIDE DEF f
  <1>2. \A k \in 0 .. m :
           f[k] = IF k = 0 THEN size ELSE Room(f[k - 1], height + 2 * (k - 1), 2)
        BY <1>1 DEF Sizing
  <1>3. 0 \in T
    <2>1. f[0] = size BY <1>2
    <2> QED BY <2>1
  <1>4. ASSUME NEW k \in Nat, k \in T PROVE k + 1 \in T
    <2>1. SUFFICES ASSUME k + 1 <= m PROVE f[k + 1] \in Nat /\ f[k + 1] >= height + 2 * (k + 1)
          OBVIOUS
    <2> DEFINE a == f[k]
               b == height + 2 * k
    <2>2. a \in Nat /\ b \in Nat /\ b <= a BY <1>4, <2>1
    <2>3. f[k + 1] = Room(a, b, 2)
      <3>1. k + 1 \in 0 .. m /\ k + 1 # 0 /\ (k + 1) - 1 = k BY <2>1
      <3> QED BY <1>2, <3>1
    <2> HIDE DEF a, b
    <2>4. Room(a, b, 2) \in Nat /\ Room(a, b, 2) >= b + 2 BY <2>2, RoomIs
    <2>5. b + 2 = height + 2 * (k + 1) BY DEF b
    <2> QED BY <2>3, <2>4, <2>5
  <1>5. Nat \subseteq T
    <2> HIDE DEF T
    <2> QED BY <1>3, <1>4, SetInduction
  <1>6. f[m] \in Nat /\ f[m] >= height + 2 * m BY <1>5
  <1> QED BY <1>6 DEF f

\* capture[] after the writes.
CapturesAfter(w, cap) ==
    [i \in DOMAIN cap |-> IF \E k \in DOMAIN w : w[k][1] = i
                         THEN w[CHOOSE k \in DOMAIN w : w[k][1] = i][2]
                         ELSE cap[i]]

\* SaveCapture, with its parts named.
LEMMA SaveCaptureIs ==
  ASSUME NEW size, NEW w, NEW q, SaveCapture(size, w, q)
  PROVE  LET s == Sizes(size, Len(stack), Len(w))[Len(w)]
         IN  \/ OutOfMemory
             \/ /\ stack_size' = s
                /\ stack' = stack \o Undos(w, capture, Len(w))
                /\ capture' = CapturesAfter(w, capture)
                /\ pc' = q /\ cptr' = cptr /\ bp' = bp
  BY DEF SaveCapture, Sizes, Undos, CapturesAfter, Grown

\* Writes to slots of groups, each another slot.
Groups(w) ==
    /\ Len(w) \in Nat /\ DOMAIN w = 1 .. Len(w)
    /\ \A k \in 1 .. Len(w) : /\ w[k][1] \in Nat /\ w[k][1] < 2 * capture_count
                              /\ w[k][2] \in {Null} \cup 0 .. Len(subject)
    /\ \A j, k \in 1 .. Len(w) : w[j][1] = w[k][1] => j = k

LEMMA GroupsWrite ==
  ASSUME IInv, ret = "running", NEW w, Groups(w)
  PROVE  /\ Writes(capture_count, register_count, Len(subject), w, CapturesAfter(w, capture), Len(w))
         /\ CapturesAfter(w, capture) = Written(w, capture, CapturesAfter(w, capture), Len(w))
         /\ \A i \in DOMAIN capture : i >= 2 * capture_count =>
               CapturesAfter(w, capture)[i] = capture[i]
         /\ DOMAIN CapturesAfter(w, capture) = DOMAIN capture
         /\ DOMAIN capture = Slots(capture_count, register_count)
  <1> DEFINE f  == CapturesAfter(w, capture)
             m  == Len(w)
             cc == capture_count
             rc == register_count
             n  == Len(subject)
  <1>1. cc \in Nat /\ rc \in Nat /\ n \in Nat BY Legal
  <1>2. /\ m \in Nat /\ DOMAIN w = 1 .. m
        /\ \A k \in 1 .. m : /\ w[k][1] \in Nat /\ w[k][1] < 2 * cc
                             /\ w[k][2] \in {Null} \cup 0 .. n
        /\ \A j, k \in 1 .. m : w[j][1] = w[k][1] => j = k
        BY DEF Groups
  <1>3. DOMAIN capture = Slots(cc, rc)
    <2>1. PICK C, P : Here(C, P) BY Legal
    <2> QED BY <2>1 DEF Here, StackInv, CaptureFits
  <1>4. f = [i \in DOMAIN capture |-> IF \E k \in 1 .. m : w[k][1] = i
                                      THEN w[CHOOSE k \in 1 .. m : w[k][1] = i][2]
                                      ELSE capture[i]]
        BY <1>2 DEF CapturesAfter
  <1> HIDE DEF f, m, cc, rc, n
  <1>5. ASSUME NEW k \in 1 .. m PROVE w[k][1] \in Slots(cc, rc) /\ Fit(cc, n, w[k][1], f[w[k][1]])
    <2> DEFINE i == w[k][1]
    <2>1. i \in Nat /\ i < 2 * cc BY <1>2
    <2>2. i \in Slots(cc, rc) BY <1>1, <2>1 DEF Slots
    <2> DEFINE j == CHOOSE j \in 1 .. m : w[j][1] = i
    <2>3. j \in 1 .. m /\ w[j][1] = i OBVIOUS
    <2>4. f[i] = w[j][2] BY <1>3, <1>4, <2>2
    <2> HIDE DEF j
    <2>5. w[j][2] \in {Null} \cup 0 .. n BY <1>2, <2>3
    <2>6. Fit(cc, n, i, f[i]) BY <1>1, <2>4, <2>5 DEF Fit, Null
    <2> QED BY <2>2, <2>6
  <1>6. Writes(cc, rc, n, w, f, m) BY <1>2, <1>5 DEF Writes
  <1>7. f = Written(w, capture, f, m)
    <2> DEFINE g == Written(w, capture, f, m)
    <2>1. /\ g = [i \in DOMAIN capture |-> g[i]] /\ f = [i \in DOMAIN capture |-> f[i]]
          /\ \A i \in DOMAIN capture :
                g[i] = IF \E j \in 1 .. m : w[j][1] = i THEN f[i] ELSE capture[i]
          BY <1>4 DEF Written
    <2>2. \A i \in DOMAIN capture : ~(\E j \in 1 .. m : w[j][1] = i) => f[i] = capture[i]
          BY <1>4
    <2> HIDE DEF g
    <2>3. \A i \in DOMAIN capture : f[i] = g[i] BY <2>1, <2>2
    <2>4. f = g BY <2>1, <2>3
    <2> QED BY <2>4 DEF g
  <1>8. ASSUME NEW i \in DOMAIN capture, i >= 2 * cc PROVE f[i] = capture[i]
    <2>1. \A k \in 1 .. m : w[k][1] # i
      <3>1. i \in Nat BY <1>1, <1>3 DEF Slots
      <3> QED BY <1>1, <1>2, <1>8, <3>1
    <2> QED BY <1>4, <2>1
  <1>9. DOMAIN f = DOMAIN capture BY <1>4
  <1> QED BY <1>3, <1>6, <1>7, <1>8, <1>9 DEF f, m, cc, rc, n

LEMMA SavesKept ==
  ASSUME IInv, ret = "running", Fixed, NEW w, Groups(w),
         Ins.op \in {"save_start", "save_end", "save_reset"},
         NEW size \in Nat, Len(stack) <= size, SaveCapture(size, w, After)
  PROVE  Kept
  <1> DEFINE m   == Len(w)
             s   == Sizes(size, Len(stack), m)[m]
             stk == stack \o Undos(w, capture, m)
             f   == CapturesAfter(w, capture)
  <1>1. PICK C, P : Here(C, P) BY Legal
  <1>2. StackInv(code, capture_count, register_count, Len(subject), C, P, stack, bp, capture,
                 Enclosing(code, pc))
        BY <1>1 DEF Here
  <1>3. stack \in Seq(Elem) /\ Len(stack) \in Nat
    <2>1. Geometry(C, P, stack, bp) BY <1>2 DEF StackInv
    <2> QED BY <2>1, Places
  <1>4. m \in Nat BY DEF Groups
  <1>5. /\ capture_count \in Nat /\ register_count \in Nat /\ Len(subject) \in Nat
        /\ cptr \in 0 .. Len(subject)
        BY Legal
  <1>6. /\ Writes(capture_count, register_count, Len(subject), w, f, m)
        /\ f = Written(w, capture, f, m)
        /\ \A i \in DOMAIN capture : i >= 2 * capture_count => f[i] = capture[i]
        /\ DOMAIN f = DOMAIN capture
        /\ DOMAIN capture = Slots(capture_count, register_count)
        BY GroupsWrite
  <1> DEFINE cap == Written(w, capture, f, m)
  <1>7. \E P2 : /\ StackInv(code, capture_count, register_count, Len(subject), C, P2,
                            stk, bp, cap, Enclosing(code, pc))
                /\ Keeps(C, P, stack, capture, C, P2, stk, cap)
    <2> DEFINE A == Enclosing(code, pc)
               n == Len(subject)
               cc == capture_count
               rc == register_count
    <2>1. /\ StackInv(code, cc, rc, n, C, P, stack, bp, capture, A)
          /\ cc \in Nat /\ rc \in Nat /\ n \in Nat /\ Writes(cc, rc, n, w, f, m)
          BY <1>2, <1>5, <1>6
    <2> HIDE DEF A, n, cc, rc, f, m
    <2>2. \E P2 : /\ StackInv(code, cc, rc, n, C, P2, stk, bp, cap, A)
                  /\ Keeps(C, P, stack, capture, C, P2, stk, cap)
          BY <1>4, <2>1, PushPairs
    <2> QED BY <2>2 DEF A, n, cc, rc
  <1>8. s \in Nat /\ s >= Len(stack) + 2 * m
    <2> DEFINE l == Len(stack)
    <2>1. l \in Nat /\ l <= size BY <1>3
    <2> HIDE DEF m, l
    <2>2. Sizes(size, l, m)[m] \in Nat /\ Sizes(size, l, m)[m] >= l + 2 * m BY <1>4, <2>1, SizesAre
    <2> QED BY <2>2 DEF l
  <1>9. Len(stk) = Len(stack) + 2 * m
    <2>1. Numeric(w, capture, m)
      <3>1. \A j \in 1 .. m : w[j][1] \in Slots(capture_count, register_count)
            BY <1>6 DEF Writes
      <3>2. CaptureFits(capture_count, register_count, Len(subject), capture)
            BY <1>2 DEF StackInv
      <3>3. \A x \in Slots(capture_count, register_count) : x \in Int /\ capture[x] \in Int
            BY <1>5, <3>2 DEF CaptureFits, Fit, Slots
      <3> QED BY <3>1, <3>3 DEF Numeric
    <2> HIDE DEF m
    <2>2. m \in Nat /\ m <= m BY <1>4
    <2> DEFINE u == Undos(w, capture, m)
    <2>3. u \in Seq(Elem) /\ Len(u) = 2 * m BY <2>1, <2>2, UndosAre
    <2> HIDE DEF u
    <2>4. Len(stack \o u) = Len(stack) + 2 * m BY <1>3, <2>3
    <2> QED BY <2>4 DEF u
  <1>10. \/ OutOfMemory
         \/ /\ stack_size' = s /\ stack' = stk /\ capture' = cap
            /\ pc' = After /\ cptr' = cptr /\ bp' = bp
    <2>1. cap = f BY <1>6
    <2> HIDE DEF cap
    <2> QED BY <2>1, SaveCaptureIs
  <1>11. CASE OutOfMemory BY <1>11, MemoryKept
  <1>12. CASE /\ stack_size' = s /\ stack' = stk /\ capture' = cap
              /\ pc' = After /\ cptr' = cptr /\ bp' = bp
    <2>1. /\ Ins.op \notin Ends /\ Ins.op # "goto" /\ Ins.op \notin Lookarounds
          /\ Ins.op \notin Pushes
          BY DEF Ends, Lookarounds, Pushes
    <2>2. /\ After \in InsStarts(code) /\ Enclosing(code, After) = Enclosing(code, pc)
          /\ LiveRegs(code, After) \subseteq LiveRegs(code, pc)
          BY <2>1, NextIs, Onward
    <2>3. AllStored(capture_count, capture', LiveRegs(code, pc'))
      <3> SUFFICES ASSUME NEW x \in LiveRegs(code, After)
                   PROVE  Stored(capture_count, capture', x)
          BY <1>12 DEF AllStored
      <3>1. Stored(capture_count, capture, x)
        <4>1. AllStored(capture_count, capture, LiveRegs(code, pc)) BY Legal
        <4> QED BY <2>2, <4>1 DEF AllStored
      <3>2. x[1] \in Nat /\ 2 * capture_count + x[1] \in DOMAIN capture BY <3>1 DEF Stored
      <3>3. 2 * capture_count + x[1] >= 2 * capture_count BY <1>5, <3>2
      <3> HIDE DEF f, cap
      <3>4. capture' = f BY <1>6, <1>12 DEF cap
      <3>5. /\ capture'[2 * capture_count + x[1]] = capture[2 * capture_count + x[1]]
            /\ 2 * capture_count + x[1] \in DOMAIN capture'
            BY <1>6, <3>2, <3>3, <3>4
      <3> QED BY <3>1, <3>2, <3>5 DEF Stored
    <2> HIDE DEF s, stk, cap, f, m
    <2>4. stack_size' \in Nat /\ Len(stack') <= stack_size' BY <1>8, <1>9, <1>12
    <2>5. PICK P2 : /\ StackInv(code, capture_count, register_count, Len(subject), C, P2,
                                stack', bp', capture', Enclosing(code, pc'))
                    /\ Keeps(C, P, stack, capture, C, P2, stack', capture')
          BY <1>7, <1>12, <2>2
    <2>6. pc' \in InsStarts(code) /\ cptr' \in 0 .. Len(subject) BY <1>5, <1>12, <2>2
    <2> QED BY <1>1, <2>3, <2>4, <2>5, <2>6, Goes
  <1> QED BY <1>10, <1>11, <1>12

LEMMA OpSaveKept == ASSUME IInv, Fixed, OpSave PROVE Kept
  <1> DEFINE slot == 2 * Ins.group + (IF Ins.op = "save_end" THEN 1 ELSE 0)
             w    == << <<slot, cptr>> >>
  <1>1. ret = "running" /\ Ins.op \in {"save_start", "save_end"} /\ SaveCapture(stack_size, w, After)
        BY DEF OpSave, Running
  <1>2. /\ OperandsFit(Ins, capture_count, register_count) /\ capture_count \in Nat
        /\ cptr \in 0 .. Len(subject) /\ stack_size \in Nat /\ Len(stack) <= stack_size
        BY <1>1, Legal
  <1>3. Ins.group \in 0 .. capture_count - 1 BY <1>1, <1>2 DEF OperandsFit
  <1>4. slot \in Nat /\ slot < 2 * capture_count BY <1>2, <1>3
  <1> HIDE DEF slot
  <1>5. Groups(w)
    <2>1. Len(w) = 1 /\ DOMAIN w = {1} /\ 1 .. 1 = {1} /\ w[1][1] = slot /\ w[1][2] = cptr
          OBVIOUS
    <2> HIDE DEF w
    <2> QED BY <1>2, <1>4, <2>1 DEF Groups
  <1> HIDE DEF w
  <1>6. Ins.op \in {"save_start", "save_end", "save_reset"} BY <1>1
  <1> QED BY <1>1, <1>2, <1>5, <1>6, SavesKept

LEMMA OpSaveResetKept == ASSUME IInv, Fixed, OpSaveReset PROVE Kept
  <1> DEFINE slots == 2 * (Ins.hi - Ins.lo + 1)
             w     == [k \in 1 .. slots |-> <<2 * Ins.lo + k - 1, Null>>]
             size  == Room(stack_size, Len(stack), slots)
             lo    == Ins.lo
             hi    == Ins.hi
  <1>1. ret = "running" /\ Ins.op = "save_reset" /\ SaveCapture(size, w, After)
        BY DEF OpSaveReset, Running
  <1>2. /\ OperandsFit(Ins, capture_count, register_count) /\ capture_count \in Nat
        /\ stack_size \in Nat /\ Len(stack) <= stack_size
        BY <1>1, Legal
  <1>3. lo \in Nat /\ hi \in lo .. capture_count - 1 BY <1>1, <1>2 DEF OperandsFit
  <1>4. /\ slots = 2 * (hi - lo + 1) /\ w = [k \in 1 .. slots |-> <<2 * lo + k - 1, Null>>]
        OBVIOUS
  <1>5. Len(stack) \in Nat
    <2>1. PICK C, P : Here(C, P) BY <1>1, Legal
    <2>2. Geometry(C, P, stack, bp) BY <2>1 DEF Here, StackInv
    <2> QED BY <2>2, Places
  <1> HIDE DEF slots, w, lo, hi
  <1>6. slots \in Nat /\ 2 * lo + slots <= 2 * capture_count BY <1>2, <1>3, <1>4
  <1>7. size \in Nat /\ Len(stack) <= size
    <2> DEFINE l == Len(stack)
    <2>1. size \in Nat /\ size >= l + slots
      <3> HIDE DEF l
      <3>1. l \in Nat /\ l <= stack_size BY <1>2, <1>5 DEF l
      <3>2. Room(stack_size, l, slots) \in Nat /\ Room(stack_size, l, slots) >= l + slots
            BY <1>2, <1>6, <3>1, RoomIs
      <3> QED BY <3>2 DEF l
    <2> QED BY <1>5, <1>6, <2>1
  <1>8. Groups(w)
    <2>1. DOMAIN w = 1 .. slots BY <1>4
    <2>2. Len(w) = slots BY <1>6, <2>1
    <2>3. \A k \in 1 .. slots : w[k][1] = 2 * lo + k - 1 /\ w[k][2] = Null BY <1>4
    <2>4. \A k \in 1 .. slots : w[k][1] \in Nat /\ w[k][1] < 2 * capture_count
      <3> SUFFICES ASSUME NEW k \in 1 .. slots
                   PROVE  2 * lo + k - 1 \in Nat /\ 2 * lo + k - 1 < 2 * capture_count
          BY <2>3
      <3> QED BY <1>2, <1>3, <1>6
    <2>5. \A j, k \in 1 .. slots : w[j][1] = w[k][1] => j = k
      <3> SUFFICES ASSUME NEW j \in 1 .. slots, NEW k \in 1 .. slots,
                          2 * lo + j - 1 = 2 * lo + k - 1
                   PROVE  j = k
          BY <2>3
      <3> QED BY <1>3, <1>6
    <2> QED BY <1>6, <2>1, <2>2, <2>3, <2>4, <2>5 DEF Groups
  <1> HIDE DEF size
  <1>9. Ins.op \in {"save_start", "save_end", "save_reset"} BY <1>1
  <1> QED BY <1>1, <1>7, <1>8, <1>9, SavesKept

---------------------------------------------------------------------------
(***************************************************************************)
(* The steps that end a lookaround.                                        *)
(***************************************************************************)
\* Where a lookaround is open, the newest state that is not a choice is that of
\* the innermost: choices were made inside it, and their returns lead there too.
LEMMA Innermost ==
  ASSUME NEW c, NEW cc, NEW rc, NEW n, NEW C, NEW P, NEW s, NEW b, NEW cap, NEW A,
         StackInv(c, cc, rc, n, C, P, s, b, cap, A), A # {}
  PROVE  \E h \in C : /\ s[h].type # "split" /\ Nested(c, A, s[h], s[h - 2])
                      /\ \A z \in C : z > h => s[z].type = "split"
  <1> DEFINE Q == {g \in C \cup {0} : /\ Nests(c, s, A, g)
                                      /\ \A z \in C : z > g => s[z].type = "split"}
  <1>1. /\ Geometry(C, P, s, b) /\ Nests(c, s, A, b)
        /\ \A h \in C : Nests(c, s, Enclosing(c, s[h - 2]), s[h].bp)
        BY DEF StackInv, AllNest
  <1>2. /\ \A h \in C : h \in Nat /\ 3 <= h
        /\ \A h \in C : s[h].bp \in C \cup {0} /\ s[h].bp < h
        /\ b \in C \cup {0} /\ b \in Nat /\ \A h \in C : h <= b
        BY <1>1, Places
  <1>3. \A h, z \in C : z <= s[h].bp \/ h <= z BY <1>1 DEF Geometry, Under
  <1>4. b \in Q
    <2>1. \A z \in C : ~(z > b) BY <1>2
    <2> QED BY <1>1, <1>2, <2>1
  <1>5. Q \in SUBSET Nat
    <2>1. \A x \in C : x \in Nat BY <1>2
    <2>2. \A x \in C \cup {0} : x \in Nat BY <2>1
    <2> QED BY <2>2
  <1>6. PICK g \in Q : \A y \in Q : g <= y BY <1>4, <1>5, Least
  <1>7. g \in C \cup {0} /\ Nests(c, s, A, g) /\ \A z \in C : z > g => s[z].type = "split"
        BY <1>6
  <1>8. g # 0 /\ g \in C BY <1>7 DEF Nests
  <1>9. Nested(c, A, s[g], s[g - 2]) BY <1>7, <1>8 DEF Nests
  <1>10. s[g].type # "split"
    <2> SUFFICES ASSUME s[g].type = "split" PROVE FALSE
        OBVIOUS
    <2> DEFINE y == s[g].bp
    <2>1. Enclosing(c, s[g - 2]) = A BY <1>9 DEF Nested
    <2>2. Nests(c, s, A, y) BY <1>1, <1>8, <2>1
    <2>3. y \in C \cup {0} /\ y < g BY <1>2, <1>8
    <2>6. y \in Nat /\ g \in Nat
      <3> HIDE DEF y, Q
      <3>1. \A x \in C : x \in Nat BY <1>2
      <3> QED BY <1>8, <2>3, <3>1
    <2>4. ASSUME NEW z \in C, z > y PROVE s[z].type = "split"
      <3>1. z \in Nat /\ g \in Nat /\ y \in Nat BY <1>2, <2>6
      <3>2. z <= y \/ g <= z BY <1>3, <1>8
      <3> HIDE DEF y
      <3>3. z = g \/ z > g BY <2>4, <3>1, <3>2
      <3> QED BY <1>7, <3>3
    <2>5. y \in Q BY <2>2, <2>3, <2>4
    <2> HIDE DEF y, Q
    <2>7. g <= y BY <1>6, <2>5
    <2> QED BY <2>3, <2>6, <2>7
  <1> QED BY <1>7, <1>8, <1>9, <1>10

\* It is the state that the instruction ending the lookaround looks for.
LEMMA ClosesIs ==
  ASSUME IInv, ret = "running", NEW type,
         \/ Ins.op = "lookahead_match" /\ type = "lookahead"
         \/ Ins.op = "negative_lookahead_match" /\ type = "negative_lookahead"
  PROVE  \E h \in Saved : /\ h = Max(SavedAs({type})) /\ stack[h].type = type
                          /\ h = Max(SavedAs({"lookahead", "negative_lookahead"}))
                          /\ h \in SavedAs({"lookahead", "negative_lookahead"})
                          /\ LiveRegs(code, stack[h - 2]) \subseteq LiveRegs(code, pc)
  <1> DEFINE inside == Enclosing(code, pc)
             open   == SavedAs({"lookahead", "negative_lookahead"})
  <1>1. PICK C, P : Here(C, P) BY Legal
  <1>2. Saved = C BY <1>1, SavedIs
  <1>3. StackInv(code, capture_count, register_count, Len(subject), C, P, stack, bp, capture, inside)
        BY <1>1 DEF Here
  <1>4. LookaroundsFit(code, pc) /\ Ins = code[pc + 1] BY Legal DEF Ins
  <1>5. /\ inside # {} /\ code[Max(inside) + 1].op = type
        /\ LiveRegs(code, TargetOf(code, Max(inside))) \subseteq LiveRegs(code, pc)
        BY <1>4 DEF LookaroundsFit
  <1>6. Geometry(C, P, stack, bp) BY <1>3 DEF StackInv
  <1>7. /\ Len(stack) \in Nat
        /\ \A h \in C : h \in Nat /\ h <= Len(stack) /\ stack[h] \in StateRec
        BY <1>6, Places
  <1> HIDE DEF inside
  <1>8. PICK h \in C : /\ stack[h].type # "split" /\ Nested(code, inside, stack[h], stack[h - 2])
                       /\ \A z \in C : z > h => stack[z].type = "split"
        BY <1>3, <1>5, Innermost
  <1>9. stack[h].type = type /\ stack[h - 2] = TargetOf(code, Max(inside))
        BY <1>5, <1>8 DEF Nested
  <1>10. SavedAs({type}) \subseteq open /\ h \in SavedAs({type}) /\ h \in open
         BY <1>2, <1>9 DEF SavedAs
  <1>11. ASSUME NEW y \in open PROVE y <= h
    <2>1. y \in C /\ stack[y].type # "split" BY <1>2 DEF SavedAs
    <2>2. ~(y > h) BY <1>8, <2>1
    <2>3. y \in Nat /\ h \in Nat BY <1>7, <2>1
    <2> QED BY <2>2, <2>3
  <1>12. open \in SUBSET (0 .. Len(stack)) BY <1>2, <1>7 DEF SavedAs
  <1> HIDE DEF open
  <1>13. h = Max(open) BY <1>7, <1>10, <1>11, <1>12, MaxEq
  <1>14. h = Max(SavedAs({type}))
    <2> DEFINE S == SavedAs({type})
    <2>1. S \in SUBSET (0 .. Len(stack)) /\ h \in S /\ \A y \in S : y <= h
          BY <1>10, <1>11, <1>12
    <2> HIDE DEF S
    <2>2. h = Max(S) BY <1>7, <2>1, MaxEq
    <2> QED BY <2>2 DEF S
  <1> QED BY <1>2, <1>5, <1>9, <1>10, <1>13, <1>14 DEF open

LEMMA OpNegativeLookaheadMatchKept ==
  ASSUME IInv, Fixed, OpNegativeLookaheadMatch
  PROVE  Kept
  <1> DEFINE h     == Max(SavedAs({"negative_lookahead"}))
             outer == {g \in Resumable : g < h}
  <1>1. /\ ret = "running"
        /\ IF outer = {} THEN ret' = "no_match"
           ELSE Restore(Max(outer)) /\ stack_size' = stack_size
        BY DEF OpNegativeLookaheadMatch, Running
  <1>2. outer \subseteq Saved BY DEF Resumable, SavedAs
  <1> HIDE DEF outer
  <1>3. CASE outer = {}
    <2>1. ret' # "running" BY <1>1, <1>3
    <2> QED BY <2>1, Stops
  <1>4. CASE outer # {}
    <2>1. Max(outer) \in Saved BY <1>1, <1>2, <1>4, NewestIs
    <2>2. stack_size' \in Nat /\ Len(stack) <= stack_size' BY <1>1, <1>4, Legal
    <2> QED BY <1>1, <1>4, <2>1, <2>2, RestoreKept
  <1> QED BY <1>3, <1>4

LEMMA OpLookaheadMatchKept ==
  ASSUME IInv, Fixed, OpLookaheadMatch
  PROVE  Kept
  <1> DEFINE h == Max(SavedAs({"lookahead"}))
  <1>1. ret = "running" /\ Ins.op = "lookahead_match" BY DEF OpLookaheadMatch, Running
  <1>2. h \in Saved /\ LiveRegs(code, stack[h - 2]) \subseteq LiveRegs(code, pc)
        BY <1>1, ClosesIs
  <1>3. PICK C, P : Here(C, P) BY <1>1, Legal
  <1>4. Saved = C /\ h \in C BY <1>2, <1>3, SavedIs
  <1> DEFINE s2 == SubSeq(stack, 1, h - 3) \o Moved(KeptAbove(C, Len(stack), h), stack)
  <1>5. /\ pc' = stack[h - 2] /\ cptr' = stack[h - 1] /\ bp' = stack[h].bp
        /\ stack' = IF h = 3 THEN <<>> ELSE s2
        /\ capture' = capture /\ stack_size' = stack_size
    <2>1. /\ pc' = stack[h - 2] /\ cptr' = stack[h - 1] /\ bp' = stack[h].bp
          /\ stack' = IF h = 3 THEN <<>>
                      ELSE SubSeq(stack, 1, h - 3)
                             \o Moved(KeptAbove(Saved, Len(stack), h), stack)
          /\ capture' = capture /\ stack_size' = stack_size
          BY Zenon DEF OpLookaheadMatch, KeptAbove, Moved, Rank
    <2>2. Saved = C BY <1>4
    <2> HIDE DEF h
    <2> QED BY <2>1, <2>2
  <1> HIDE DEF h
  <1>6. StackInv(code, capture_count, register_count, Len(subject), C, P, stack, bp, capture,
                 Enclosing(code, pc))
        BY <1>3 DEF Here
  <1>7. /\ capture_count \in Nat /\ register_count \in Nat /\ Len(subject) \in Nat
        /\ stack_size \in Nat /\ Len(stack) <= stack_size
        /\ AllStored(capture_count, capture, LiveRegs(code, pc))
        BY <1>1, Legal
  <1>8. Geometry(C, P, stack, bp) BY <1>6 DEF StackInv
  <1>9. /\ Len(stack) \in Nat /\ \A g \in C : g \in Nat /\ 3 <= g
        /\ stack[h].bp \in C \cup {0} /\ stack[h].bp < h
        BY <1>4, <1>8, Places
  <1>10. stack[h - 2] \in InsStarts(code) /\ stack[h - 1] \in 0 .. Len(subject)
         BY <1>4, <1>6 DEF StackInv, StatesFit
  <1>11. AllStored(capture_count, capture', LiveRegs(code, pc'))
         BY <1>2, <1>5, <1>7 DEF AllStored
  <1>12. CASE h = 3
    <2>1. stack[h].bp = 0 BY <1>9, <1>12
    <2>2. Enclosing(code, stack[h - 2]) = {}
      <3>1. Nests(code, stack, Enclosing(code, stack[h - 2]), stack[h].bp)
            BY <1>4, <1>6 DEF StackInv, AllNest
      <3> QED BY <2>1, <3>1 DEF Nests
    <2>3. CaptureFits(capture_count, register_count, Len(subject), capture)
          BY <1>6 DEF StackInv
    <2>4. StackInv(code, capture_count, register_count, Len(subject), {}, {}, <<>>, 0, capture, {})
          BY <2>3, EmptyStack
    <2>5. stack' = <<>> /\ bp' = 0 /\ Enclosing(code, pc') = {} BY <1>5, <1>12, <2>1, <2>2
    <2>6. StackInv(code, capture_count, register_count, Len(subject), {}, {}, stack', bp', capture',
                   Enclosing(code, pc'))
          BY <1>5, <2>4, <2>5
    <2>7. Keeps(C, P, stack, capture, {}, {}, stack', capture') BY DEF Keeps
    <2>8. Len(stack') = 0 BY <2>5
    <2>9. Len(stack') <= stack_size'
      <3>1. stack_size' = stack_size /\ stack_size \in Nat BY <1>5, <1>7
      <3> QED BY <2>8, <3>1
    <2> QED BY <1>1, <1>3, <1>5, <1>7, <1>10, <1>11, <2>6, <2>7, <2>9, Goes
  <1>13. CASE h # 3
    <2> DEFINE C2 == {x \in C : x < h}
    <2>1. \E P2 : /\ StackInv(code, capture_count, register_count, Len(subject), C2, P2, s2,
                              stack[h].bp, capture, Enclosing(code, stack[h - 2]))
                  /\ Keeps(C, P, stack, capture, C2, P2, s2, capture)
                  /\ Len(s2) <= Len(stack)
      <3> DEFINE A  == Enclosing(code, pc)
                 n  == Len(subject)
                 cc == capture_count
                 rc == register_count
      <3>1. /\ StackInv(code, cc, rc, n, C, P, stack, bp, capture, A)
            /\ cc \in Nat /\ rc \in Nat /\ n \in Nat
            BY <1>6, <1>7
      <3> HIDE DEF A, n, cc, rc
      <3>2. \E P2 : /\ StackInv(code, cc, rc, n, C2, P2, s2,
                                stack[h].bp, capture, Enclosing(code, stack[h - 2]))
                    /\ Keeps(C, P, stack, capture, C2, P2, s2, capture)
                    /\ Len(s2) <= Len(stack)
            BY <1>4, <3>1, DropTo
      <3> QED BY <3>2 DEF n, cc, rc
    <2>2. stack' = s2 BY <1>5, <1>13
    <2> HIDE DEF C2, s2
    <2>3. PICK P2 : /\ StackInv(code, capture_count, register_count, Len(subject), C2, P2, stack',
                                bp', capture', Enclosing(code, pc'))
                    /\ Keeps(C, P, stack, capture, C2, P2, stack', capture')
                    /\ Len(stack') <= Len(stack)
          BY <1>5, <2>1, <2>2
    <2>4. Geometry(C2, P2, stack', bp') BY <2>3 DEF StackInv
    <2>5. Len(stack') \in Nat BY <2>4, Places
    <2>6. stack_size' \in Nat /\ Len(stack') <= stack_size' BY <1>5, <1>7, <1>9, <2>3, <2>5
    <2> QED BY <1>1, <1>3, <1>5, <1>10, <1>11, <2>3, <2>6, Goes
  <1> QED BY <1>12, <1>13

---------------------------------------------------------------------------
(***************************************************************************)
(* The invariant, and what follows from it.                                *)
(***************************************************************************)
LEMMA Starts == ExecInit => IInv
  <1> SUFFICES ASSUME ExecInit PROVE IInv
      OBVIOUS
  <1> DEFINE n == Len(subject)
  <1>1. /\ Len(code) \in Nat /\ Runnable(code, capture_count, register_count)
        /\ capture_count \in Nat /\ register_count \in Nat /\ subject \in Seq(Nat)
        /\ pc = 0 /\ cptr \in 0 .. Len(subject) /\ stack = <<>> /\ bp = 0
        /\ stack_size = STACK_SIZE
        /\ capture = [k \in 0 .. 2 * capture_count + register_count - 1 |->
                         IF k < 2 * capture_count THEN Null ELSE Unset]
        BY DEF ExecInit
  <1>2. 0 \in InsStarts(code) /\ Enclosing(code, 0) = {} /\ LiveRegs(code, 0) = {}
        BY <1>1 DEF Runnable
  <1>3. stack_size \in Nat /\ Len(stack) <= stack_size
    <2>1. STACK_SIZE \in Nat BY StackAssumption
    <2>2. Len(stack) = 0 BY <1>1
    <2> QED BY <1>1, <2>1, <2>2
  <1>4. AllStored(capture_count, capture, LiveRegs(code, pc)) BY <1>1, <1>2 DEF AllStored
  <1>5. CaptureFits(capture_count, register_count, n, capture)
    <2>1. \A i \in Slots(capture_count, register_count) :
             capture[i] = IF i < 2 * capture_count THEN Null ELSE Unset
          BY <1>1 DEF Slots
    <2>2. capture = [i \in Slots(capture_count, register_count) |-> capture[i]]
          BY <1>1 DEF Slots
    <2>3. \A i \in Slots(capture_count, register_count) :
             Fit(capture_count, n, i, capture[i])
          BY <2>1 DEF Fit, Null, Unset
    <2> QED BY <2>2, <2>3 DEF CaptureFits
  <1>6. StackInv(code, capture_count, register_count, n, {}, {}, stack, bp, capture,
                 Enclosing(code, pc))
    <2>1. StackInv(code, capture_count, register_count, n, {}, {}, <<>>, 0, capture, {})
          BY <1>5, EmptyStack
    <2> QED BY <1>1, <1>2, <2>1
  <1>7. \E C, P : StackInv(code, capture_count, register_count, n, C, P, stack, bp, capture,
                           Enclosing(code, pc))
        BY <1>6
  <1> QED BY <1>1, <1>2, <1>3, <1>4, <1>7 DEF IInv

\* Every step keeps it, and what the saved states restore.
LEMMA Steps == IInv /\ ExecNext => Kept
  <1> SUFFICES ASSUME IInv, ExecNext PROVE Kept
      OBVIOUS
  <1>1. Fixed BY DEF ExecNext, Fixed
  <1>2. CASE OpChar BY <1>1, <1>2, OpCharKept
  <1>3. CASE OpPrev BY <1>1, <1>3, OpPrevKept
  <1>4. CASE OpLineStart BY <1>1, <1>4, OpLineStartKept
  <1>5. CASE OpLineEnd BY <1>1, <1>5, OpLineEndKept
  <1>6. CASE OpWordBoundary BY <1>1, <1>6, OpWordBoundaryKept
  <1>7. CASE OpBackReference BY <1>1, <1>7, OpBackReferenceKept
  <1>8. CASE OpGoto BY <1>1, <1>8, OpGotoKept
  <1>9. CASE OpSplit BY <1>1, <1>9, OpSplitKept
  <1>10. CASE OpLookahead BY <1>1, <1>10, OpLookaheadKept
  <1>11. CASE OpLookaheadMatch BY <1>1, <1>11, OpLookaheadMatchKept
  <1>12. CASE OpNegativeLookaheadMatch BY <1>1, <1>12, OpNegativeLookaheadMatchKept
  <1>13. CASE OpSave BY <1>1, <1>13, OpSaveKept
  <1>14. CASE OpSaveReset BY <1>1, <1>14, OpSaveResetKept
  <1>15. CASE OpSetI32 BY <1>1, <1>15, OpSetI32Kept
  <1>16. CASE OpSetCharPos BY <1>1, <1>16, OpSetCharPosKept
  <1>17. CASE OpCheckAdvance BY <1>1, <1>17, OpCheckAdvanceKept
  <1>18. CASE OpLoop BY <1>1, <1>18, OpLoopKept
  <1>19. CASE OpLoopSplit BY <1>1, <1>19, OpLoopSplitKept
  <1>20. CASE OpMatch BY <1>1, <1>20, OpMatchKept
  <1> QED BY <1>2, <1>3, <1>4, <1>5, <1>6, <1>7, <1>8, <1>9, <1>10, <1>11, <1>12, <1>13,
             <1>14, <1>15, <1>16, <1>17, <1>18, <1>19, <1>20 DEF ExecNext

vars == <<code, flags, capture_count, register_count, execVars>>

LEMMA Stutters == IInv /\ UNCHANGED vars => IInv'
  BY DEF IInv, vars, execVars

\* In every state the interpreter reaches from its entry, on any code that can be
\* run and any subject, the stack divides into states and undo pairs, the registers
\* in use are set, every saved state returns to where the registers it needs are
\* set, and the states are nested as the lookarounds are (lre_exec_backtrack).
THEOREM Invariant == ExecSpec => []IInv
  <1>1. ExecInit => IInv BY Starts
  <1>2. IInv /\ [ExecNext]_vars => IInv' BY Steps, Stutters DEF Kept
  <1> QED BY <1>1, <1>2, PTL DEF ExecSpec, vars

LEMMA InvariantIsSound == IInv => StackSound
  <1> SUFFICES ASSUME IInv, ret = "running"
               PROVE  /\ Len(stack) <= stack_size
                      /\ Divided
                      /\ Ins.op = "lookahead_match" => InLookaround("lookahead")
                      /\ Ins.op = "negative_lookahead_match" => InLookaround("negative_lookahead")
      BY DEF StackSound
  <1>1. PICK C, P : Here(C, P) BY Legal
  <1>2. /\ Saved = C
        /\ \A g \in C \cup {0} : /\ Pairs(g) \subseteq P
                                 /\ (TopOf(g) - g) % 2 = 0
        BY <1>1, SavedIs
  <1>3. /\ Geometry(C, P, stack, bp)
        /\ CaptureFits(capture_count, register_count, Len(subject), capture)
        /\ PairsFit(capture_count, register_count, Len(subject), P, stack)
        BY <1>1 DEF Here, StackInv
  <1>4. /\ Len(stack) \in Nat
        /\ \A h \in C : h \in Nat /\ 3 <= h /\ h <= Len(stack)
        /\ \A g, h \in C : g < h => g < h - 2
        /\ \A h \in C : stack[h] \in StateRec /\ stack[h].bp \in C \cup {0} /\ stack[h].bp < h
        BY <1>3, Places
  <1>5. Len(stack) <= stack_size BY Legal
  <1>6. \A h \in Saved : /\ h \in 3 .. Len(stack)
                         /\ IsState(stack[h]) /\ stack[h].bp \in 0 .. h - 3
    <2> SUFFICES ASSUME NEW h \in C
                 PROVE  /\ h \in 3 .. Len(stack)
                        /\ IsState(stack[h]) /\ stack[h].bp \in 0 .. h - 3
        BY <1>2
    <2> DEFINE y == stack[h].bp
    <2>1. IsState(stack[h]) BY <1>4 DEF IsState, StateRec
    <2>2. h \in Nat /\ 3 <= h /\ h <= Len(stack) /\ y \in C \cup {0} /\ y < h BY <1>4
    <2> HIDE DEF y
    <2>3. y \in 0 .. h - 3
      <3>1. CASE y = 0 BY <2>2, <3>1
      <3>2. CASE y \in C
        <4>1. y \in Nat /\ y < h - 2 BY <1>4, <2>2, <3>2
        <4> QED BY <2>2, <4>1
      <3> QED BY <2>2, <3>1, <3>2
    <2>4. h \in 3 .. Len(stack) BY <1>4, <2>2
    <2> QED BY <2>1, <2>3, <2>4 DEF y
  <1>7. \A g \in Saved \cup {0} : UndoPairs(g)
    <2> SUFFICES ASSUME NEW g \in C \cup {0}
                 PROVE  /\ (TopOf(g) - g) % 2 = 0
                        /\ \A k \in Pairs(g) : stack[k] \in DOMAIN capture
        BY <1>2 DEF UndoPairs
    <2>1. (TopOf(g) - g) % 2 = 0 /\ Pairs(g) \subseteq P BY <1>2
    <2>2. DOMAIN capture = Slots(capture_count, register_count) BY <1>3 DEF CaptureFits
    <2>3. \A k \in P : stack[k] \in DOMAIN capture BY <1>3, <2>2 DEF PairsFit
    <2> QED BY <2>1, <2>3
  <1>8. Divided BY <1>6, <1>7 DEF Divided
  <1>9. ASSUME NEW type,
               \/ Ins.op = "lookahead_match" /\ type = "lookahead"
               \/ Ins.op = "negative_lookahead_match" /\ type = "negative_lookahead"
        PROVE  InLookaround(type)
    <2>1. PICK h \in Saved : /\ stack[h].type = type
                             /\ h = Max(SavedAs({"lookahead", "negative_lookahead"}))
                             /\ h \in SavedAs({"lookahead", "negative_lookahead"})
          BY <1>9, ClosesIs
    <2> QED BY <2>1 DEF InLookaround
  <1>10. (Ins.op = "lookahead_match" => InLookaround("lookahead"))
         /\ (Ins.op = "negative_lookahead_match" => InLookaround("negative_lookahead"))
         BY <1>9
  <1> QED BY <1>5, <1>8, <1>10

LEMMA InvariantSetsRegisters == IInv => RegistersSet
  <1> SUFFICES ASSUME IInv, ret = "running", Ins.op \in Pops1 \cup Pops2,
                      NEW r \in IF Ins.op \in LoopChecks THEN {Reg, Reg + 1} ELSE {Reg}
               PROVE  r \in DOMAIN capture /\ capture[r] # Unset
      BY DEF RegistersSet
  <1>1. /\ RegistersFit(code, pc) /\ capture_count \in Nat
        /\ AllStored(capture_count, capture, LiveRegs(code, pc))
        BY Legal
  <1>2. Ins.reg \in Nat /\ Reg = 2 * capture_count + Ins.reg BY RegisterIs
  <1>3. ASSUME NEW x \in Nat, NEW kind, <<x, kind>> \in LiveRegs(code, pc)
        PROVE  /\ 2 * capture_count + x \in DOMAIN capture
               /\ capture[2 * capture_count + x] # Unset
    <2>1. Stored(capture_count, capture, <<x, kind>>) BY <1>1, <1>3 DEF AllStored
    <2> QED BY <2>1 DEF Stored, Unset
  <1>4. /\ Ins.op \in Loops => <<Ins.reg, "set_i32">> \in LiveRegs(code, pc)
        /\ Ins.op = "check_advance" => <<Ins.reg, "set_char_pos">> \in LiveRegs(code, pc)
        /\ Ins.op \in Pops2 => <<Ins.reg + 1, "set_char_pos">> \in LiveRegs(code, pc)
        BY <1>1 DEF RegistersFit, Ins
  <1>5. Ins.op \in Loops \/ Ins.op = "check_advance" BY DEF Loops, Pops1, Pops2
  <1>6. CASE r = Reg
    <2>1. \E kind : <<Ins.reg, kind>> \in LiveRegs(code, pc) BY <1>4, <1>5
    <2> QED BY <1>2, <1>3, <1>6, <2>1
  <1>7. CASE r # Reg
    <2>1. r = Reg + 1 /\ Ins.op \in Pops2 BY <1>7 DEF LoopChecks, Pops2
    <2>2. Ins.reg + 1 \in Nat /\ r = 2 * capture_count + (Ins.reg + 1) BY <1>1, <1>2, <2>1
    <2> QED BY <1>3, <1>4, <2>1, <2>2
  <1> QED BY <1>6, <1>7

\* Wherever execution and backtracking lead, the one array of the interpreter divides
\* into saved states and undo pairs along the chain of bp, it is within its memory,
\* and the end of a lookaround finds that lookaround's own state (SAVE_CAPTURE,
\* no_match, lookahead_match).
THEOREM StackIsSound == ExecSpec => []StackSound
  BY Invariant, InvariantIsSound, PTL

\* A loop or an advance check reads only registers that were set, and restored as set
\* after every return (compute_register_count, the loop opcodes).
THEOREM RegistersAreSet == ExecSpec => []RegistersSet
  BY Invariant, InvariantSetsRegisters, PTL

\* No step changes what a saved state that stays saved restores: the undo pairs,
\* skipped where one exists and moved down by a lookahead that matches, are exactly
\* those backtracking needs (SAVE_CAPTURE_CHECK, lookahead_match).
THEOREM BacktrackingIsExact == ExecSpec => BacktrackingExact
  <1>1. IInv /\ [ExecNext]_vars => [RestoresSame]_execVars BY Steps DEF Kept, vars
  <1> QED BY <1>1, Invariant, PTL DEF ExecSpec, BacktrackingExact, vars
=============================================================================
