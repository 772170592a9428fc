---------------------------- MODULE Shapes_proofs ----------------------------
(***************************************************************************)
(* TypeOK, PrivateUnshared, FreeListSound, CachesRight and BehavesAsMap    *)
(* for every number of objects, slots of the shapes array, values,         *)
(* attributes and recycled ids: the slot of a private shape can be         *)
(* recycled because nothing else is built on it, a cache that compares id  *)
(* and generation is not fooled by the shape that comes after, and objects *)
(* therefore behave as independent ordered lists of properties.            *)
(***************************************************************************)
EXTENDS Shapes, FiniteSetTheorems, WellFoundedInduction, TLAPS

---------------------------------------------------------------------------
(***************************************************************************)
(* Numbers, functions defined by recursion, and FlattenSeq.                *)
(***************************************************************************)

\* The order of the numbers, in the form the library's theorem on it uses.
LEMMA LessThan == \A x, y \in Nat : y < x => <<y, x>> \in OpToRel(<, Nat)
  BY DEF OpToRel

\* The numbers are well ordered.
LEMMA Ordered ==
  \E R : IsWellFoundedOn(R, Nat) /\ \A x, y \in Nat : y < x => <<y, x>> \in R
  BY LessThan, NatLessThanWellFounded, Zenon

\* A set of numbers has a least one.
LEMMA Least ==
  ASSUME NEW T, T \subseteq Nat, T # {}
  PROVE  \E x \in T : \A y \in T : x <= y
  <1>1. PICK R : IsWellFoundedOn(R, Nat) /\ \A x, y \in Nat : y < x => <<y, x>> \in R
        BY Ordered
  <1>2. PICK x \in T : \A y \in T : <<y, x>> \notin R BY <1>1, WFMin
  <1>3. \A y \in T : ~(y < x) BY <1>1, <1>2
  <1>4. \A y \in T : x <= y BY <1>3
  <1> QED BY <1>2, <1>4

\* What SelectInSeq takes the least of.
LEMMA MinIsLeast ==
  ASSUME NEW T, T \subseteq Nat, T # {}
  PROVE  Min(T) \in T /\ \A y \in T : Min(T) <= y
  <1> QED BY Least DEF Min

\* Induction over the numbers, for a set instead of a formula.
LEMMA SetInduction ==
  ASSUME NEW T, 0 \in T, \A n \in Nat : n \in T => n + 1 \in T
  PROVE  Nat \subseteq T
  <1>1. SUFFICES ASSUME Nat \ T # {} PROVE FALSE
        OBVIOUS
  <1>2. PICK x \in Nat \ T : \A y \in Nat \ T : x <= y BY <1>1, Least
  <1>3. x # 0 BY <1>2
  <1>4. x - 1 \in Nat /\ ~(x <= x - 1) BY <1>2, <1>3
  <1>5. x - 1 \in T BY <1>2, <1>4
  <1>6. (x - 1) + 1 = x BY <1>2
  <1> QED BY <1>2, <1>4, <1>5, <1>6

\* f starts at a and goes on by the steps g.
Iterates(f, n, X, a, g) ==
    f \in [0 .. n -> X] /\ f[0] = a /\ \A i \in 1 .. n : f[i] = g[i][f[i - 1]]
Steps(g, n, X) == g \in [1 .. n -> [X -> X]]

\* A function can be defined by recursion on its argument.
LEMMA Recursion ==
  ASSUME NEW n \in Nat, NEW X, NEW a \in X, NEW g, Steps(g, n, X)
  PROVE  \E f : Iterates(f, n, X, a, g)
  <1> USE DEF Steps
  <1> DEFINE P(k, f) == f[0] = a /\ \A i \in 1 .. k : f[i] = g[i][f[i - 1]]
             T == {k \in Nat : k <= n => \E f \in [0 .. k -> X] : P(k, f)}
  <1>1. 0 \in T
    <2> DEFINE f == [i \in 0 .. 0 |-> a]
    <2>1. f \in [0 .. 0 -> X] /\ f[0] = a OBVIOUS
    <2>2. 1 .. 0 = {} OBVIOUS
    <2> HIDE DEF f
    <2>3. P(0, f) BY <2>1, <2>2
    <2> QED BY <2>1, <2>3
  <1>2. ASSUME NEW k \in Nat, k \in T PROVE k + 1 \in T
    <2> SUFFICES ASSUME k + 1 <= n PROVE \E f \in [0 .. k + 1 -> X] : P(k + 1, f)
        OBVIOUS
    <2>1. PICK e \in [0 .. k -> X] : P(k, e) BY <1>2
    <2> DEFINE f == [i \in 0 .. k + 1 |-> IF i = k + 1 THEN g[k + 1][e[k]] ELSE e[i]]
    <2>2. k + 1 \in 1 .. n /\ k \in 0 .. k /\ e[k] \in X OBVIOUS
    <2>3. g[k + 1][e[k]] \in X BY <2>2
    <2>4. f \in [0 .. k + 1 -> X] BY <2>1, <2>3
    <2>5. \A i \in 0 .. k : f[i] = e[i] OBVIOUS
    <2>6. f[k + 1] = g[k + 1][e[k]] OBVIOUS
    <2> HIDE DEF f
    <2>7. f[0] = a BY <2>1, <2>5
    <2>8. ASSUME NEW i \in 1 .. k + 1 PROVE f[i] = g[i][f[i - 1]]
      <3>1. CASE i = k + 1
        <4>1. i - 1 = k /\ f[k] = e[k] BY <3>1, <2>5
        <4> QED BY <2>6, <3>1, <4>1
      <3>2. CASE i # k + 1
        <4>1. i \in 1 .. k /\ i \in 0 .. k /\ i - 1 \in 0 .. k BY <3>2
        <4> QED BY <2>1, <2>5, <4>1
      <3> QED BY <3>1, <3>2
    <2> QED BY <2>4, <2>7, <2>8
  <1>3. Nat \subseteq T
    <2> HIDE DEF T
    <2> QED BY <1>1, <1>2, SetInduction
  <1>4. n \in T BY <1>3
  <1>5. \E f \in [0 .. n -> X] : P(n, f) BY <1>4
  <1> QED BY <1>5 DEF Iterates

\* The first place of a sequence that passes a test.
LEMMA FirstIn ==
  ASSUME NEW n \in Nat, NEW J \in SUBSET (1 .. n)
  PROVE  LET i == IF J # {} THEN Min(J) ELSE 0
         IN  /\ i \in 0 .. n
             /\ i = 0 <=> J = {}
             /\ i # 0 => i \in J
             /\ \A j \in 1 .. n : j \in J => i # 0 /\ i <= j
  <1>1. J \subseteq Nat OBVIOUS
  <1>2. CASE J = {} BY <1>2
  <1>3. CASE J # {}
    <2>1. Min(J) \in J /\ \A j \in J : Min(J) <= j BY <1>1, <1>3, MinIsLeast
    <2>2. Min(J) \in 1 .. n BY <2>1
    <2> QED BY <1>3, <2>1, <2>2
  <1> QED BY <1>2, <1>3

\* f[i] is what the first i sequences of s give.
Flattens(f, n, X, s) ==
    /\ f \in [1 .. n -> Seq(X)] /\ f[1] = s[1]
    /\ \A i \in 2 .. n : f[i] = f[i - 1] \o s[i]
Lists(s, n, X) == s \in [1 .. n -> Seq(X)]

\* The function FlattenSeq is made of exists.
LEMMA FlattenExists ==
  ASSUME NEW n \in Nat \ {0}, NEW X, NEW s, Lists(s, n, X)
  PROVE  \E f : Flattens(f, n, X, s)
  <1> DEFINE Y == Seq(X)
             g == [i \in 1 .. n |-> [b \in Y |-> b \o s[i]]]
  <1>1. <<>> \in Y OBVIOUS
  <1>2. \A i \in 1 .. n : s[i] \in Y BY DEF Lists
  <1>3. \A i \in 1 .. n : \A b \in Y : b \o s[i] \in Y BY <1>2
  <1>4. Steps(g, n, Y) BY <1>3 DEF Steps
  <1>5. \A i \in 1 .. n : \A b \in Y : g[i][b] = b \o s[i] OBVIOUS
  <1> HIDE DEF g, Y
  <1>6. PICK e : Iterates(e, n, Y, <<>>, g) BY <1>1, <1>4, Recursion
  <1>7. e \in [0 .. n -> Y] /\ e[0] = <<>> /\ \A i \in 1 .. n : e[i] = g[i][e[i - 1]]
        BY <1>6 DEF Iterates
  <1>8. ASSUME NEW i \in 1 .. n PROVE e[i] = e[i - 1] \o s[i]
    <2>1. e[i - 1] \in Y BY <1>7
    <2> QED BY <1>5, <1>7, <2>1
  <1> DEFINE f == [i \in 1 .. n |-> e[i]]
  <1>9. f \in [1 .. n -> Y] BY <1>7
  <1>10. f[1] = s[1]
    <2>1. 1 \in 1 .. n /\ e[1 - 1] = <<>> BY <1>7
    <2>2. e[1] = <<>> \o s[1] BY <1>8, <2>1
    <2>3. s[1] \in Seq(X) BY <1>2, <2>1 DEF Y
    <2>4. <<>> \o s[1] = s[1] BY <2>3
    <2> QED BY <2>1, <2>2, <2>4
  <1>11. ASSUME NEW i \in 2 .. n PROVE f[i] = f[i - 1] \o s[i]
    <2>1. i \in 1 .. n /\ i - 1 \in 1 .. n OBVIOUS
    <2> QED BY <1>8, <2>1
  <1> HIDE DEF f
  <1> QED BY <1>9, <1>10, <1>11 DEF Flattens, Y

\* There is only one such function.
LEMMA FlattenUnique ==
  ASSUME NEW n \in Nat \ {0}, NEW X, NEW s, NEW f, NEW g, Flattens(f, n, X, s), Flattens(g, n, X, s)
  PROVE  f = g
  <1> DEFINE T == {k \in Nat : k + 1 \in 1 .. n => f[k + 1] = g[k + 1]}
  <1>1. 0 \in T BY DEF Flattens
  <1>2. ASSUME NEW k \in Nat, k \in T PROVE k + 1 \in T
    <2> SUFFICES ASSUME (k + 1) + 1 \in 1 .. n PROVE f[(k + 1) + 1] = g[(k + 1) + 1]
        OBVIOUS
    <2> DEFINE j == (k + 1) + 1
    <2>1. j \in 2 .. n /\ j - 1 = k + 1 /\ k + 1 \in 1 .. n OBVIOUS
    <2>2. f[k + 1] = g[k + 1] BY <1>2, <2>1
    <2> HIDE DEF j
    <2>3. f[j] = f[j - 1] \o s[j] /\ g[j] = g[j - 1] \o s[j]
      BY <2>1 DEF Flattens
    <2>4. f[j] = g[j] BY <2>1, <2>2, <2>3
    <2> QED BY <2>4 DEF j
  <1>3. Nat \subseteq T
    <2> HIDE DEF T
    <2> QED BY <1>1, <1>2, SetInduction
  <1>4. ASSUME NEW i \in 1 .. n PROVE f[i] = g[i]
    <2>1. i - 1 \in Nat /\ (i - 1) + 1 = i OBVIOUS
    <2> QED BY <1>3, <2>1
  <1> HIDE DEF T
  <1>5. f = [i \in 1 .. n |-> f[i]] /\ g = [i \in 1 .. n |-> g[i]]
    BY DEF Flattens
  <1> QED BY <1>4, <1>5

\* FlattenSeq by its parts.
LEMMA FlattenMeans ==
  ASSUME NEW n \in Nat \ {0}, NEW X, NEW s, Lists(s, n, X), Len(s) = n,
         NEW f, Flattens(f, n, X, s)
  PROVE  FlattenSeq(s) = f[n]
  <1> DEFINE Flat(w) == w = [i \in 1 .. n |-> IF i = 1 THEN s[i] ELSE w[i - 1] \o s[i]]
  <1>1. Flat(f)
    <2> DEFINE e == [i \in 1 .. n |-> IF i = 1 THEN s[i] ELSE f[i - 1] \o s[i]]
    <2>1. ASSUME NEW i \in 1 .. n PROVE e[i] = f[i]
      <3>1. e[i] = IF i = 1 THEN s[i] ELSE f[i - 1] \o s[i] OBVIOUS
      <3>2. i # 1 => i \in 2 .. n OBVIOUS
      <3> HIDE DEF e
      <3> QED BY <3>1, <3>2 DEF Flattens
    <2>2. f = [i \in 1 .. n |-> f[i]] BY DEF Flattens
    <2>3. e = [i \in 1 .. n |-> e[i]] OBVIOUS
    <2>4. e = f
      <3> HIDE DEF e
      <3> QED BY <2>1, <2>2, <2>3
    <2> QED BY <2>4
  <1> DEFINE w == CHOOSE u : Flat(u)
  <1>2. FlattenSeq(s) = w[n] BY DEF FlattenSeq
  <1>3. Flat(w) BY <1>1
  <1> HIDE DEF w
  <1>4. \A i \in 1 .. n : w[i] = IF i = 1 THEN s[i] ELSE w[i - 1] \o s[i]
    <2> DEFINE e == [i \in 1 .. n |-> IF i = 1 THEN s[i] ELSE w[i - 1] \o s[i]]
    <2>1. \A i \in 1 .. n : e[i] = IF i = 1 THEN s[i] ELSE w[i - 1] \o s[i] OBVIOUS
    <2>2. w = e BY <1>3
    <2> HIDE DEF e
    <2> QED BY <2>1, <2>2
  <1> DEFINE T == {k \in Nat : k + 1 \in 1 .. n => w[k + 1] = f[k + 1]}
  <1>5. 0 \in T BY <1>4 DEF Flattens
  <1>6. ASSUME NEW k \in Nat, k \in T PROVE k + 1 \in T
    <2> SUFFICES ASSUME (k + 1) + 1 \in 1 .. n PROVE w[(k + 1) + 1] = f[(k + 1) + 1]
        OBVIOUS
    <2> DEFINE j == (k + 1) + 1
    <2>1. j \in 2 .. n /\ j \in 1 .. n /\ j # 1 /\ j - 1 = k + 1 /\ k + 1 \in 1 .. n OBVIOUS
    <2>2. w[k + 1] = f[k + 1] BY <1>6, <2>1
    <2> HIDE DEF j
    <2>3. f[j] = f[j - 1] \o s[j] BY <2>1 DEF Flattens
    <2>4. w[j] = w[j - 1] \o s[j] BY <1>4, <2>1
    <2>5. w[j] = f[j] BY <2>1, <2>2, <2>3, <2>4
    <2> QED BY <2>5 DEF j
  <1>7. Nat \subseteq T
    <2> HIDE DEF T
    <2> QED BY <1>5, <1>6, SetInduction
  <1>8. n - 1 \in Nat /\ (n - 1) + 1 = n OBVIOUS
  <1>9. w[n] = f[n] BY <1>7, <1>8
  <1> QED BY <1>2, <1>9

---------------------------------------------------------------------------
(***************************************************************************)
(* Layouts: what a chain of shapes says of an object.                      *)
(***************************************************************************)

\* The properties of the shapes of a chain, one sequence for each shape.
Owns(sh, c) == [i \in 1 .. Len(c) |-> sh[c[i]].own]
\* The shapes of a chain have properties.
Owned(sh, c) ==
    /\ c \in Seq(Nat) /\ Len(c) # 0
    /\ \A i \in 1 .. Len(c) : sh[c[i]].own \in Seq(ShapeProperty)
Keyed(p, q) == Len(p) = Len(q) /\ \A i \in 1 .. Len(p) : p[i].key = q[i].key

\* The parts a shape's layout is joined from.
LEMMA OwnsAre ==
  ASSUME NEW sh, NEW c, Owned(sh, c)
  PROVE  /\ Len(c) \in Nat \ {0} /\ Lists(Owns(sh, c), Len(c), ShapeProperty)
         /\ Len(Owns(sh, c)) = Len(c)
         /\ \A i \in 1 .. Len(c) : Owns(sh, c)[i] = sh[c[i]].own
         /\ \E f : Flattens(f, Len(c), ShapeProperty, Owns(sh, c))
  <1>1. Len(c) \in Nat \ {0} BY DEF Owned
  <1>2. Owns(sh, c) \in [1 .. Len(c) -> Seq(ShapeProperty)] BY DEF Owned, Owns
  <1>3. Len(Owns(sh, c)) = Len(c) BY <1>1 DEF Owns
  <1>4. \A i \in 1 .. Len(c) : Owns(sh, c)[i] = sh[c[i]].own BY DEF Owns
  <1>5. Lists(Owns(sh, c), Len(c), ShapeProperty) BY <1>2 DEF Lists
  <1>6. \E f : Flattens(f, Len(c), ShapeProperty, Owns(sh, c))
    BY <1>1, <1>5, FlattenExists
  <1> QED BY <1>1, <1>3, <1>4, <1>5, <1>6

\* A layout is a sequence of properties.
LEMMA LayoutType ==
  ASSUME NEW sh, NEW i, Owned(sh, sh[i].chain)
  PROVE  Layout(sh, i) \in Seq(ShapeProperty) /\ Len(Layout(sh, i)) \in Nat
  <1> DEFINE c == sh[i].chain
             n == Len(c)
             s == Owns(sh, c)
  <1>1. n \in Nat \ {0} /\ Lists(s, n, ShapeProperty) /\ Len(s) = n BY OwnsAre
  <1>2. PICK f : Flattens(f, n, ShapeProperty, s) BY OwnsAre
  <1>3. Layout(sh, i) = FlattenSeq(s) BY DEF Layout, Owns
  <1> HIDE DEF s, n, c
  <1>4. Layout(sh, i) = f[n] BY <1>1, <1>2, <1>3, FlattenMeans
  <1>5. f[n] \in Seq(ShapeProperty) BY <1>1, <1>2 DEF Flattens
  <1> QED BY <1>4, <1>5

\* The layout of a shape without ancestors: make_shape_private.
LEMMA LayoutFlat ==
  ASSUME NEW sh, NEW i \in Nat, sh[i].chain = <<i>>, sh[i].own \in Seq(ShapeProperty)
  PROVE  Layout(sh, i) = sh[i].own
  <1> DEFINE c == sh[i].chain
             s == Owns(sh, c)
  <1>0. Len(c) = 1 /\ c[1] = i OBVIOUS
  <1>1. Owned(sh, c) BY <1>0 DEF Owned
  <1>2. Lists(s, 1, ShapeProperty) /\ Len(s) = 1 /\ s[1] = sh[i].own
    BY <1>0, <1>1, OwnsAre
  <1>3. PICK f : Flattens(f, 1, ShapeProperty, s) BY <1>0, <1>1, OwnsAre
  <1>4. Layout(sh, i) = FlattenSeq(s) BY DEF Layout, Owns
  <1>a. 1 \in Nat \ {0} OBVIOUS
  <1> HIDE DEF s, c
  <1>5. FlattenSeq(s) = f[1] BY ONLY <1>2, <1>3, <1>a, FlattenMeans
  <1> QED BY <1>2, <1>3, <1>4, <1>5 DEF Flattens

\* A child's layout is that of its parent and its own properties: shape_extend.
Extends(tt, n, sh, p) ==
    /\ tt[n].chain = Append(sh[p].chain, n)
    /\ tt[n].own \in Seq(ShapeProperty)
    /\ \A j \in 1 .. Len(sh[p].chain) : tt[sh[p].chain[j]].own = sh[sh[p].chain[j]].own

Joined(p, q) == p \o q

\* Two joined lists, place by place.
LEMMA JoinedMeans ==
  ASSUME NEW X, NEW a \in Seq(X), NEW b \in Seq(X)
  PROVE  /\ Joined(a, b) \in Seq(X) /\ Len(Joined(a, b)) = Len(a) + Len(b)
         /\ \A i \in 1 .. Len(a) : Joined(a, b)[i] = a[i]
         /\ \A i \in 1 .. Len(b) : Joined(a, b)[Len(a) + i] = b[i]
  BY DEF Joined

\* Heap.transition_shape_new_flags: a child's layout is its parent's and its own
\* property.
LEMMA LayoutExtends ==
  ASSUME NEW sh, NEW p, Owned(sh, sh[p].chain), NEW tt, NEW n \in Nat, Extends(tt, n, sh, p)
  PROVE  Layout(tt, n) = Joined(Layout(sh, p), tt[n].own) /\ Owned(tt, tt[n].chain)
  <1> DEFINE c == sh[p].chain
             d == tt[n].chain
             m == Len(c)
             s == Owns(sh, c)
             r == Owns(tt, d)
  <1>1. c \in Seq(Nat) /\ m \in Nat \ {0} BY DEF Owned
  <1>2. d = Append(c, n) BY DEF Extends
  <1>3. d \in Seq(Nat) /\ Len(d) = m + 1 /\ d[m + 1] = n /\ \A j \in 1 .. m : d[j] = c[j]
        BY <1>1, <1>2
  <1>4. \A j \in 1 .. m + 1 : j \in 1 .. m \/ j = m + 1 BY <1>1
  <1>5. \A j \in 1 .. m : tt[d[j]].own = sh[c[j]].own BY <1>3 DEF Extends
  <1>6. tt[d[m + 1]].own \in Seq(ShapeProperty) BY <1>3 DEF Extends
  <1>7. Owned(tt, d)
    <2>1. \A j \in 1 .. m : sh[c[j]].own \in Seq(ShapeProperty) BY DEF Owned
    <2>2. \A j \in 1 .. Len(d) : tt[d[j]].own \in Seq(ShapeProperty)
          BY <1>3, <1>4, <1>5, <1>6, <2>1
    <2>3. Len(d) # 0 BY <1>1, <1>3
    <2> QED BY <1>3, <2>2, <2>3 DEF Owned
  <1>8. Lists(s, m, ShapeProperty) /\ Len(s) = m /\ \A j \in 1 .. m : s[j] = sh[c[j]].own
        BY OwnsAre
  <1>9. /\ Lists(r, m + 1, ShapeProperty) /\ Len(r) = m + 1
        /\ \A j \in 1 .. m + 1 : r[j] = tt[d[j]].own
        BY <1>3, <1>7, OwnsAre
  <1>10. PICK f : Flattens(f, m + 1, ShapeProperty, r) BY <1>3, <1>7, OwnsAre
  <1>11. Layout(tt, n) = FlattenSeq(r) /\ Layout(sh, p) = FlattenSeq(s)
    BY DEF Layout, Owns
  <1>12. tt[n].own = r[m + 1]
    <2>1. m + 1 \in 1 .. m + 1 BY <1>1
    <2> QED BY <1>3, <1>9, <2>1
  <1>13. \A j \in 1 .. m : r[j] = s[j]
    <2>1. \A j \in 1 .. m : j \in 1 .. m + 1 BY <1>1
    <2> QED BY <1>5, <1>8, <1>9, <2>1
  <1> HIDE DEF s, r, c, d, m
  <1> DEFINE g == [j \in 1 .. m |-> f[j]]
  <1>14. Flattens(g, m, ShapeProperty, s)
    <2>0. f \in [1 .. m + 1 -> Seq(ShapeProperty)] BY <1>10 DEF Flattens
    <2>1. g \in [1 .. m -> Seq(ShapeProperty)] BY <1>1, <2>0
    <2>2. 1 \in 1 .. m /\ f[1] = r[1] BY <1>1, <1>10 DEF Flattens
    <2>3. g[1] = s[1] BY <1>13, <2>2
    <2>4. ASSUME NEW j \in 2 .. m PROVE g[j] = g[j - 1] \o s[j]
      <3>1. j \in 2 .. m + 1 /\ j \in 1 .. m /\ j - 1 \in 1 .. m BY <1>1
      <3>2. f[j] = f[j - 1] \o r[j] BY <1>10, <3>1 DEF Flattens
      <3> QED BY <1>13, <3>1, <3>2
    <2> HIDE DEF g
    <2> QED BY <2>1, <2>3, <2>4 DEF Flattens
  <1>15. FlattenSeq(s) = g[m] BY <1>1, <1>8, <1>14, FlattenMeans
  <1>16. m + 1 \in Nat \ {0} BY <1>1
  <1>17. FlattenSeq(r) = f[m + 1] BY <1>9, <1>10, <1>16, FlattenMeans
  <1>18. m + 1 \in 2 .. m + 1 /\ (m + 1) - 1 = m /\ m \in 1 .. m BY <1>1
  <1>19. f[m + 1] = f[m] \o r[m + 1]
    <2>1. f[m + 1] = f[(m + 1) - 1] \o r[m + 1] BY <1>10, <1>18 DEF Flattens
    <2> QED BY <1>18, <2>1
  <1>20. g[m] = f[m] BY <1>18
  <1> QED BY <1>7, <1>11, <1>12, <1>15, <1>17, <1>19, <1>20 DEF d, Joined

\* A layout does not look at shapes outside the chain.
LEMMA LayoutSame ==
  ASSUME NEW sh, NEW i, NEW tt, tt[i].chain = sh[i].chain,
         \A j \in 1 .. Len(sh[i].chain) : tt[sh[i].chain[j]].own = sh[sh[i].chain[j]].own
  PROVE  Layout(tt, i) = Layout(sh, i)
  <1>1. Owns(tt, tt[i].chain) = Owns(sh, sh[i].chain) BY DEF Owns
  <1>2. Layout(tt, i) = FlattenSeq(Owns(tt, tt[i].chain)) BY DEF Layout, Owns
  <1>3. Layout(sh, i) = FlattenSeq(Owns(sh, sh[i].chain)) BY DEF Layout, Owns
  <1> QED BY <1>1, <1>2, <1>3

\* Joining lists with the same keys gives lists with the same keys.
LEMMA KeyedConcat ==
  ASSUME NEW X, NEW p \in Seq(X), NEW q \in Seq(X), NEW u \in Seq(X), NEW w \in Seq(X),
         Keyed(p, u), Keyed(q, w)
  PROVE  Keyed(p \o q, u \o w)
  <1> DEFINE m == Len(p)
             n == Len(q)
             x == p \o q
             y == u \o w
  <1>1. m \in Nat /\ n \in Nat /\ Len(u) = m /\ Len(w) = n BY DEF Keyed
  <1>2. Len(x) = m + n /\ Len(y) = m + n BY <1>1
  <1>3. \A i \in 1 .. m + n : x[i] = IF i <= m THEN p[i] ELSE q[i - m] BY <1>1
  <1>4. \A i \in 1 .. m + n : y[i] = IF i <= m THEN u[i] ELSE w[i - m] BY <1>1
  <1>5. \A i \in 1 .. m + n : IF i <= m THEN i \in 1 .. m ELSE i - m \in 1 .. n
    BY <1>1
  <1>6. (\A i \in 1 .. m : p[i].key = u[i].key) /\ (\A i \in 1 .. n : q[i].key = w[i].key)
        BY DEF Keyed
  <1> HIDE DEF x, y, m, n
  <1>7. \A i \in 1 .. m + n : x[i].key = y[i].key BY <1>3, <1>4, <1>5, <1>6
  <1>8. Keyed(x, y) BY <1>2, <1>7 DEF Keyed
  <1> QED BY <1>8 DEF x, y

\* The keys of a layout are those of the chain.
LEMMA LayoutKeyed ==
  ASSUME NEW sh, NEW i, NEW tt, tt[i].chain = sh[i].chain,
         Owned(sh, sh[i].chain), Owned(tt, sh[i].chain),
         \A j \in 1 .. Len(sh[i].chain) :
            Keyed(sh[sh[i].chain[j]].own, tt[sh[i].chain[j]].own)
  PROVE  Keyed(Layout(sh, i), Layout(tt, i))
  <1> DEFINE c == sh[i].chain
             n == Len(c)
             s == Owns(sh, c)
             r == Owns(tt, c)
  <1>1. /\ n \in Nat \ {0} /\ Lists(s, n, ShapeProperty) /\ Len(s) = n
        /\ \A j \in 1 .. n : s[j] = sh[c[j]].own
        BY OwnsAre
  <1>2. Lists(r, n, ShapeProperty) /\ Len(r) = n /\ \A j \in 1 .. n : r[j] = tt[c[j]].own
        BY OwnsAre
  <1>3. PICK f : Flattens(f, n, ShapeProperty, s) BY OwnsAre
  <1>4. PICK g : Flattens(g, n, ShapeProperty, r) BY OwnsAre
  <1>5. Layout(sh, i) = FlattenSeq(s) /\ Layout(tt, i) = FlattenSeq(r)
    BY DEF Layout, Owns
  <1>6. \A j \in 1 .. n : Keyed(s[j], r[j]) BY <1>1, <1>2
  <1> HIDE DEF s, r, n, c
  <1>7. Layout(sh, i) = f[n] /\ Layout(tt, i) = g[n]
        BY <1>1, <1>2, <1>3, <1>4, <1>5, FlattenMeans
  <1> DEFINE T == {k \in Nat : k + 1 \in 1 .. n => Keyed(f[k + 1], g[k + 1])}
  <1>8. 0 \in T
    <2>1. 1 \in 1 .. n BY <1>1
    <2>2. f[1] = s[1] /\ g[1] = r[1] BY <1>3, <1>4 DEF Flattens
    <2> QED BY <1>6, <2>1, <2>2
  <1>9. ASSUME NEW k \in Nat, k \in T PROVE k + 1 \in T
    <2> SUFFICES ASSUME (k + 1) + 1 \in 1 .. n PROVE Keyed(f[(k + 1) + 1], g[(k + 1) + 1])
        OBVIOUS
    <2> DEFINE j == (k + 1) + 1
    <2>1. j \in 2 .. n /\ j \in 1 .. n /\ j - 1 = k + 1 /\ k + 1 \in 1 .. n
      BY <1>1
    <2>2. Keyed(f[j - 1], g[j - 1]) BY <1>9, <2>1
    <2> HIDE DEF j
    <2>3. f[j] = f[j - 1] \o s[j] /\ g[j] = g[j - 1] \o r[j]
      BY <1>3, <1>4, <2>1 DEF Flattens
    <2>4. /\ f[j - 1] \in Seq(ShapeProperty) /\ g[j - 1] \in Seq(ShapeProperty)
          /\ s[j] \in Seq(ShapeProperty) /\ r[j] \in Seq(ShapeProperty)
          BY <1>1, <1>2, <1>3, <1>4, <2>1 DEF Flattens, Lists
    <2>5. Keyed(s[j], r[j]) BY <1>6, <2>1
    <2>6. Keyed(f[j - 1] \o s[j], g[j - 1] \o r[j])
      BY <2>2, <2>4, <2>5, KeyedConcat
    <2>7. Keyed(f[j], g[j]) BY <2>3, <2>6
    <2> QED BY <2>7 DEF j
  <1>10. Nat \subseteq T
    <2> HIDE DEF T
    <2> QED BY <1>8, <1>9, SetInduction
  <1>11. n - 1 \in Nat /\ (n - 1) + 1 = n /\ n \in 1 .. n BY <1>1
  <1>12. Keyed(f[n], g[n]) BY <1>10, <1>11
  <1> QED BY <1>7, <1>12

\* find_prop_idx in a layout.
Find(sh, i, k) == SelectInSeq(Layout(sh, i), LAMBDA p : p.key = k)
NoTwice(p) == \A i, j \in 1 .. Len(p) : p[i].key = p[j].key => i = j

\* HObject.find_prop_idx: 0, or the only place with the key.
LEMMA FindMeans ==
  ASSUME NEW sh, NEW i, Owned(sh, sh[i].chain), NEW k
  PROVE  LET p == Layout(sh, i)
             n == Find(sh, i, k)
         IN  /\ n \in 0 .. Len(p)
             /\ n # 0 => n \in 1 .. Len(p) /\ p[n].key = k
             /\ n = 0 => \A j \in 1 .. Len(p) : p[j].key # k
             /\ NoTwice(p) => \A j \in 1 .. Len(p) : p[j].key = k => n = j
  <1> DEFINE p == Layout(sh, i)
             J == {j \in 1 .. Len(p) : p[j].key = k}
             n == IF J # {} THEN Min(J) ELSE 0
  <1>1. Len(p) \in Nat BY LayoutType
  <1>2. Find(sh, i, k) = n BY DEF Find, SelectInSeq
  <1>3. J \in SUBSET (1 .. Len(p)) OBVIOUS
  <1> HIDE DEF n
  <1>4. /\ n \in 0 .. Len(p) /\ (n = 0 <=> J = {}) /\ (n # 0 => n \in J)
        /\ \A j \in 1 .. Len(p) : j \in J => n # 0 /\ n <= j
        BY <1>1, <1>3, FirstIn DEF n
  <1>5. n # 0 => n \in 1 .. Len(p) /\ p[n].key = k BY <1>4
  <1>6. n = 0 => \A j \in 1 .. Len(p) : p[j].key # k BY <1>4
  <1>7. NoTwice(p) => \A j \in 1 .. Len(p) : p[j].key = k => n = j
    <2> SUFFICES ASSUME NoTwice(p), NEW j \in 1 .. Len(p), p[j].key = k PROVE n = j
        OBVIOUS
    <2>1. n # 0 BY <1>6
    <2>2. n \in 1 .. Len(p) /\ p[n].key = p[j].key BY <1>5, <2>1
    <2> HIDE DEF p
    <2> QED BY <2>2 DEF NoTwice
  <1> QED BY <1>2, <1>4, <1>5, <1>6, <1>7

\* find_prop_idx sees the keys only.
LEMMA FindSame ==
  ASSUME NEW sh, NEW i, NEW tt, NEW j, Keyed(Layout(sh, i), Layout(tt, j)), NEW k
  PROVE  Find(tt, j, k) = Find(sh, i, k)
  <1> DEFINE p == Layout(sh, i)
             q == Layout(tt, j)
  <1>1. {x \in 1 .. Len(p) : p[x].key = k} = {x \in 1 .. Len(q) : q[x].key = k}
        BY DEF Keyed
  <1> HIDE DEF p, q
  <1> QED BY <1>1 DEF Find, SelectInSeq, p, q

---------------------------------------------------------------------------
(***************************************************************************)
(* The array of shapes and the free list.                                  *)
(***************************************************************************)

\* Ids fit into the links of the free list.
IdsFit == MaxShapes <= LinkMask

LiveIn(sh) == {i \in DOMAIN sh : ~sh[i].free}
LiveShape == [free : {FALSE}, parent : Int, chain : Seq(Nat), own : Seq(ShapeProperty), gen : Nat]
FreeLink == [free : {TRUE}, next : Nat, gen : Nat]

\* The array of shapes: a live one's chain ends at itself, goes through live ones
\* and names no key twice, and the root has no properties.
IsArray(sh) == \E n \in 1 .. MaxShapes : sh \in [0 .. n - 1 -> LiveShape \cup FreeLink]
Chained(sh, i) ==
    LET c == sh[i].chain
    IN  /\ Len(c) # 0 /\ c[Len(c)] = i
        /\ \A j \in 1 .. Len(c) : c[j] \in LiveIn(sh)
Rooted(sh) ==
    /\ Root \in LiveIn(sh)
    /\ sh[Root].parent = NoShape /\ sh[Root].chain = <<Root>> /\ sh[Root].own = <<>>
Heap(sh) ==
    /\ IsArray(sh) /\ Rooted(sh)
    /\ \A i \in LiveIn(sh) : Chained(sh, i) /\ NoTwice(Layout(sh, i))

\* The free list goes through the slots q.
FreeListIs(sh, hd, q) ==
    /\ q \in Seq(Nat)
    /\ \A j \in 1 .. Len(q) : q[j] \in DOMAIN sh \ LiveIn(sh)
    /\ \A j, k \in 1 .. Len(q) : q[j] = q[k] => j = k
    /\ \A i \in DOMAIN sh \ LiveIn(sh) : \E j \in 1 .. Len(q) : q[j] = i
    /\ hd = IF Len(q) = 0 THEN FreeEnd ELSE q[1]
    /\ \A j \in 1 .. Len(q) : sh[q[j]].next = IF j = Len(q) THEN FreeEnd ELSE q[j + 1]
FreeListOk(sh, hd) == \E q : FreeListIs(sh, hd, q)

\* The slots of the array, and the next one alloc_shape_slot would append.
LEMMA ArrayMeans ==
  ASSUME NEW sh, IsArray(sh)
  PROVE  /\ sh = [i \in DOMAIN sh |-> sh[i]] /\ DOMAIN sh \subseteq Nat
         /\ \A i \in DOMAIN sh : i < MaxShapes
         /\ \A i \in LiveIn(sh) : sh[i] \in LiveShape /\ i \in DOMAIN sh
         /\ \A i \in DOMAIN sh \ LiveIn(sh) : sh[i] \in FreeLink
         /\ \A i \in DOMAIN sh : sh[i].gen \in Nat /\ sh[i].free \in BOOLEAN
         /\ LiveIn(sh) \subseteq Nat
  <1>1. PICK n \in 1 .. MaxShapes : sh \in [0 .. n - 1 -> LiveShape \cup FreeLink]
    BY DEF IsArray
  <1>2. n \in Nat /\ MaxShapes \in Nat /\ n <= MaxShapes
    BY <1>1, MasksAssumption
  <1>3. DOMAIN sh = 0 .. n - 1 /\ sh = [i \in DOMAIN sh |-> sh[i]] BY <1>1
  <1>4. \A x \in LiveShape : x.free = FALSE /\ x.gen \in Nat BY DEF LiveShape
  <1>5. \A x \in FreeLink : x.free = TRUE /\ x.gen \in Nat BY DEF FreeLink
  <1>6. \A i \in DOMAIN sh : sh[i] \in LiveShape \/ sh[i] \in FreeLink
    BY <1>1, <1>3
  <1>7. DOMAIN sh \subseteq Nat /\ \A i \in DOMAIN sh : i < MaxShapes
    BY <1>2, <1>3
  <1> QED BY <1>3, <1>4, <1>5, <1>6, <1>7 DEF LiveIn

\* The fields of a live shape.
LEMMA ShapeMeans ==
  ASSUME NEW x \in LiveShape
  PROVE  /\ x.free = FALSE /\ x.parent \in Int /\ x.chain \in Seq(Nat)
         /\ x.own \in Seq(ShapeProperty) /\ x.gen \in Nat
  BY DEF LiveShape

\* A shape is live.
LEMMA ShapeIs ==
  ASSUME NEW p \in Int, NEW c \in Seq(Nat), NEW w \in Seq(ShapeProperty), NEW g \in Nat
  PROVE  LET x == Shape(p, c, w, g)
         IN  /\ x \in LiveShape
             /\ x.free = FALSE /\ x.parent = p /\ x.chain = c /\ x.own = w /\ x.gen = g
  BY DEF LiveShape, Shape

\* A link is a free slot.
LEMMA LinkIs ==
  ASSUME NEW n \in Nat, NEW g \in Nat
  PROVE  LET x == Link(n, g)
         IN  x \in FreeLink /\ x.free = TRUE /\ x.next = n /\ x.gen = g
  BY DEF FreeLink, Link

\* The shapes of a live chain have properties.
LEMMA LiveMeans ==
  ASSUME NEW sh, Heap(sh), NEW i \in LiveIn(sh)
  PROVE  /\ Owned(sh, sh[i].chain) /\ i \in Nat /\ sh[i] \in LiveShape
         /\ sh[i].chain \in Seq(Nat) /\ \A j \in 1 .. Len(sh[i].chain) : sh[i].chain[j] \in LiveIn(sh)
         /\ Layout(sh, i) \in Seq(ShapeProperty) /\ Len(Layout(sh, i)) \in Nat
         /\ NoTwice(Layout(sh, i))
  <1> DEFINE c == sh[i].chain
  <1>1. \A j \in LiveIn(sh) : sh[j] \in LiveShape /\ j \in Nat
    BY ArrayMeans DEF Heap
  <1>2. \A j \in LiveIn(sh) : sh[j].own \in Seq(ShapeProperty) /\ sh[j].chain \in Seq(Nat)
        BY <1>1, ShapeMeans
  <1>3. Len(c) # 0 /\ \A j \in 1 .. Len(c) : c[j] \in LiveIn(sh)
    BY DEF Heap, Chained
  <1>4. Owned(sh, c) BY <1>2, <1>3 DEF Owned
  <1>5. NoTwice(Layout(sh, i)) BY DEF Heap
  <1> QED BY <1>1, <1>2, <1>3, <1>4, <1>5, LayoutType

\* The head of the free list.
LEMMA HeadMeans ==
  ASSUME IdsFit, NEW sh, IsArray(sh), NEW hd, FreeListOk(sh, hd)
  PROVE  /\ FreeEnd \in Nat /\ FreeEnd \notin DOMAIN sh
         /\ hd \in Nat /\ hd <= LinkMask
         /\ hd # FreeEnd => hd \in DOMAIN sh \ LiveIn(sh)
         /\ hd = FreeEnd => DOMAIN sh = LiveIn(sh)
  <1>1. PICK q : FreeListIs(sh, hd, q) BY DEF FreeListOk
  <1>2. q \in Seq(Nat) /\ Len(q) \in Nat BY <1>1 DEF FreeListIs
  <1>3. \A i \in DOMAIN sh : i \in Nat /\ i < MaxShapes BY ArrayMeans
  <1>4. FreeEnd \in Nat /\ FreeEnd = LinkMask /\ MaxShapes \in Nat
    BY MasksAssumption DEF FreeEnd
  <1>5. \A i \in DOMAIN sh : i < FreeEnd BY <1>3, <1>4 DEF IdsFit
  <1>6. CASE Len(q) = 0
    <2>1. hd = FreeEnd BY <1>1, <1>6 DEF FreeListIs
    <2>2. DOMAIN sh \ LiveIn(sh) = {} BY <1>1, <1>6 DEF FreeListIs
    <2>3. LiveIn(sh) \subseteq DOMAIN sh BY DEF LiveIn
    <2> QED BY <1>4, <1>5, <2>1, <2>2, <2>3
  <1>7. CASE Len(q) # 0
    <2>1. 1 \in 1 .. Len(q) /\ hd = q[1] BY <1>1, <1>2, <1>7 DEF FreeListIs
    <2>2. hd \in DOMAIN sh \ LiveIn(sh) BY <1>1, <2>1 DEF FreeListIs
    <2>3. hd \in Nat /\ hd < FreeEnd BY <1>3, <1>5, <2>2
    <2> QED BY <1>4, <1>5, <2>2, <2>3
  <1> QED BY <1>6, <1>7

\* The array after Heap.store_new_shape.
LEMMA StoredIs ==
  ASSUME IdsFit, Heap(shapes), FreeListOk(shapes, head), SlotFree, NEW r \in LiveShape
  PROVE  LET tt == Stored(r)
         IN  /\ IsArray(tt) /\ NewSlot \in Nat /\ NewSlot \notin LiveIn(shapes) /\ NewSlot # Root
             /\ DOMAIN tt = DOMAIN shapes \cup {NewSlot}
             /\ LiveIn(tt) = LiveIn(shapes) \cup {NewSlot}
             /\ tt[NewSlot] = r
             /\ \A i \in DOMAIN shapes \ {NewSlot} : tt[i] = shapes[i]
             /\ NewSlot \in DOMAIN shapes <=> Recycles
             /\ NewGen \in Nat
             /\ Recycles => NewGen = shapes[NewSlot].gen + 1
  <1> DEFINE tt == Stored(r)
             s == NewSlot
  <1>1. PICK n \in 1 .. MaxShapes : shapes \in [0 .. n - 1 -> LiveShape \cup FreeLink]
        BY DEF Heap, IsArray
  <1>2. n \in Nat /\ MaxShapes \in Nat /\ n <= MaxShapes /\ n > 0
    BY <1>1, MasksAssumption
  <1>3. DOMAIN shapes = 0 .. n - 1 BY <1>1
  <1>4. Cardinality(DOMAIN shapes) = n
    <2>1. Cardinality(0 .. n - 1) = IF 0 > n - 1 THEN 0 ELSE (n - 1) - 0 + 1
      BY <1>2, FS_Interval
    <2> QED BY <1>2, <1>3, <2>1
  <1>5. /\ head # FreeEnd => head \in DOMAIN shapes \ LiveIn(shapes)
        BY HeadMeans DEF Heap
  <1>6. Root \in LiveIn(shapes) /\ LiveIn(shapes) \subseteq DOMAIN shapes
        BY DEF Heap, Rooted, LiveIn
  <1>7. /\ s \in Nat /\ s \notin LiveIn(shapes)
        /\ s \in DOMAIN shapes <=> Recycles
        /\ ~Recycles => s = n /\ n < MaxShapes
    <2>1. CASE Recycles
      <3>1. s = head /\ head # FreeEnd BY <2>1 DEF NewSlot, Recycles
      <3>2. s \in DOMAIN shapes \ LiveIn(shapes) BY <1>5, <3>1
      <3> QED BY <1>3, <2>1, <3>2
    <2>2. CASE ~Recycles
      <3>1. s = n BY <1>4, <2>2 DEF NewSlot
      <3>2. n < MaxShapes BY <1>4, <2>2 DEF SlotFree
      <3> QED BY <1>2, <1>3, <1>6, <2>2, <3>1, <3>2
    <2> QED BY <2>1, <2>2
  <1>8. s # Root BY <1>6, <1>7
  <1>9. /\ DOMAIN tt = DOMAIN shapes \cup {s} /\ tt[s] = r
        /\ \A i \in DOMAIN shapes \ {s} : tt[i] = shapes[i]
        /\ tt = [i \in DOMAIN tt |-> tt[i]]
        BY DEF Stored
  <1>10. \A i \in DOMAIN shapes : shapes[i] \in LiveShape \cup FreeLink
    BY <1>1, <1>3
  <1> HIDE DEF tt
  <1>11. IsArray(tt)
    <2>1. \A i \in DOMAIN tt : tt[i] \in LiveShape \cup FreeLink BY <1>9, <1>10
    <2>2. CASE Recycles
      <3>1. DOMAIN tt = 0 .. n - 1 BY <1>3, <1>7, <1>9, <2>2
      <3> QED BY <1>9, <2>1, <3>1 DEF IsArray
    <2>3. CASE ~Recycles
      <3>1. n + 1 \in 1 .. MaxShapes /\ (n + 1) - 1 = n BY <1>2, <1>7, <2>3
      <3>2. DOMAIN tt = 0 .. n BY <1>2, <1>3, <1>7, <1>9, <2>3
      <3>3. tt \in [0 .. (n + 1) - 1 -> LiveShape \cup FreeLink]
        BY <1>9, <2>1, <3>1, <3>2
      <3> QED BY <3>1, <3>3 DEF IsArray
    <2> QED BY <2>2, <2>3
  <1>12. LiveIn(tt) = LiveIn(shapes) \cup {s}
    <2>1. ~r.free BY ShapeMeans
    <2> QED BY <1>7, <1>9, <2>1 DEF LiveIn
  <1>13. NewGen \in Nat /\ (Recycles => NewGen = shapes[s].gen + 1)
    <2>1. CASE Recycles
      <3>1. s = head /\ NewGen = shapes[head].gen + 1
        BY <2>1 DEF NewSlot, NewGen
      <3>2. shapes[s].gen \in Nat BY <1>7, <2>1, ArrayMeans DEF Heap
      <3> QED BY <3>1, <3>2
    <2>2. CASE ~Recycles BY <2>2 DEF NewGen
    <2> QED BY <2>1, <2>2
  <1> QED BY <1>7, <1>8, <1>9, <1>11, <1>12, <1>13 DEF tt

---------------------------------------------------------------------------
(***************************************************************************)
(* alloc_shape_slot, store_new_shape and free_shape_slot.                  *)
(***************************************************************************)

\* Arrays that agree on live shapes give them the same layouts.
LEMMA LayoutsSame ==
  ASSUME NEW sh, Heap(sh), NEW tt, NEW i \in LiveIn(sh),
         \A j \in LiveIn(sh) : tt[j] = sh[j]
  PROVE  Layout(tt, i) = Layout(sh, i)
  <1>1. \A j \in 1 .. Len(sh[i].chain) : sh[i].chain[j] \in LiveIn(sh)
    BY DEF Heap, Chained
  <1>2. tt[i].chain = sh[i].chain OBVIOUS
  <1>3. \A j \in 1 .. Len(sh[i].chain) : tt[sh[i].chain[j]].own = sh[sh[i].chain[j]].own
        BY <1>1
  <1> QED BY <1>2, <1>3, LayoutSame

\* alloc_shape_slot takes the head off the free list.
LEMMA PopKeeps ==
  ASSUME IdsFit, Heap(shapes), FreeListOk(shapes, head), SlotFree, NEW r \in LiveShape
  PROVE  FreeListOk(Stored(r), NewHead)
  <1> DEFINE tt == Stored(r)
             s == NewSlot
  <1>1. /\ LiveIn(tt) = LiveIn(shapes) \cup {s} /\ DOMAIN tt = DOMAIN shapes \cup {s}
        /\ \A i \in DOMAIN shapes \ {s} : tt[i] = shapes[i]
        /\ s \in DOMAIN shapes <=> Recycles
        BY StoredIs
  <1>2. PICK q : FreeListIs(shapes, head, q) BY DEF FreeListOk
  <1>3. q \in Seq(Nat) /\ Len(q) \in Nat BY <1>2 DEF FreeListIs
  <1>4. /\ \A j \in 1 .. Len(q) : q[j] \in DOMAIN shapes \ LiveIn(shapes)
        /\ \A j, k \in 1 .. Len(q) : q[j] = q[k] => j = k
        /\ \A i \in DOMAIN shapes \ LiveIn(shapes) : \E j \in 1 .. Len(q) : q[j] = i
        /\ head = IF Len(q) = 0 THEN FreeEnd ELSE q[1]
        /\ \A j \in 1 .. Len(q) : shapes[q[j]].next = IF j = Len(q) THEN FreeEnd ELSE q[j + 1]
        BY <1>2 DEF FreeListIs
  <1>5. FreeEnd \notin DOMAIN shapes BY HeadMeans DEF Heap
  <1>6. DOMAIN tt \ LiveIn(tt) = (DOMAIN shapes \ LiveIn(shapes)) \ {s} BY <1>1
  <1> HIDE DEF tt
  <1>7. CASE ~Recycles
    <2>1. NewHead = head BY <1>7 DEF NewHead
    <2>2. s \notin DOMAIN shapes BY <1>1, <1>7
    <2>3. DOMAIN tt \ LiveIn(tt) = DOMAIN shapes \ LiveIn(shapes) BY <1>6, <2>2
    <2>4. \A j \in 1 .. Len(q) : tt[q[j]] = shapes[q[j]] BY <1>1, <1>4, <2>2
    <2>5. FreeListIs(tt, head, q) BY <1>3, <1>4, <2>3, <2>4 DEF FreeListIs
    <2> QED BY <2>1, <2>5 DEF FreeListOk, tt
  <1>8. CASE Recycles
    <2> DEFINE p == Tail(q)
               n == Len(q)
    <2>1. s = head /\ head # FreeEnd /\ NewHead = shapes[head].next
          BY <1>8 DEF Recycles, NewSlot, NewHead
    <2>2. n # 0 /\ head = q[1] /\ 1 \in 1 .. n BY <1>3, <1>4, <2>1
    <2>3. /\ p \in Seq(Nat) /\ Len(p) = n - 1 /\ n - 1 \in Nat
          /\ \A j \in 1 .. n - 1 : p[j] = q[j + 1]
          BY <1>3, <2>2
    <2>4. \A j \in 1 .. n - 1 : j + 1 \in 1 .. n /\ j + 1 # 1 BY <1>3
    <2>0. n \in Nat BY <1>3
    <2>5. \A j \in 1 .. n - 1 : p[j] # s
      <3> SUFFICES ASSUME NEW j \in 1 .. n - 1, p[j] = s PROVE FALSE
          OBVIOUS
      <3>1. q[j + 1] = q[1] BY <2>1, <2>2, <2>3
      <3>2. j + 1 \in 1 .. Len(q) /\ 1 \in 1 .. Len(q) /\ j + 1 # 1
        BY <2>2, <2>4
      <3> HIDE DEF p, n
      <3> QED BY <1>4, <3>1, <3>2
    <2>6. \A j \in 1 .. n - 1 : p[j] \in DOMAIN tt \ LiveIn(tt)
          BY <1>4, <1>6, <2>3, <2>4, <2>5
    <2>7. \A j, k \in 1 .. n - 1 : p[j] = p[k] => j = k
      <3> SUFFICES ASSUME NEW j \in 1 .. n - 1, NEW k \in 1 .. n - 1, p[j] = p[k] PROVE j = k
          OBVIOUS
      <3>1. q[j + 1] = q[k + 1] BY <2>3
      <3>2. j + 1 = k + 1 BY <1>4, <2>4, <3>1
      <3> QED BY <3>2
    <2>8. \A i \in DOMAIN tt \ LiveIn(tt) : \E j \in 1 .. n - 1 : p[j] = i
      <3> SUFFICES ASSUME NEW i \in DOMAIN tt \ LiveIn(tt) PROVE \E j \in 1 .. n - 1 : p[j] = i
          OBVIOUS
      <3>1. i \in DOMAIN shapes \ LiveIn(shapes) /\ i # s BY <1>6
      <3>2. PICK j \in 1 .. n : q[j] = i BY <1>4, <3>1
      <3>3. j # 1 BY <2>1, <2>2, <3>1, <3>2
      <3>4. j - 1 \in 1 .. n - 1 /\ (j - 1) + 1 = j BY <1>3, <3>3
      <3>5. p[j - 1] = q[j] BY <2>3, <3>4
      <3> QED BY <3>2, <3>4, <3>5
    <2>9. NewHead = IF Len(p) = 0 THEN FreeEnd ELSE p[1]
      <3>1. NewHead = IF 1 = n THEN FreeEnd ELSE q[1 + 1] BY <1>4, <2>1, <2>2
      <3> HIDE DEF p, n
      <3>2. n # 1 => 1 \in 1 .. n - 1 BY <2>0, <2>2
      <3>3. Len(p) = 0 <=> n = 1 BY <2>0, <2>3
      <3> QED BY <2>3, <3>1, <3>2, <3>3
    <2>10. \A j \in 1 .. n - 1 : tt[p[j]].next = IF j = n - 1 THEN FreeEnd ELSE p[j + 1]
      <3> SUFFICES ASSUME NEW j \in 1 .. n - 1
                   PROVE  tt[p[j]].next = IF j = n - 1 THEN FreeEnd ELSE p[j + 1]
          OBVIOUS
      <3>0. p[j] = q[j + 1] /\ q[j + 1] \in DOMAIN shapes /\ p[j] # s
        BY <1>4, <2>3, <2>4, <2>5
      <3>1. tt[p[j]] = shapes[q[j + 1]] BY <1>1, <3>0
      <3>2. shapes[q[j + 1]].next = IF j + 1 = n THEN FreeEnd ELSE q[(j + 1) + 1]
            BY <1>4, <2>4
      <3>3. j + 1 = n <=> j = n - 1 BY <1>3
      <3> HIDE DEF p, n
      <3>4. j # n - 1 => j + 1 \in 1 .. n - 1 BY <2>0
      <3>5. j # n - 1 => p[j + 1] = q[(j + 1) + 1] BY <2>3, <3>4
      <3> QED BY <3>1, <3>2, <3>3, <3>5
    <2> HIDE DEF p, n
    <2>11. FreeListIs(tt, NewHead, p)
      BY <2>3, <2>6, <2>7, <2>8, <2>9, <2>10 DEF FreeListIs
    <2> QED BY <2>11 DEF FreeListOk, tt
  <1> QED BY <1>7, <1>8

\* Heap.store_new_shape keeps what there is, if the new shape is built on it.
Fitting(r) ==
    /\ r \in LiveShape /\ Len(r.chain) # 0 /\ r.chain[Len(r.chain)] = NewSlot
    /\ \A j \in 1 .. Len(r.chain) : r.chain[j] \in LiveIn(shapes) \cup {NewSlot}
    /\ NoTwice(Layout(Stored(r), NewSlot))

\* Heap.store_new_shape: a shape that fits may be put into the slot
\* alloc_shape_slot gives out.
LEMMA StoreKeeps ==
  ASSUME IdsFit, Heap(shapes), FreeListOk(shapes, head), SlotFree, NEW r, Fitting(r)
  PROVE  LET tt == Stored(r)
         IN  /\ Heap(tt) /\ FreeListOk(tt, NewHead)
             /\ \A i \in LiveIn(shapes) : tt[i] = shapes[i] /\ Layout(tt, i) = Layout(shapes, i)
  <1> DEFINE tt == Stored(r)
             s == NewSlot
  <1>0. r \in LiveShape BY DEF Fitting
  <1>1. /\ IsArray(tt) /\ s \notin LiveIn(shapes) /\ s # Root
        /\ LiveIn(tt) = LiveIn(shapes) \cup {s} /\ tt[s] = r
        /\ \A i \in DOMAIN shapes \ {s} : tt[i] = shapes[i]
        BY <1>0, StoredIs
  <1>2. FreeListOk(tt, NewHead) BY <1>0, PopKeeps
  <1>3. \A i \in LiveIn(shapes) : i \in DOMAIN shapes BY DEF LiveIn
  <1>4. \A i \in LiveIn(shapes) : tt[i] = shapes[i] BY <1>1, <1>3
  <1>5. NoTwice(Layout(tt, s)) BY DEF Fitting
  <1> HIDE DEF tt
  <1>6. \A i \in LiveIn(shapes) : Layout(tt, i) = Layout(shapes, i)
    BY <1>4, LayoutsSame
  <1>7. Rooted(tt) BY <1>1, <1>4 DEF Heap, Rooted
  <1>8. \A i \in LiveIn(tt) : Chained(tt, i)
    <2>1. \A i \in LiveIn(shapes) : Chained(shapes, i) BY DEF Heap
    <2>2. ASSUME NEW i \in LiveIn(shapes) PROVE Chained(tt, i)
      <3>1. tt[i].chain = shapes[i].chain BY <1>4
      <3> QED BY <1>1, <2>1, <3>1 DEF Chained
    <2>3. Chained(tt, s) BY <1>1 DEF Fitting, Chained
    <2> QED BY <1>1, <2>2, <2>3
  <1>9. \A i \in LiveIn(tt) : NoTwice(Layout(tt, i))
    <2>1. \A i \in LiveIn(shapes) : NoTwice(Layout(shapes, i)) BY DEF Heap
    <2> QED BY <1>1, <1>5, <1>6, <2>1
  <1>10. Heap(tt) BY <1>1, <1>7, <1>8, <1>9 DEF Heap
  <1> QED BY <1>2, <1>4, <1>6, <1>10 DEF tt

\* A value that fits its bit field is stored as it is (SHAPE_FREE_LINK_MASK,
\* SHAPE_FREE_GEN_MASK).
LEMMA ModSmall == ASSUME NEW M \in Nat, NEW g \in Nat, g <= M PROVE g % (M + 1) = g
  <1>1. g \in Int /\ M + 1 \in Nat \ {0} /\ 0 <= g /\ g < M + 1 OBVIOUS
  <1> QED BY <1>1, SMTT(20)

\* What a bit field holds.
LEMMA ModNat == ASSUME NEW M \in Nat, NEW g \in Nat PROVE g % (M + 1) \in Nat /\ g % (M + 1) <= M
  <1>1. M + 1 \in Nat \ {0} OBVIOUS
  <1>2. g % (M + 1) \in 0 .. (M + 1) - 1 BY <1>1
  <1> QED BY <1>2

\* No chain but its own goes through s.
Unused(sh, s) == \A i \in LiveIn(sh) \ {s} : \A j \in 1 .. Len(sh[i].chain) : sh[i].chain[j] # s

\* free_shape_slot: a private shape that no other is built on goes to the front
\* of the free list.
LEMMA FreeKeeps ==
  ASSUME IdsFit, NEW sh, Heap(sh), NEW hd, FreeListOk(sh, hd), NEW s \in LiveIn(sh),
         Frees(sh, hd, s), Unused(sh, s)
  PROVE  LET tt == FreeSlot(sh, hd, s)
         IN  /\ Heap(tt) /\ FreeListOk(tt, s) /\ FreeHead(sh, hd, s) = s
             /\ DOMAIN tt = DOMAIN sh /\ LiveIn(tt) = LiveIn(sh) \ {s}
             /\ \A i \in DOMAIN sh \ {s} : tt[i] = sh[i]
             /\ \A i \in LiveIn(sh) \ {s} : Layout(tt, i) = Layout(sh, i)
             /\ tt[s].gen = sh[s].gen % (GenMask + 1)
  <1> DEFINE g == sh[s].gen % (GenMask + 1)
             x == Link(hd, g)
             tt == [sh EXCEPT ![s] = x]
  <1>1. /\ sh = [i \in DOMAIN sh |-> sh[i]] /\ s \in DOMAIN sh /\ s \in Nat /\ sh[s].gen \in Nat
        /\ LiveIn(sh) \subseteq DOMAIN sh /\ LiveIn(sh) \subseteq Nat
        /\ \A i \in DOMAIN sh : sh[i].free \in BOOLEAN
        BY ArrayMeans DEF Heap, LiveIn
  <1>2. /\ hd \in Nat /\ hd <= LinkMask /\ FreeEnd \notin DOMAIN sh
        /\ hd # FreeEnd => hd \in DOMAIN sh \ LiveIn(sh)
        BY HeadMeans DEF Heap
  <1>3. hd % (LinkMask + 1) = hd BY <1>2, ModSmall, MasksAssumption
  <1>4. g \in Nat BY <1>1, ModNat, MasksAssumption
  <1>5. FreeSlot(sh, hd, s) = tt /\ FreeHead(sh, hd, s) = s
    BY <1>3 DEF FreeSlot, FreeHead
  <1>6. x \in FreeLink /\ x.free = TRUE /\ x.next = hd /\ x.gen = g
    BY <1>2, <1>4, LinkIs
  <1>7. s # Root BY DEF Frees
  <1>8. DOMAIN tt = DOMAIN sh /\ tt[s] = x /\ \A i \in DOMAIN sh \ {s} : tt[i] = sh[i]
    BY <1>1
  <1> HIDE DEF tt, g, x
  <1>9. LiveIn(tt) = LiveIn(sh) \ {s} BY <1>6, <1>8 DEF LiveIn
  <1>10. \A i \in LiveIn(sh) \ {s} : /\ tt[i] = sh[i]
                                     /\ \A j \in 1 .. Len(sh[i].chain) : sh[i].chain[j] \in LiveIn(tt)
    <2>1. \A i \in LiveIn(sh) : \A j \in 1 .. Len(sh[i].chain) : sh[i].chain[j] \in LiveIn(sh)
          BY DEF Heap, Chained
    <2> QED BY <1>1, <1>8, <1>9, <2>1 DEF Unused
  <1>11. \A i \in LiveIn(sh) \ {s} : Layout(tt, i) = Layout(sh, i)
    <2> SUFFICES ASSUME NEW i \in LiveIn(sh) \ {s} PROVE Layout(tt, i) = Layout(sh, i)
        OBVIOUS
    <2>1. tt[i].chain = sh[i].chain BY <1>10
    <2>2. \A j \in 1 .. Len(sh[i].chain) : tt[sh[i].chain[j]].own = sh[sh[i].chain[j]].own
          BY <1>9, <1>10
    <2> QED BY <2>1, <2>2, LayoutSame
  <1>12. IsArray(tt)
    <2>1. PICK n \in 1 .. MaxShapes : sh \in [0 .. n - 1 -> LiveShape \cup FreeLink]
          BY DEF Heap, IsArray
    <2>2. tt \in [0 .. n - 1 -> LiveShape \cup FreeLink] BY <1>6, <2>1 DEF tt
    <2> QED BY <2>1, <2>2 DEF IsArray
  <1>13. Heap(tt)
    <2>1. Rooted(tt) BY <1>7, <1>9, <1>10 DEF Heap, Rooted
    <2>2. \A i \in LiveIn(tt) : Chained(tt, i)
      <3>1. \A i \in LiveIn(sh) : Len(sh[i].chain) # 0 /\ sh[i].chain[Len(sh[i].chain)] = i
            BY DEF Heap, Chained
      <3> QED BY <1>9, <1>10, <3>1 DEF Chained
    <2>3. \A i \in LiveIn(tt) : NoTwice(Layout(tt, i)) BY <1>9, <1>11 DEF Heap
    <2> QED BY <1>12, <2>1, <2>2, <2>3 DEF Heap
  <1>14. FreeListOk(tt, s)
    <2>1. PICK q : FreeListIs(sh, hd, q) BY DEF FreeListOk
    <2> DEFINE n == Len(q)
               p == <<s>> \o q
    <2>2. q \in Seq(Nat) /\ n \in Nat BY <2>1 DEF FreeListIs
    <2>3. /\ \A j \in 1 .. n : q[j] \in DOMAIN sh \ LiveIn(sh)
          /\ \A j, k \in 1 .. n : q[j] = q[k] => j = k
          /\ \A i \in DOMAIN sh \ LiveIn(sh) : \E j \in 1 .. n : q[j] = i
          /\ hd = IF n = 0 THEN FreeEnd ELSE q[1]
          /\ \A j \in 1 .. n : sh[q[j]].next = IF j = n THEN FreeEnd ELSE q[j + 1]
          BY <2>1 DEF FreeListIs
    <2>4. /\ p \in Seq(Nat) /\ Len(p) = n + 1 /\ p[1] = s
          /\ \A j \in 2 .. n + 1 : p[j] = q[j - 1]
          BY <1>1, <2>2
    <2>5. \A j \in 1 .. n + 1 : j = 1 \/ (j \in 2 .. n + 1 /\ j - 1 \in 1 .. n)
      BY <2>2
    <2>6. DOMAIN tt \ LiveIn(tt) = (DOMAIN sh \ LiveIn(sh)) \cup {s}
      BY <1>1, <1>8, <1>9
    <2>7. \A j \in 1 .. n : q[j] # s BY <2>3
    <2> HIDE DEF p, n
    <2>8. \A j \in 1 .. n + 1 : p[j] \in DOMAIN tt \ LiveIn(tt)
      BY <2>3, <2>4, <2>5, <2>6
    <2>9. \A j, k \in 1 .. n + 1 : p[j] = p[k] => j = k
      <3> SUFFICES ASSUME NEW j \in 1 .. n + 1, NEW k \in 1 .. n + 1, p[j] = p[k] PROVE j = k
          OBVIOUS
      <3>1. CASE j = 1 /\ k = 1 BY <3>1
      <3>2. CASE j # 1 /\ k # 1
        <4>1. q[j - 1] = q[k - 1] /\ j - 1 \in 1 .. n /\ k - 1 \in 1 .. n
          BY <2>4, <2>5, <3>2
        <4>2. j - 1 = k - 1 BY <2>3, <4>1
        <4> QED BY <4>2
      <3>3. CASE j = 1 /\ k # 1 BY <2>4, <2>5, <2>7, <3>3
      <3>4. CASE j # 1 /\ k = 1 BY <2>4, <2>5, <2>7, <3>4
      <3> QED BY <3>1, <3>2, <3>3, <3>4
    <2>10. \A i \in DOMAIN tt \ LiveIn(tt) : \E j \in 1 .. n + 1 : p[j] = i
      <3> SUFFICES ASSUME NEW i \in DOMAIN tt \ LiveIn(tt) PROVE \E j \in 1 .. n + 1 : p[j] = i
          OBVIOUS
      <3>1. CASE i = s
        <4>1. 1 \in 1 .. n + 1 BY <2>2 DEF n
        <4> QED BY <2>4, <3>1, <4>1
      <3>2. CASE i # s
        <4>1. PICK j \in 1 .. n : q[j] = i BY <2>3, <2>6, <3>2
        <4>2. j + 1 \in 2 .. n + 1 /\ j + 1 \in 1 .. n + 1 /\ (j + 1) - 1 = j
          BY <2>2 DEF n
        <4> QED BY <2>4, <4>1, <4>2
      <3> QED BY <3>1, <3>2
    <2>11. \A j \in 1 .. n + 1 : tt[p[j]].next = IF j = n + 1 THEN FreeEnd ELSE p[j + 1]
      <3> SUFFICES ASSUME NEW j \in 1 .. n + 1
                   PROVE  tt[p[j]].next = IF j = n + 1 THEN FreeEnd ELSE p[j + 1]
          OBVIOUS
      <3>0. n \in Nat BY <2>2 DEF n
      <3>1. CASE j = 1
        <4>1. tt[p[j]].next = hd BY <1>6, <1>8, <2>4, <3>1
        <4>2. j = n + 1 <=> n = 0 BY <3>0, <3>1
        <4>3. n # 0 => 2 \in 2 .. n + 1 /\ 2 - 1 = 1 /\ j + 1 = 2 BY <3>0, <3>1
        <4>4. n # 0 => p[j + 1] = q[1] BY <2>4, <4>3
        <4> QED BY <2>3, <4>1, <4>2, <4>4
      <3>2. CASE j # 1
        <4>1. j - 1 \in 1 .. n /\ p[j] = q[j - 1] BY <2>4, <2>5, <3>2
        <4>2. tt[p[j]] = sh[q[j - 1]] BY <1>8, <2>3, <2>7, <4>1
        <4>3. sh[q[j - 1]].next = IF j - 1 = n THEN FreeEnd ELSE q[(j - 1) + 1]
          BY <2>3, <4>1
        <4>4. (j - 1 = n <=> j = n + 1) /\ (j - 1) + 1 = j BY <3>0
        <4>5. j # n + 1 => j + 1 \in 2 .. n + 1 /\ (j + 1) - 1 = j BY <3>0
        <4>6. j # n + 1 => p[j + 1] = q[j] BY <2>4, <4>5
        <4> QED BY <4>2, <4>3, <4>4, <4>6
      <3> QED BY <3>1, <3>2
    <2>12. s = IF Len(p) = 0 THEN FreeEnd ELSE p[1]
      <3>1. n + 1 # 0 BY <2>2 DEF n
      <3> QED BY <2>4, <3>1
    <2>13. FreeListIs(tt, s, p)
      BY <2>4, <2>8, <2>9, <2>10, <2>11, <2>12 DEF FreeListIs
    <2> QED BY <2>13 DEF FreeListOk
  <1>15. tt[s].gen = g BY <1>6, <1>8
  <1> QED BY <1>5, <1>8, <1>9, <1>11, <1>13, <1>14, <1>15 DEF tt, g

---------------------------------------------------------------------------
(***************************************************************************)
(* Transitions, objects and the invariant that ties them to the shapes.    *)
(***************************************************************************)

SlotList == [Slot -> Values \cup {Cleared}]
Holder == [shape : Nat, count : Nat, slots : SlotList]
Transition == [parent : Nat, key : Keys, flags : Flags, child : Nat]

\* A transition leads from a shape to the shape that adds the key to it.
TransitionIs(sh, t) ==
    /\ t \in Transition /\ t.parent \in LiveIn(sh) /\ t.child \in LiveIn(sh)
    /\ sh[t.child].parent = t.parent
    /\ sh[t.child].chain = Append(sh[t.parent].chain, t.child)
    /\ Len(sh[t.child].own) = 1 /\ sh[t.child].own[1].key = t.key
    /\ ~AllocFails => sh[t.child].own[1].flags = t.flags
TransOk(sh, tr) == \A t \in tr : TransitionIs(sh, t)

\* An object has a live shape and a value for each of its properties.
HolderIs(sh, x) ==
    /\ x \in Holder /\ x.shape \in LiveIn(sh)
    /\ x.count = Len(Layout(sh, x.shape))
    /\ \A i \in Slot : i <= x.count => x.slots[i] \in Values
ObjOk(sh, ob) ==
    /\ ob = [o \in Objects |-> ob[o]]
    /\ \A o \in Objects : HolderIs(sh, ob[o])

\* A private shape of one object is nobody else's.
AloneIs(sh, tr, ob, o) ==
    sh[ob[o].shape].parent = Private =>
        /\ \A p \in Objects \ {o} : ob[p].shape # ob[o].shape
        /\ Unused(sh, ob[o].shape)
        /\ \A t \in tr : t.parent # ob[o].shape /\ t.child # ob[o].shape
PrivateOk(sh, tr, ob) == \A o \in Objects : AloneIs(sh, tr, ob, o)

SInv(sh, hd, tr, ob) ==
    /\ Heap(sh) /\ FreeListOk(sh, hd)
    /\ TransOk(sh, tr) /\ ObjOk(sh, ob) /\ PrivateOk(sh, tr, ob)

\* Layouts have at most as many properties as there are keys.
LEMMA FewKeys ==
  ASSUME NEW p \in Seq(ShapeProperty), NoTwice(p)
  PROVE  Len(p) <= Cardinality(Keys) /\ Cardinality(Keys) \in Nat
  <1> DEFINE n == Len(p)
             f == [i \in 1 .. n |-> p[i].key]
  <1>1. n \in Nat /\ \A i \in 1 .. n : p[i] \in ShapeProperty OBVIOUS
  <1>2. IsFiniteSet(Keys) BY SetsAssumption
  <1>3. f \in [1 .. n -> Keys] BY <1>1 DEF ShapeProperty
  <1>4. \A i, j \in 1 .. n : f[i] = f[j] => i = j BY DEF NoTwice
  <1> HIDE DEF f
  <1>5. f \in Injection(1 .. n, Keys) BY <1>3, <1>4 DEF Injection, IsInjective
  <1>6. Cardinality(1 .. n) <= Cardinality(Keys) BY <1>2, <1>5, FS_Injection
  <1>7. Cardinality(1 .. n) = n
    <2>1. 1 \in Int /\ n \in Int BY <1>1
    <2>2. Cardinality(1 .. n) = IF 1 > n THEN 0 ELSE n - 1 + 1
      BY <2>1, FS_Interval
    <2> HIDE DEF n
    <2> QED BY <1>1, <2>2
  <1>8. Cardinality(Keys) \in Nat BY <1>2, FS_CardinalityType
  <1> QED BY <1>6, <1>7, <1>8

\* One more property of another key.
LEMMA NoTwiceAppend ==
  ASSUME NEW p \in Seq(ShapeProperty), NoTwice(p), NEW x \in ShapeProperty,
         \A i \in 1 .. Len(p) : p[i].key # x.key
  PROVE  LET q == Joined(p, <<x>>)
         IN  /\ NoTwice(q) /\ Len(q) = Len(p) + 1 /\ q[Len(p) + 1] = x
             /\ \A i \in 1 .. Len(p) : q[i] = p[i]
  <1> DEFINE n == Len(p)
             q == Joined(p, <<x>>)
  <1>1. n \in Nat OBVIOUS
  <1>2. Len(q) = n + 1 /\ q[n + 1] = x /\ \A i \in 1 .. n : q[i] = p[i]
    BY DEF Joined
  <1>3. \A i \in 1 .. n + 1 : i \in 1 .. n \/ i = n + 1 BY <1>1
  <1>4. \A i, j \in 1 .. n : p[i].key = p[j].key => i = j BY DEF NoTwice
  <1> HIDE DEF q, n
  <1>5. \A i \in 1 .. n : p[i].key # x.key BY DEF n
  <1>6. \A i, j \in 1 .. n + 1 : q[i].key = q[j].key => i = j
        BY <1>2, <1>3, <1>4, <1>5
  <1>7. NoTwice(q) BY <1>2, <1>6 DEF NoTwice
  <1> QED BY <1>2, <1>7 DEF q, n

\* RemoveAt, place by place.
LEMMA RemovedMeans ==
  ASSUME NEW X, NEW p \in Seq(X), NEW n \in 1 .. Len(p)
  PROVE  LET q == RemoveAt(p, n)
         IN  /\ q \in Seq(X) /\ Len(q) = Len(p) - 1
             /\ \A i \in 1 .. Len(p) - 1 : (i < n => q[i] = p[i]) /\ (~(i < n) => q[i] = p[i + 1])
  <1> DEFINE m == Len(p)
             a == SubSeq(p, 1, n - 1)
             b == SubSeq(p, n + 1, m)
  <1>1. m \in Nat /\ n \in Nat /\ 1 <= n /\ n <= m OBVIOUS
  <1>2. a \in Seq(X) /\ Len(a) = n - 1 /\ \A i \in 1 .. n - 1 : a[i] = p[i] OBVIOUS
  <1>3. b \in Seq(X) /\ Len(b) = m - n /\ \A i \in 1 .. m - n : b[i] = p[i + n] OBVIOUS
  <1>4. RemoveAt(p, n) = a \o b BY DEF RemoveAt
  <1> DEFINE q == a \o b
  <1> HIDE DEF a, b, m
  <1>a. n - 1 \in Nat /\ m - n \in Nat /\ (n - 1) + (m - n) = m - 1 BY <1>1
  <1> DEFINE u == n - 1
             v == m - n
  <1>d. /\ u \in Nat /\ v \in Nat /\ Len(a) = u /\ Len(b) = v
        /\ a \in Seq(X) /\ b \in Seq(X)
        BY <1>2, <1>3, <1>a
  <1>b. /\ q \in Seq(X) /\ Len(q) = u + v
        /\ \A i \in 1 .. u + v : q[i] = IF i <= u THEN a[i] ELSE b[i - u]
    <2> HIDE DEF u, v
    <2> QED BY <1>d
  <1>5. q \in Seq(X) /\ Len(q) = m - 1 BY <1>a, <1>b
  <1>c. \A i \in 1 .. m - 1 : i <= n - 1 <=> i < n BY <1>1
  <1>6. \A i \in 1 .. m - 1 : q[i] = IF i < n THEN a[i] ELSE b[i - (n - 1)]
        BY <1>a, <1>b, <1>c
  <1> HIDE DEF q
  <1>7. \A i \in 1 .. m - 1 : /\ i < n => i \in 1 .. n - 1
                              /\ ~(i < n) => i - (n - 1) \in 1 .. m - n
                              /\ (i - (n - 1)) + n = i + 1
        BY <1>1
  <1>8. \A i \in 1 .. m - 1 : (i < n => q[i] = p[i]) /\ (~(i < n) => q[i] = p[i + 1])
        BY <1>2, <1>3, <1>6, <1>7
  <1> QED BY <1>4, <1>5, <1>8 DEF q, m

\* One property less.
LEMMA NoTwiceRemove ==
  ASSUME NEW p \in Seq(ShapeProperty), NoTwice(p), NEW n \in 1 .. Len(p)
  PROVE  NoTwice(RemoveAt(p, n))
  <1> DEFINE q == RemoveAt(p, n)
             m == Len(p)
             At(i) == IF i < n THEN i ELSE i + 1
  <1>1. /\ Len(q) = m - 1
        /\ \A i \in 1 .. m - 1 : (i < n => q[i] = p[i]) /\ (~(i < n) => q[i] = p[i + 1])
        BY RemovedMeans
  <1>2. m \in Nat /\ n \in Nat /\ n <= m OBVIOUS
  <1>3. \A i, j \in 1 .. m : p[i].key = p[j].key => i = j BY DEF NoTwice
  <1> HIDE DEF q, m
  <1>4. \A i \in 1 .. m - 1 : q[i] = p[At(i)] BY <1>1
  <1>5. \A i \in 1 .. m - 1 : At(i) \in 1 .. m BY <1>2
  <1>6. \A i, j \in 1 .. m - 1 : At(i) = At(j) => i = j BY <1>2
  <1> HIDE DEF At
  <1>7. \A i, j \in 1 .. m - 1 : q[i].key = q[j].key => i = j
    BY <1>3, <1>4, <1>5, <1>6
  <1> QED BY <1>1, <1>7 DEF NoTwice, q

\* Whether a key occurs twice is a matter of the keys.
LEMMA NoTwiceKeyed ==
  ASSUME NEW p, NEW q, Keyed(p, q), NoTwice(p)
  PROVE  NoTwice(q)
  BY DEF Keyed, NoTwice

\* The properties after set_prop_flags.
LEMMA ReflaggedMeans ==
  ASSUME NEW p \in Seq(ShapeProperty), NEW k, NEW f \in Flags
  PROVE  LET q == Reflagged(p, k, f)
         IN  /\ q \in Seq(ShapeProperty) /\ Keyed(p, q) /\ Len(q) = Len(p)
             /\ \A i \in 1 .. Len(p) : /\ q[i].key = p[i].key
                                       /\ q[i].flags = IF p[i].key = k THEN f ELSE p[i].flags
  <1> DEFINE q == Reflagged(p, k, f)
             n == Len(p)
  <1>1. n \in Nat /\ DOMAIN p = 1 .. n /\ \A i \in 1 .. n : p[i] \in ShapeProperty OBVIOUS
  <1>2. \A x \in ShapeProperty : /\ x.key \in Keys /\ x.flags \in Flags
                                 /\ x = [key |-> x.key, flags |-> x.flags]
                                 /\ [x EXCEPT !.flags = f] = [key |-> x.key, flags |-> f]
        BY DEF ShapeProperty
  <1>3. q = [i \in 1 .. n |-> IF p[i].key = k THEN [p[i] EXCEPT !.flags = f] ELSE p[i]]
        BY <1>1 DEF Reflagged
  <1> HIDE DEF q, n
  <1>4. ASSUME NEW i \in 1 .. n
        PROVE  /\ q[i] \in ShapeProperty /\ q[i].key = p[i].key
               /\ q[i].flags = IF p[i].key = k THEN f ELSE p[i].flags
    <2>2. p[i] \in ShapeProperty BY <1>1
    <2>3. CASE p[i].key = k
      <3>1. q[i] = [p[i] EXCEPT !.flags = f] BY <1>3, <2>3
      <3>2. q[i] = [key |-> p[i].key, flags |-> f] /\ p[i].key \in Keys
        BY <1>2, <2>2, <3>1
      <3> QED BY <2>3, <3>2 DEF ShapeProperty
    <2>4. CASE p[i].key # k
      <3>1. q[i] = p[i] BY <1>3, <2>4
      <3> QED BY <2>2, <2>4, <3>1
    <2> QED BY <2>3, <2>4
  <1>5. \A i \in 1 .. n : q[i] \in ShapeProperty BY <1>4
  <1>6. q \in [1 .. n -> ShapeProperty] BY <1>3, <1>5
  <1>7. q \in Seq(ShapeProperty) /\ Len(q) = n BY <1>1, <1>6
  <1>8. \A i \in 1 .. n : q[i].key = p[i].key BY <1>4
  <1>9. Keyed(p, q) BY <1>7, <1>8 DEF Keyed, n
  <1> QED BY <1>4, <1>7, <1>9 DEF q, n

\* An object, its shape and its property slots.
LEMMA ObjMeans ==
  ASSUME NEW sh, Heap(sh), NEW ob, ObjOk(sh, ob), NEW o \in Objects
  PROVE  LET p == Layout(sh, ob[o].shape)
         IN  /\ ob[o] \in Holder /\ ob[o].shape \in LiveIn(sh) /\ ob[o].shape \in Nat
             /\ ob[o].slots \in SlotList
             /\ p \in Seq(ShapeProperty) /\ NoTwice(p) /\ Len(p) \in Nat /\ ob[o].count = Len(p)
             /\ 1 .. Len(p) \subseteq Slot
             /\ \A i \in 1 .. Len(p) : ob[o].slots[i] \in Values
             /\ Owned(sh, sh[ob[o].shape].chain)
  <1> DEFINE x == ob[o]
             p == Layout(sh, x.shape)
  <1>1. HolderIs(sh, x) BY DEF ObjOk
  <1>2. /\ x \in Holder /\ x.shape \in LiveIn(sh) /\ x.count = Len(p)
        /\ \A i \in Slot : i <= x.count => x.slots[i] \in Values
        BY <1>1 DEF HolderIs
  <1>3. x.slots \in SlotList /\ x.shape \in Nat BY <1>2 DEF Holder
  <1>4. p \in Seq(ShapeProperty) /\ NoTwice(p) /\ Len(p) \in Nat /\ Owned(sh, sh[x.shape].chain)
        BY <1>2, LiveMeans
  <1>5. Len(p) <= Cardinality(Keys) /\ Cardinality(Keys) \in Nat
    BY <1>4, FewKeys
  <1> HIDE DEF p, x
  <1>6. 1 .. Len(p) \subseteq Slot BY <1>4, <1>5 DEF Slot
  <1>7. \A i \in 1 .. Len(p) : i <= x.count BY <1>2, <1>4
  <1>8. \A i \in 1 .. Len(p) : x.slots[i] \in Values BY <1>2, <1>6, <1>7
  <1> QED BY <1>2, <1>3, <1>4, <1>6, <1>8 DEF p, x

\* What a holder is, part by part.
LEMMA HolderHolds ==
  ASSUME NEW sh, NEW x, x.shape \in LiveIn(sh), x.shape \in Nat, x.count \in Nat,
         x = [shape |-> x.shape, count |-> x.count, slots |-> x.slots],
         x.slots \in SlotList, x.count = Len(Layout(sh, x.shape)),
         \A i \in Slot : i <= x.count => x.slots[i] \in Values
  PROVE  HolderIs(sh, x)
  BY DEF HolderIs, Holder

\* Objects whose shapes are left alone.
LEMMA HolderKeeps ==
  ASSUME NEW sh, NEW x, HolderIs(sh, x), NEW tt, x.shape \in LiveIn(tt),
         Layout(tt, x.shape) = Layout(sh, x.shape)
  PROVE  HolderIs(tt, x)
  BY DEF HolderIs

\* Transitions whose shapes are left alone.
LEMMA TransKeeps ==
  ASSUME NEW sh, NEW tr, TransOk(sh, tr), NEW tt,
         \A t \in tr : /\ t.parent \in LiveIn(tt) /\ t.child \in LiveIn(tt)
                       /\ tt[t.parent] = sh[t.parent] /\ tt[t.child] = sh[t.child]
  PROVE  TransOk(tt, tr)
  BY DEF TransOk, TransitionIs

\* One object changes.
Changes(ob, o, x) ==
    /\ ob = [p \in Objects |-> ob[p]]
    /\ ob[o] = x
    /\ \A p \in Objects \ {o} : ob[p] = obj[p]
Objs == obj = [p \in Objects |-> obj[p]] /\ \A p \in Objects : obj[p] \in Holder

\* A property slot gets a value.
Written(s, i, v) == [s EXCEPT ![i] = v]

\* Property slots after one was written.
LEMMA SlotWritten ==
  ASSUME NEW s \in SlotList, NEW i, NEW v \in Values
  PROVE  LET w == Written(s, i, v)
         IN  /\ w \in SlotList
             /\ \A j \in Slot : (j = i => w[j] = v) /\ (j # i => w[j] = s[j])
  <1>1. DOMAIN s = Slot BY DEF SlotList
  <1>2. \A j \in Slot : s[j] \in Values \cup {Cleared} BY DEF SlotList
  <1> DEFINE w == [s EXCEPT ![i] = v]
  <1>3. w = [j \in Slot |-> IF j = i THEN v ELSE s[j]] BY <1>1
  <1> HIDE DEF w
  <1>4. \A j \in Slot : (j = i => w[j] = v) /\ (j # i => w[j] = s[j]) BY <1>3
  <1>5. w \in SlotList BY <1>2, <1>3 DEF SlotList
  <1> QED BY <1>4, <1>5 DEF w, Written

\* HObject.put_prop of a new key.
LEMMA AppendedIs ==
  ASSUME Objs, NEW o \in Objects, NEW v, NEW id
  PROVE  Changes(Appended(o, v, id), o,
                 [shape |-> id, count |-> obj[o].count + 1,
                  slots |-> Written(obj[o].slots, obj[o].count + 1, v)])
  BY DEF Written, Objs, Holder, Changes, Appended

\* A value is written.
LEMMA ValuedIs ==
  ASSUME Objs, NEW o \in Objects, NEW k, NEW v
  PROVE  Changes(Valued(o, k, v), o,
                 [shape |-> obj[o].shape, count |-> obj[o].count,
                  slots |-> Written(obj[o].slots, FindProp(o, k), v)])
  BY DEF Written, Objs, Holder, Changes, Valued

\* PUTPROP writes a slot of the receiver.
LEMMA AssignedIs ==
  ASSUME Objs, NEW o \in Objects, NEW i, NEW v
  PROVE  Changes([obj EXCEPT ![o].slots[i] = v], o,
                 [shape |-> obj[o].shape, count |-> obj[o].count,
                  slots |-> Written(obj[o].slots, i, v)])
  BY DEF Written, Objs, Holder, Changes

\* make_shape_private for set_prop_flags.
LEMMA MovedIs ==
  ASSUME Objs, NEW o \in Objects, NEW k, NEW v, NEW id
  PROVE  Changes([Valued(o, k, v) EXCEPT ![o].shape = id], o,
                 [shape |-> id, count |-> obj[o].count,
                  slots |-> Written(obj[o].slots, FindProp(o, k), v)])
  BY DEF Written, Objs, Holder, Changes, Valued

\* HObject.delete_prop moves the values down.
Shifted(s, n, at) ==
    [i \in Slot |-> CASE i >= n -> Cleared
                      [] i \in at .. (n - 1) -> s[i + 1]
                      [] OTHER -> s[i]]
\* HObject.delete_prop leaves the object with the values moved down.
LEMMA CompactedIs ==
  ASSUME Objs, NEW o \in Objects, NEW at, NEW id
  PROVE  Changes(Compacted(o, at, id), o,
                 [shape |-> id, count |-> obj[o].count - 1,
                  slots |-> Shifted(obj[o].slots, obj[o].count, at)])
  BY DEF Objs, Changes, Compacted, Shifted

\* Those values, slot by slot.
LEMMA ShiftedMeans ==
  ASSUME NEW s \in SlotList, NEW n \in Nat, n <= Cardinality(Keys), NEW at \in 1 .. n
  PROVE  LET w == Shifted(s, n, at)
         IN  /\ w \in SlotList
             /\ \A i \in 1 .. n - 1 : /\ i \in Slot
                                      /\ i < at => w[i] = s[i]
                                      /\ ~(i < at) => w[i] = s[i + 1]
  <1> DEFINE w == Shifted(s, n, at)
  <1>1. IsFiniteSet(Keys) BY SetsAssumption
  <1>2. Cardinality(Keys) \in Nat BY <1>1, FS_CardinalityType
  <1>3. \A j \in Slot : s[j] \in Values \cup {Cleared} BY DEF SlotList
  <1>4. \A i \in Slot : i \in Nat /\ i > 0 BY <1>2 DEF Slot
  <1>5. \A i \in Slot : i \in at .. n - 1 => i + 1 \in Slot
    BY <1>2, <1>4 DEF Slot
  <1>6. \A i \in 1 .. n - 1 : i \in Slot BY <1>2 DEF Slot
  <1>7. ASSUME NEW i \in Slot PROVE w[i] \in Values \cup {Cleared}
    <2>1. w[i] = CASE i >= n -> Cleared [] i \in at .. (n - 1) -> s[i + 1] [] OTHER -> s[i]
          BY DEF Shifted
    <2>2. CASE i >= n
      <3>1. ~(i \in at .. (n - 1)) BY <1>4, <2>2
      <3>2. w[i] = Cleared BY <2>1, <2>2, <3>1
      <3> QED BY <3>2
    <2>3. CASE ~(i >= n) /\ i \in at .. (n - 1)
      <3>1. w[i] = s[i + 1] BY <2>1, <2>3
      <3> QED BY <1>3, <1>5, <2>3, <3>1
    <2>4. CASE ~(i >= n) /\ ~(i \in at .. (n - 1))
      <3>1. w[i] = s[i] BY <2>1, <2>4
      <3> QED BY <1>3, <3>1
    <2> QED BY <2>2, <2>3, <2>4
  <1>8. w \in SlotList
    <2>1. w = [i \in Slot |-> w[i]] BY DEF Shifted
    <2> HIDE DEF w
    <2> QED BY <1>7, <2>1 DEF SlotList
  <1>9. ASSUME NEW i \in 1 .. n - 1 PROVE (i < at => w[i] = s[i]) /\ (~(i < at) => w[i] = s[i + 1])
    <2>1. w[i] = CASE i >= n -> Cleared [] i \in at .. (n - 1) -> s[i + 1] [] OTHER -> s[i]
          BY <1>6 DEF Shifted
    <2>2. ~(i >= n) /\ (i \in at .. (n - 1) <=> ~(i < at)) OBVIOUS
    <2>3. CASE i < at BY <2>1, <2>2, <2>3
    <2>4. CASE ~(i < at) BY <2>1, <2>2, <2>4
    <2> QED BY <2>3, <2>4
  <1> QED BY <1>6, <1>8, <1>9

---------------------------------------------------------------------------
(***************************************************************************)
(* The invariant, and the steps that store no shape.                       *)
(***************************************************************************)

Sound == SInv(shapes, head, trans, obj)

\* The invariant, part by part.
LEMMA SoundMeans ==
  ASSUME Sound
  PROVE  /\ Heap(shapes) /\ FreeListOk(shapes, head) /\ TransOk(shapes, trans)
         /\ ObjOk(shapes, obj) /\ PrivateOk(shapes, trans, obj) /\ Objs
         /\ Live = LiveIn(shapes)
  BY DEF Sound, SInv, Objs, ObjOk, HolderIs, Live, LiveIn

\* find_prop_idx in an object's shape.
LEMMA FindPropMeans ==
  ASSUME Sound, NEW o \in Objects, NEW k
  PROVE  LET p == Layout(shapes, obj[o].shape)
             n == FindProp(o, k)
         IN  /\ n = Find(shapes, obj[o].shape, k)
             /\ n \in 0 .. Len(p)
             /\ n # 0 => n \in 1 .. Len(p) /\ n \in Slot /\ p[n].key = k
             /\ n = 0 => \A j \in 1 .. Len(p) : p[j].key # k
             /\ \A j \in 1 .. Len(p) : p[j].key = k => n = j
             /\ p[n].flags = FlagsOf(o, k)
  <1> DEFINE s == obj[o].shape
             p == Layout(shapes, s)
             n == Find(shapes, s, k)
  <1>1. FindProp(o, k) = n BY DEF FindProp, Find
  <1>2. NoTwice(p) /\ 1 .. Len(p) \subseteq Slot /\ Owned(shapes, shapes[s].chain)
        BY SoundMeans, ObjMeans
  <1>3. p[n].flags = FlagsOf(o, k) BY <1>1 DEF FlagsOf
  <1>4. /\ n \in 0 .. Len(p)
        /\ n # 0 => n \in 1 .. Len(p) /\ p[n].key = k
        /\ n = 0 => \A j \in 1 .. Len(p) : p[j].key # k
        /\ \A j \in 1 .. Len(p) : p[j].key = k => n = j
        BY <1>2, FindMeans
  <1> QED BY <1>1, <1>2, <1>3, <1>4

\* The objects after one of them changed.
LEMMA ObjChanges ==
  ASSUME ObjOk(shapes, obj), NEW tt, NEW ob, NEW o \in Objects, NEW x, Changes(ob, o, x),
         HolderIs(tt, x),
         \A p \in Objects \ {o} : /\ obj[p].shape \in LiveIn(tt)
                                  /\ Layout(tt, obj[p].shape) = Layout(shapes, obj[p].shape)
  PROVE  ObjOk(tt, ob)
  <1>1. ASSUME NEW p \in Objects \ {o} PROVE HolderIs(tt, ob[p])
    <2>1. HolderIs(shapes, obj[p]) /\ ob[p] = obj[p] BY DEF ObjOk, Changes
    <2> QED BY <2>1, HolderKeeps
  <1>2. HolderIs(tt, ob[o]) BY DEF Changes
  <1>3. ob = [p \in Objects |-> ob[p]] BY DEF Changes
  <1> QED BY <1>1, <1>2, <1>3 DEF ObjOk

\* A write to a property slot changes no shape.
LEMMA WriteKeeps ==
  ASSUME Sound, NEW o \in Objects, NEW i, NEW v \in Values, NEW ob,
         Changes(ob, o, [shape |-> obj[o].shape, count |-> obj[o].count,
                         slots |-> Written(obj[o].slots, i, v)])
  PROVE  SInv(shapes, head, trans, ob)
  <1> DEFINE w == Written(obj[o].slots, i, v)
             x == [shape |-> obj[o].shape, count |-> obj[o].count, slots |-> w]
             p == Layout(shapes, obj[o].shape)
  <1>1. /\ Heap(shapes) /\ FreeListOk(shapes, head) /\ TransOk(shapes, trans)
        /\ ObjOk(shapes, obj) /\ PrivateOk(shapes, trans, obj)
        BY SoundMeans
  <1>2. /\ obj[o].slots \in SlotList /\ obj[o].shape \in LiveIn(shapes) /\ obj[o].shape \in Nat
        /\ Len(p) \in Nat /\ obj[o].count = Len(p)
        BY <1>1, ObjMeans
  <1>3. w \in SlotList /\ \A j \in Slot : (j = i => w[j] = v) /\ (j # i => w[j] = obj[o].slots[j])
        BY <1>2, SlotWritten
  <1>4. \A j \in Slot : j <= obj[o].count => obj[o].slots[j] \in Values
        BY <1>1 DEF ObjOk, HolderIs
  <1> HIDE DEF w
  <1>5. x.shape = obj[o].shape /\ x.count = obj[o].count /\ x.slots = w OBVIOUS
  <1>6. x = [shape |-> x.shape, count |-> x.count, slots |-> x.slots] OBVIOUS
  <1>a. Changes(ob, o, x) BY DEF w
  <1> HIDE DEF x
  <1>7. \A j \in Slot : j <= x.count => x.slots[j] \in Values
    BY <1>3, <1>4, <1>5
  <1>8. HolderIs(shapes, x)
    <2> HIDE DEF p
    <2>1. x.count = Len(Layout(shapes, x.shape)) BY <1>2, <1>5 DEF p
    <2> QED BY <1>2, <1>3, <1>5, <1>6, <1>7, <2>1, HolderHolds
  <1>9. \A q \in Objects \ {o} : obj[q].shape \in LiveIn(shapes)
    BY <1>1, ObjMeans
  <1>10. ObjOk(shapes, ob) BY <1>1, <1>8, <1>9, <1>a, ObjChanges
  <1>11. \A q \in Objects : ob[q].shape = obj[q].shape
    BY <1>5, <1>a DEF Changes
  <1>12. PrivateOk(shapes, trans, ob) BY <1>1, <1>11 DEF PrivateOk, AloneIs
  <1> QED BY <1>1, <1>10, <1>12 DEF SInv

\* HObject.put_prop with a transition that exists.
LEMMA SharedKeeps ==
  ASSUME Sound, NEW o \in Objects, NEW k \in Keys, NEW v \in Values, NEW f \in Flags,
         PutShared(o, k, v, f)
  PROVE  SInv(shapes, head, trans, obj')
  <1>1. /\ Heap(shapes) /\ FreeListOk(shapes, head) /\ TransOk(shapes, trans)
        /\ ObjOk(shapes, obj) /\ PrivateOk(shapes, trans, obj) /\ Objs
        BY SoundMeans
  <1>2. PICK t \in trans : t.parent = obj[o].shape /\ t.key = k /\ obj' = Appended(o, v, t.child)
        BY DEF PutShared, Taken
  <1> DEFINE c == t.child
             n == obj[o].count
             w == Written(obj[o].slots, n + 1, v)
             x == [shape |-> c, count |-> n + 1, slots |-> w]
             p == Layout(shapes, obj[o].shape)
             q == Layout(shapes, c)
  <1>3. Changes(obj', o, x) BY <1>1, <1>2, AppendedIs
  <1>4. /\ t \in Transition /\ t.parent \in LiveIn(shapes) /\ c \in LiveIn(shapes)
        /\ shapes[c].parent = t.parent
        /\ shapes[c].chain = Append(shapes[t.parent].chain, c)
        /\ Len(shapes[c].own) = 1
        BY <1>1 DEF TransOk, TransitionIs
  <1>5. /\ obj[o].slots \in SlotList /\ Len(p) \in Nat /\ n = Len(p) /\ p \in Seq(ShapeProperty)
        /\ Owned(shapes, shapes[t.parent].chain)
        /\ \A j \in 1 .. Len(p) : obj[o].slots[j] \in Values
        BY <1>1, <1>2, ObjMeans
  <1>6. Len(q) = n + 1 /\ c \in Nat
    <2>1. c \in Nat /\ shapes[c] \in LiveShape BY <1>1, <1>4, LiveMeans
    <2>2. shapes[c].own \in Seq(ShapeProperty) BY <2>1, ShapeMeans
    <2>3. Extends(shapes, c, shapes, t.parent) BY <1>4, <2>2 DEF Extends
    <2>4. q = Joined(p, shapes[c].own)
      <3>1. p = Layout(shapes, t.parent) BY <1>2
      <3>2. Owned(shapes, shapes[t.parent].chain) BY <1>5
      <3> HIDE DEF p
      <3>3. Layout(shapes, c) = Joined(Layout(shapes, t.parent), shapes[c].own)
            BY <2>1, <2>3, <3>2, LayoutExtends
      <3> QED BY <3>1, <3>3
    <2> DEFINE y == shapes[c].own
    <2>5. y \in Seq(ShapeProperty) /\ Len(y) = 1 /\ q = Joined(p, y)
      BY <1>4, <2>2, <2>4
    <2>6. p \in Seq(ShapeProperty) /\ Len(p) \in Nat BY <1>5
    <2> HIDE DEF q, p, n, y
    <2>7. Len(q) = Len(p) + 1
      <3>1. Len(Joined(p, y)) = Len(p) + Len(y) BY <2>5, <2>6, JoinedMeans
      <3> QED BY <2>5, <3>1
    <2> QED BY <1>5, <2>1, <2>7
  <1>7. w \in SlotList 
        /\ \A j \in Slot : (j = n + 1 => w[j] = v) /\ (j # n + 1 => w[j] = obj[o].slots[j])
        BY <1>5, SlotWritten
  <1> HIDE DEF w, n, p, q
  <1>8. x.shape = c /\ x.count = n + 1 /\ x.slots = w OBVIOUS
  <1>9. x = [shape |-> x.shape, count |-> x.count, slots |-> x.slots] OBVIOUS
  <1> HIDE DEF x
  <1>10. \A j \in Slot : j <= x.count => x.slots[j] \in Values
    <2> SUFFICES ASSUME NEW j \in Slot, j <= n + 1 PROVE w[j] \in Values
        BY <1>8
    <2>1. j \in Int /\ j >= 1
      <3>1. IsFiniteSet(Keys) BY SetsAssumption
      <3>2. Cardinality(Keys) \in Nat BY <3>1, FS_CardinalityType
      <3> QED BY <3>2 DEF Slot
    <2>2. j = n + 1 \/ j \in 1 .. Len(p) BY <1>5, <2>1
    <2> QED BY <1>5, <1>7, <2>2
  <1>11. HolderIs(shapes, x)
    <2>1. x.count \in Nat BY <1>5, <1>8
    <2>2. x.count = Len(Layout(shapes, x.shape)) BY <1>6, <1>8 DEF q
    <2> QED BY <1>4, <1>6, <1>7, <1>8, <1>9, <1>10, <2>1, <2>2, HolderHolds
  <1>12. \A r \in Objects \ {o} : obj[r].shape \in LiveIn(shapes)
    BY <1>1, ObjMeans
  <1>13. ObjOk(shapes, obj') BY <1>1, <1>3, <1>11, <1>12, ObjChanges
  <1>14. PrivateOk(shapes, trans, obj')
    <2> SUFFICES ASSUME NEW r \in Objects PROVE AloneIs(shapes, trans, obj', r)
        BY DEF PrivateOk
    <2>1. obj'[o].shape = c /\ \A z \in Objects \ {o} : obj'[z] = obj[z]
          BY <1>3, <1>8 DEF Changes
    <2>2. CASE r = o
      <3>1. shapes[c].parent \in Nat BY <1>4 DEF Transition
      <3>2. shapes[c].parent # Private BY <3>1 DEF Private
      <3> QED BY <2>1, <2>2, <3>2 DEF AloneIs
    <2>3. CASE r # o
      <3>1. AloneIs(shapes, trans, obj, r) BY <1>1 DEF PrivateOk
      <3>2. shapes[obj[r].shape].parent = Private => c # obj[r].shape
            BY <1>2, <3>1 DEF AloneIs
      <3> QED BY <2>1, <2>3, <3>1, <3>2 DEF AloneIs
    <2> QED BY <2>2, <2>3
  <1> QED BY <1>1, <1>13, <1>14 DEF SInv

---------------------------------------------------------------------------
(***************************************************************************)
(* put_prop of a new key.                                                  *)
(***************************************************************************)

\* What a stored shape leaves alone.
Beside(tt, s) ==
    /\ Heap(tt) /\ s \notin LiveIn(shapes) /\ s \in Nat /\ s # Root
    /\ LiveIn(tt) = LiveIn(shapes) \cup {s}
    /\ \A i \in LiveIn(shapes) : tt[i] = shapes[i] /\ Layout(tt, i) = Layout(shapes, i)

\* store_new_shape leaves the live shapes alone.
LEMMA BesideIs ==
  ASSUME IdsFit, Sound, SlotFree, NEW r, Fitting(r)
  PROVE  Beside(Stored(r), NewSlot) /\ FreeListOk(Stored(r), NewHead) /\ Stored(r)[NewSlot] = r
  <1>1. Heap(shapes) /\ FreeListOk(shapes, head) BY SoundMeans
  <1>2. r \in LiveShape BY DEF Fitting
  <1>3. /\ NewSlot \notin LiveIn(shapes) /\ NewSlot \in Nat /\ NewSlot # Root
        /\ LiveIn(Stored(r)) = LiveIn(shapes) \cup {NewSlot} /\ Stored(r)[NewSlot] = r
        BY <1>1, <1>2, StoredIs
  <1>4. /\ Heap(Stored(r)) /\ FreeListOk(Stored(r), NewHead)
        /\ \A i \in LiveIn(shapes) :
              Stored(r)[i] = shapes[i] /\ Layout(Stored(r), i) = Layout(shapes, i)
        BY <1>1, StoreKeeps
  <1> QED BY <1>3, <1>4 DEF Beside

\* The transitions and the objects do not see a new shape.
LEMMA BesideKeeps ==
  ASSUME Sound, NEW tt, NEW s, Beside(tt, s)
  PROVE  /\ TransOk(tt, trans)
         /\ \A p \in Objects : /\ obj[p].shape \in LiveIn(tt) /\ obj[p].shape # s
                               /\ tt[obj[p].shape] = shapes[obj[p].shape]
                               /\ Layout(tt, obj[p].shape) = Layout(shapes, obj[p].shape)
         /\ \A t \in trans : t.parent # s /\ t.child # s
  <1>1. \A t \in trans : t.parent \in LiveIn(shapes) /\ t.child \in LiveIn(shapes)
        BY SoundMeans DEF TransOk, TransitionIs
  <1>2. \A p \in Objects : obj[p].shape \in LiveIn(shapes)
    BY SoundMeans, ObjMeans
  <1>3. \A t \in trans : /\ t.parent \in LiveIn(tt) /\ t.child \in LiveIn(tt)
                         /\ tt[t.parent] = shapes[t.parent] /\ tt[t.child] = shapes[t.child]
        BY <1>1 DEF Beside
  <1>4. TransOk(shapes, trans) BY SoundMeans
  <1>5. TransOk(tt, trans) BY <1>3, <1>4, TransKeeps
  <1> QED BY <1>1, <1>2, <1>5 DEF Beside

\* The shape shape_extend builds on another.
Child(cur, k, f) ==
    Shape(cur, Append(shapes[cur].chain, NewSlot), <<[key |-> k, flags |-> f]>>, NewGen)

\* The shape transition_shape_new_flags stores fits into the array.
LEMMA ChildMeans ==
  ASSUME IdsFit, Sound, SlotFree, NEW cur \in LiveIn(shapes), NEW k \in Keys, NEW f \in Flags,
         \A j \in 1 .. Len(Layout(shapes, cur)) : Layout(shapes, cur)[j].key # k
  PROVE  LET r == Child(cur, k, f)
             tt == Stored(r)
         IN  /\ Fitting(r) /\ r.parent = cur
             /\ r.chain = Append(shapes[cur].chain, NewSlot)
             /\ r.own = <<[key |-> k, flags |-> f]>> /\ r.gen = NewGen
             /\ Layout(tt, NewSlot) = Joined(Layout(shapes, cur), <<[key |-> k, flags |-> f]>>)
  <1> DEFINE x == [key |-> k, flags |-> f]
             s == NewSlot
             c == shapes[cur].chain
             d == Append(c, s)
             r == Child(cur, k, f)
             tt == Stored(r)
             p == Layout(shapes, cur)
  <1>1. Heap(shapes) /\ FreeListOk(shapes, head) BY SoundMeans
  <1>2. x \in ShapeProperty /\ x.key = k BY DEF ShapeProperty
  <1>3. /\ Owned(shapes, c) /\ cur \in Nat /\ c \in Seq(Nat) /\ NoTwice(p)
        /\ p \in Seq(ShapeProperty) /\ \A j \in 1 .. Len(c) : c[j] \in LiveIn(shapes)
        BY <1>1, LiveMeans
  <1>4. NewSlot \in Nat /\ NewGen \in Nat
    <2>1. shapes[cur] \in LiveShape BY <1>1, LiveMeans
    <2> QED BY <1>1, <2>1, StoredIs
  <1> HIDE DEF x
  <1>5. <<x>> \in Seq(ShapeProperty) BY <1>2
  <1>6. d \in Seq(Nat) /\ Len(d) = Len(c) + 1 /\ d[Len(c) + 1] = s
        /\ \A j \in 1 .. Len(c) : d[j] = c[j]
        BY <1>3, <1>4
  <1>7. Len(c) \in Nat BY <1>3
  <1> HIDE DEF d, c
  <1>8. /\ r \in LiveShape /\ r.parent = cur /\ r.chain = d /\ r.own = <<x>> /\ r.gen = NewGen
    <2> DEFINE z == <<x>>
    <2>1. r = Shape(cur, d, z, NewGen) BY DEF Child, d, c, x
    <2>2. cur \in Int /\ z \in Seq(ShapeProperty) BY <1>3, <1>5
    <2> HIDE DEF r, z
    <2>3. /\ r \in LiveShape /\ r.parent = cur /\ r.chain = d /\ r.own = z /\ r.gen = NewGen
      <3>1. NewGen \in Nat /\ d \in Seq(Nat) BY <1>4, <1>6
      <3>2. LET q == Shape(cur, d, z, NewGen)
            IN  /\ q \in LiveShape
                /\ q.free = FALSE /\ q.parent = cur /\ q.chain = d /\ q.own = z /\ q.gen = NewGen
            BY <2>2, <3>1 DEF Shape, LiveShape
      <3> QED BY <2>1, <3>2
    <2> QED BY <2>3 DEF z
  <1> HIDE DEF r
  <1>9. /\ tt[s] = r /\ s \notin LiveIn(shapes)
        /\ \A i \in DOMAIN shapes \ {s} : tt[i] = shapes[i]
        BY <1>1, <1>8, StoredIs
  <1>10. \A i \in LiveIn(shapes) : tt[i] = shapes[i] BY <1>9 DEF LiveIn
  <1> HIDE DEF tt
  <1>11. Extends(tt, s, shapes, cur)
    <2>1. tt[s].chain = Append(shapes[cur].chain, s) BY <1>8, <1>9 DEF d, c
    <2>2. tt[s].own \in Seq(ShapeProperty) BY <1>5, <1>8, <1>9
    <2>3. \A j \in 1 .. Len(shapes[cur].chain) :
             tt[shapes[cur].chain[j]].own = shapes[shapes[cur].chain[j]].own
          BY <1>3, <1>10 DEF c
    <2> QED BY <2>1, <2>2, <2>3 DEF Extends
  <1>12. Layout(tt, s) = Joined(p, <<x>>)
    <2>1. Owned(shapes, shapes[cur].chain) BY <1>3 DEF c
    <2>2. Layout(tt, s) = Joined(Layout(shapes, cur), tt[s].own)
          BY <1>4, <1>11, <2>1, LayoutExtends
    <2> QED BY <1>8, <1>9, <2>2
  <1>13. NoTwice(Layout(tt, s))
    <2>1. \A j \in 1 .. Len(p) : p[j].key # x.key BY <1>2
    <2> HIDE DEF p
    <2> QED BY <1>2, <1>3, <1>12, <2>1, NoTwiceAppend
  <1>14. Fitting(r)
    <2>1. Len(d) # 0 /\ d[Len(d)] = s BY <1>6, <1>7
    <2>2. \A j \in 1 .. Len(d) : d[j] \in LiveIn(shapes) \cup {s}
      <3>1. \A j \in 1 .. Len(c) + 1 : j \in 1 .. Len(c) \/ j = Len(c) + 1
        BY <1>7
      <3> QED BY <1>3, <1>6, <3>1
    <2> QED BY <1>8, <1>13, <2>1, <2>2 DEF Fitting, tt
  <1> QED BY <1>8, <1>12, <1>14 DEF d, c, x, tt, r

\* HObject.put_prop with a new transition.
LEMMA NewKeeps ==
  ASSUME IdsFit, Sound, NEW o \in Objects, NEW k \in Keys, NEW v \in Values, NEW f \in Flags,
         PutNew(o, k, v, f)
  PROVE  SInv(shapes', head', trans', obj')
  <1> DEFINE cur == obj[o].shape
             s == NewSlot
             r == Child(cur, k, f)
             tt == Stored(r)
             n == obj[o].count
             w == Written(obj[o].slots, n + 1, v)
             x == [shape |-> s, count |-> n + 1, slots |-> w]
             p == Layout(shapes, cur)
             t == [parent |-> cur, key |-> k, flags |-> f, child |-> s]
             y == [key |-> k, flags |-> f]
  <1>1. /\ Heap(shapes) /\ FreeListOk(shapes, head) /\ TransOk(shapes, trans)
        /\ ObjOk(shapes, obj) /\ PrivateOk(shapes, trans, obj) /\ Objs
        BY SoundMeans
  <1>2. /\ SlotFree /\ shapes' = tt /\ trans' = trans \cup {t} /\ head' = NewHead
        /\ obj' = Appended(o, v, s) /\ FindProp(o, k) = 0
        BY DEF PutNew, Child
  <1>3. /\ obj[o].slots \in SlotList /\ Len(p) \in Nat /\ n = Len(p) /\ p \in Seq(ShapeProperty)
        /\ cur \in LiveIn(shapes) /\ cur \in Nat
        /\ \A j \in 1 .. Len(p) : obj[o].slots[j] \in Values
        BY <1>1, ObjMeans
  <1>4. \A j \in 1 .. Len(p) : p[j].key # k BY <1>2, FindPropMeans
  <1>5. /\ Fitting(r) /\ r.parent = cur /\ r.chain = Append(shapes[cur].chain, s)
        /\ r.own = <<y>> /\ Layout(tt, s) = Joined(p, <<y>>)
    <2>1. \A j \in 1 .. Len(Layout(shapes, cur)) : Layout(shapes, cur)[j].key # k
      BY <1>4
    <2>2. cur \in LiveIn(shapes) /\ SlotFree BY <1>2, <1>3
    <2> HIDE DEF cur
    <2> QED BY <2>1, <2>2, ChildMeans
  <1>6. Beside(tt, s) /\ FreeListOk(tt, NewHead) /\ tt[s] = r
    BY <1>2, <1>5, BesideIs
  <1>7. Changes(obj', o, x) BY <1>1, <1>2, AppendedIs
  <1>8. y \in ShapeProperty /\ <<y>> \in Seq(ShapeProperty) /\ Len(<<y>>) = 1 /\ <<y>>[1] = y
        BY DEF ShapeProperty
  <1>9. y.key = k /\ y.flags = f OBVIOUS
  <1>10. t \in Transition /\ t.parent = cur /\ t.key = k /\ t.flags = f /\ t.child = s
        BY <1>3, <1>6 DEF Transition, Beside
  <1>11. w \in SlotList
        /\ \A j \in Slot : (j = n + 1 => w[j] = v) /\ (j # n + 1 => w[j] = obj[o].slots[j])
        BY <1>3, SlotWritten
  <1>12. x.shape = s /\ x.count = n + 1 /\ x.slots = w
         /\ x = [shape |-> x.shape, count |-> x.count, slots |-> x.slots]
         OBVIOUS
  <1> HIDE DEF r, tt, y, t, w, x, n, p
  <1>13. Len(Layout(tt, s)) = n + 1
    <2> DEFINE z == <<y>>
    <2>1. z \in Seq(ShapeProperty) /\ Len(z) = 1 /\ Layout(tt, s) = Joined(p, z)
      BY <1>5, <1>8
    <2> HIDE DEF z
    <2>2. Len(Joined(p, z)) = Len(p) + Len(z) BY <1>3, <2>1, JoinedMeans
    <2> QED BY <1>3, <2>1, <2>2
  <1>14. \A j \in Slot : j <= x.count => x.slots[j] \in Values
    <2> SUFFICES ASSUME NEW j \in Slot, j <= n + 1 PROVE w[j] \in Values
        BY <1>12
    <2>1. j \in Int /\ j >= 1
      <3>1. IsFiniteSet(Keys) BY SetsAssumption
      <3>2. Cardinality(Keys) \in Nat BY <3>1, FS_CardinalityType
      <3> QED BY <3>2 DEF Slot
    <2>2. j = n + 1 \/ j \in 1 .. Len(p) BY <1>3, <2>1
    <2> QED BY <1>3, <1>11, <2>2
  <1>15. HolderIs(tt, x)
    <2>1. x.count \in Nat BY <1>3, <1>12
    <2>2. x.shape \in LiveIn(tt) /\ x.shape \in Nat BY <1>6, <1>12 DEF Beside
    <2>3. x.count = Len(Layout(tt, x.shape)) BY <1>12, <1>13
    <2> QED BY <1>11, <1>12, <1>14, <2>1, <2>2, <2>3, HolderHolds
  <1>16. /\ TransOk(tt, trans)
         /\ \A q \in Objects : /\ obj[q].shape \in LiveIn(tt) /\ obj[q].shape # s
                               /\ tt[obj[q].shape] = shapes[obj[q].shape]
                               /\ Layout(tt, obj[q].shape) = Layout(shapes, obj[q].shape)
         /\ \A u \in trans : u.parent # s /\ u.child # s
         BY <1>6, BesideKeeps
  <1>17. ObjOk(tt, obj') BY <1>1, <1>7, <1>15, <1>16, ObjChanges
  <1>18. TransOk(tt, trans')
    <2>1. TransitionIs(tt, t)
      <3>1. cur \in LiveIn(tt) /\ tt[cur] = shapes[cur] /\ s \in LiveIn(tt)
            BY <1>3, <1>6 DEF Beside
      <3> QED BY <1>5, <1>6, <1>8, <1>9, <1>10, <3>1 DEF TransitionIs
    <2> QED BY <1>2, <1>16, <2>1 DEF TransOk
  <1>19. PrivateOk(tt, trans', obj')
    <2> SUFFICES ASSUME NEW q \in Objects PROVE AloneIs(tt, trans', obj', q)
        BY DEF PrivateOk
    <2>1. obj'[o].shape = s /\ \A z \in Objects \ {o} : obj'[z] = obj[z]
          BY <1>7, <1>12 DEF Changes
    <2>2. CASE q = o
      <3>1. tt[s].parent # Private BY <1>3, <1>5, <1>6 DEF Private
      <3> QED BY <2>1, <2>2, <3>1 DEF AloneIs
    <2>3. CASE q # o
      <3> DEFINE g == obj[q].shape
      <3>1. AloneIs(shapes, trans, obj, q) BY <1>1 DEF PrivateOk
      <3>2. obj'[q].shape = g /\ tt[g] = shapes[g] /\ g # s
        BY <1>16, <2>1, <2>3
      <3>3. ASSUME tt[g].parent = Private
            PROVE  /\ \A z \in Objects \ {q} : obj'[z].shape # g
                   /\ Unused(tt, g)
                   /\ \A u \in trans' : u.parent # g /\ u.child # g
        <4>1. /\ \A z \in Objects \ {q} : obj[z].shape # g
              /\ Unused(shapes, g)
              /\ \A u \in trans : u.parent # g /\ u.child # g
              BY <3>1, <3>2, <3>3 DEF AloneIs
        <4>2. cur # g BY <2>3, <4>1
        <4>3. \A z \in Objects \ {q} : obj'[z].shape # g BY <2>1, <3>2, <4>1
        <4>4. \A u \in trans' : u.parent # g /\ u.child # g
          BY <1>2, <1>10, <3>2, <4>1, <4>2
        <4>5. ASSUME NEW i \in LiveIn(tt) \ {g}, NEW j \in 1 .. Len(tt[i].chain)
              PROVE  tt[i].chain[j] # g
          <5>1. CASE i # s
            <6>1. i \in LiveIn(shapes) /\ tt[i] = shapes[i]
              BY <1>6, <5>1 DEF Beside
            <6> QED BY <4>1, <6>1 DEF Unused
          <5>2. CASE i = s
            <6> DEFINE c == shapes[cur].chain
            <6>1. c \in Seq(Nat) BY <1>1, <1>3, LiveMeans
            <6>2. tt[i].chain = Append(c, s) BY <1>5, <1>6, <5>2
            <6>3. \A m \in 1 .. Len(c) : c[m] # g
              BY <1>3, <4>1, <4>2 DEF Unused
            <6> HIDE DEF c
            <6>4. j \in 1 .. Len(Append(c, s)) BY <6>2
            <6>5. \/ j \in 1 .. Len(c) /\ Append(c, s)[j] = c[j]
                  \/ Append(c, s)[j] = s
                  BY <6>1, <6>4
            <6> QED BY <3>2, <6>2, <6>3, <6>5
          <5> QED BY <5>1, <5>2
        <4>6. Unused(tt, g) BY <4>5 DEF Unused
        <4> QED BY <4>3, <4>4, <4>6
      <3> QED BY <3>2, <3>3 DEF AloneIs
    <2> QED BY <2>2, <2>3
  <1>20. Heap(tt) BY <1>6 DEF Beside
  <1> QED BY <1>2, <1>6, <1>17, <1>18, <1>19, <1>20 DEF SInv

---------------------------------------------------------------------------
(***************************************************************************)
(* Private shapes: make_shape_private and what it frees.                   *)
(***************************************************************************)

\* The array uu has what sh has, but for the shape old if it is private.
Drops(sh, uu, old) ==
    /\ DOMAIN uu = DOMAIN sh /\ LiveIn(uu) \subseteq LiveIn(sh)
    /\ \A i \in DOMAIN sh \ {old} : uu[i] = sh[i]
    /\ \A i \in LiveIn(sh) : \/ i = old /\ sh[old].parent = Private /\ i \notin LiveIn(uu)
                             \/ /\ i \in LiveIn(uu) /\ uu[i] = sh[i]
                                /\ Layout(uu, i) = Layout(sh, i)
    /\ sh[old].gen <= GenMask => uu[old].gen = sh[old].gen

\* Heap.free_shape_slot of a shape that no other is built on, if it is private.
LEMMA FreeIs ==
  ASSUME IdsFit, NEW sh, Heap(sh), NEW hd, FreeListOk(sh, hd), NEW old \in LiveIn(sh),
         sh[old].parent = Private => Unused(sh, old)
  PROVE  LET uu == FreeSlot(sh, hd, old)
         IN  /\ Heap(uu) /\ FreeListOk(uu, FreeHead(sh, hd, old)) /\ Drops(sh, uu, old)
             /\ sh[old].parent = Private <=> Frees(sh, hd, old)
  <1> DEFINE uu == FreeSlot(sh, hd, old)
  <1>1. /\ FreeEnd \notin DOMAIN sh
        /\ hd # FreeEnd => hd \in DOMAIN sh \ LiveIn(sh)
        BY HeadMeans DEF Heap
  <1>2. old \in DOMAIN sh /\ old \in Nat /\ sh[old].gen \in Nat
    <2>1. IsArray(sh) BY DEF Heap
    <2> QED BY <2>1, ArrayMeans DEF LiveIn
  <1>3. hd # old BY <1>1, <1>2
  <1>4. sh[Root].parent # Private BY DEF Heap, Rooted, NoShape, Private
  <1>5. sh[old].parent = Private <=> Frees(sh, hd, old) BY <1>3, <1>4 DEF Frees
  <1>6. CASE Frees(sh, hd, old)
    <2>1. /\ Heap(uu) /\ FreeListOk(uu, old) /\ FreeHead(sh, hd, old) = old
          /\ DOMAIN uu = DOMAIN sh /\ LiveIn(uu) = LiveIn(sh) \ {old}
          /\ \A i \in DOMAIN sh \ {old} : uu[i] = sh[i]
          /\ \A i \in LiveIn(sh) \ {old} : Layout(uu, i) = Layout(sh, i)
          /\ uu[old].gen = sh[old].gen % (GenMask + 1)
          BY <1>5, <1>6, FreeKeeps
    <2>2. sh[old].gen <= GenMask => uu[old].gen = sh[old].gen
          BY <1>2, <2>1, ModSmall, MasksAssumption
    <2>3. LiveIn(sh) \subseteq DOMAIN sh BY DEF LiveIn
    <2> HIDE DEF uu
    <2>4. Drops(sh, uu, old) BY <1>5, <1>6, <2>1, <2>2, <2>3 DEF Drops
    <2> QED BY <1>5, <2>1, <2>4 DEF uu
  <1>7. CASE ~Frees(sh, hd, old)
    <2>1. uu = sh /\ FreeHead(sh, hd, old) = hd BY <1>7 DEF FreeSlot, FreeHead
    <2>2. Drops(sh, sh, old) BY DEF Drops
    <2> QED BY <1>5, <2>1, <2>2
  <1> QED BY <1>6, <1>7

\* One object leaves a shape, which is gone then if it was private, for one that
\* is nobody's or the root.
Swaps(uu, old, s) ==
    /\ \A i \in LiveIn(shapes) :
          \/ i = old /\ shapes[old].parent = Private /\ i \notin LiveIn(uu)
          \/ i \in LiveIn(uu) /\ uu[i] = shapes[i] /\ Layout(uu, i) = Layout(shapes, i)
    /\ \A i \in LiveIn(uu) : i \in LiveIn(shapes) \/ uu[i].chain = <<i>>
    /\ uu[s].parent = Private => s \notin LiveIn(shapes)

\* An object that exchanges its shape for a new private one, whose old shape is
\* freed if it was private: make_shape_private and delete_prop.
LEMMA SwapKeeps ==
  ASSUME Sound, NEW uu, NEW hh, Heap(uu), FreeListOk(uu, hh), NEW o \in Objects, NEW x, NEW ob,
         Changes(ob, o, x), HolderIs(uu, x), Swaps(uu, obj[o].shape, x.shape)
  PROVE  SInv(uu, hh, trans, ob)
  <1> DEFINE old == obj[o].shape
             s == x.shape
  <1>1. /\ Heap(shapes) /\ TransOk(shapes, trans) /\ ObjOk(shapes, obj)
        /\ PrivateOk(shapes, trans, obj)
        BY SoundMeans
  <1>2. \A t \in trans : t.parent \in LiveIn(shapes) /\ t.child \in LiveIn(shapes)
        BY <1>1 DEF TransOk, TransitionIs
  <1>3. \A p \in Objects : obj[p].shape \in LiveIn(shapes) BY <1>1, ObjMeans
  <1>4. AloneIs(shapes, trans, obj, o) BY <1>1 DEF PrivateOk
  <1>5. \A t \in trans : /\ t.parent \in LiveIn(uu) /\ t.child \in LiveIn(uu)
                         /\ uu[t.parent] = shapes[t.parent] /\ uu[t.child] = shapes[t.child]
        BY <1>2, <1>4 DEF Swaps, AloneIs
  <1>6. TransOk(uu, trans) BY <1>1, <1>5, TransKeeps
  <1>7. \A p \in Objects \ {o} : /\ obj[p].shape \in LiveIn(uu)
                                 /\ uu[obj[p].shape] = shapes[obj[p].shape]
                                 /\ Layout(uu, obj[p].shape) = Layout(shapes, obj[p].shape)
        BY <1>3, <1>4 DEF Swaps, AloneIs
  <1>8. ObjOk(uu, ob) BY <1>1, <1>7, ObjChanges
  <1>9. ob[o].shape = s /\ \A z \in Objects \ {o} : ob[z] = obj[z]
    BY DEF Changes
  <1>10. \A i \in LiveIn(uu) : \/ i \in LiveIn(shapes) /\ uu[i].chain = shapes[i].chain
                               \/ i \notin LiveIn(shapes) /\ uu[i].chain = <<i>>
         BY DEF Swaps
  <1>11. \A i \in LiveIn(shapes) : \A j \in 1 .. Len(shapes[i].chain) :
            shapes[i].chain[j] \in LiveIn(shapes)
         BY <1>1 DEF Heap, Chained
  <1>12. ASSUME NEW q \in Objects PROVE AloneIs(uu, trans, ob, q)
    <2>1. CASE q = o
      <3> SUFFICES ASSUME uu[s].parent = Private
                   PROVE  /\ \A z \in Objects \ {o} : ob[z].shape # s
                          /\ Unused(uu, s)
                          /\ \A t \in trans : t.parent # s /\ t.child # s
          BY <1>9, <2>1 DEF AloneIs
      <3>1. s \notin LiveIn(shapes) BY DEF Swaps
      <3>2. \A z \in Objects \ {o} : ob[z].shape # s BY <1>3, <1>9, <3>1
      <3>3. \A t \in trans : t.parent # s /\ t.child # s BY <1>2, <3>1
      <3>4. ASSUME NEW i \in LiveIn(uu) \ {s}, NEW j \in 1 .. Len(uu[i].chain)
            PROVE  uu[i].chain[j] # s
        <4>1. CASE i \in LiveIn(shapes) BY <1>10, <1>11, <3>1, <4>1
        <4>2. CASE i \notin LiveIn(shapes)
          <5>1. uu[i].chain = <<i>> BY <1>10, <4>2
          <5>2. Len(uu[i].chain) = 1 /\ uu[i].chain[1] = i BY <5>1
          <5>3. j = 1 BY <5>2
          <5> QED BY <5>2, <5>3
        <4> QED BY <4>1, <4>2
      <3>5. Unused(uu, s) BY <3>4 DEF Unused
      <3> QED BY <3>2, <3>3, <3>5
    <2>2. CASE q # o
      <3> DEFINE g == obj[q].shape
      <3>1. AloneIs(shapes, trans, obj, q) BY <1>1 DEF PrivateOk
      <3>2. ob[q].shape = g /\ uu[g] = shapes[g] /\ g \in LiveIn(uu) /\ g \in LiveIn(shapes)
            BY <1>3, <1>7, <1>9, <2>2
      <3> SUFFICES ASSUME uu[g].parent = Private
                   PROVE  /\ \A z \in Objects \ {q} : ob[z].shape # g
                          /\ Unused(uu, g)
                          /\ \A t \in trans : t.parent # g /\ t.child # g
          BY <3>2 DEF AloneIs
      <3>3. /\ \A z \in Objects \ {q} : obj[z].shape # g
            /\ Unused(shapes, g)
            /\ \A t \in trans : t.parent # g /\ t.child # g
            BY <3>1, <3>2 DEF AloneIs
      <3>4. s # g
        <4>1. CASE s = g
          <5>1. s \notin LiveIn(shapes) BY <4>1 DEF Swaps
          <5> QED BY <3>2, <4>1, <5>1
        <4> QED BY <4>1
      <3>5. \A z \in Objects \ {q} : ob[z].shape # g BY <1>9, <3>3, <3>4
      <3>6. ASSUME NEW i \in LiveIn(uu) \ {g}, NEW j \in 1 .. Len(uu[i].chain)
            PROVE  uu[i].chain[j] # g
        <4>1. CASE i \in LiveIn(shapes) BY <1>10, <3>3, <4>1 DEF Unused
        <4>2. CASE i \notin LiveIn(shapes)
          <5>1. uu[i].chain = <<i>> BY <1>10, <4>2
          <5>2. Len(uu[i].chain) = 1 /\ uu[i].chain[1] = i BY <5>1
          <5>3. j = 1 BY <5>2
          <5> QED BY <5>2, <5>3
        <4> QED BY <4>1, <4>2
      <3>7. Unused(uu, g) BY <3>6 DEF Unused
      <3> QED BY <3>3, <3>5, <3>7
    <2> QED BY <2>1, <2>2
  <1>13. PrivateOk(uu, trans, ob) BY <1>12 DEF PrivateOk
  <1> QED BY <1>6, <1>8, <1>13 DEF SInv

\* The shape make_shape_private and delete_prop build.
Flat(w) == Shape(Private, <<NewSlot>>, w, NewGen)

\* The shape make_shape_private and delete_prop store fits into the array.
LEMMA FlatMeans ==
  ASSUME IdsFit, Sound, SlotFree, NEW w \in Seq(ShapeProperty), NoTwice(w)
  PROVE  LET r == Flat(w)
         IN  /\ Fitting(r) /\ r.parent = Private /\ r.chain = <<NewSlot>> /\ r.own = w
             /\ r.gen = NewGen /\ Layout(Stored(r), NewSlot) = w
  <1> DEFINE s == NewSlot
             d == <<s>>
             r == Flat(w)
             tt == Stored(r)
  <1>1. Heap(shapes) /\ FreeListOk(shapes, head) BY SoundMeans
  <1>2. Root \in LiveIn(shapes) BY <1>1 DEF Heap, Rooted
  <1>3. shapes[Root] \in LiveShape BY <1>1, <1>2, LiveMeans
  <1>4. s \in Nat /\ NewGen \in Nat BY <1>1, <1>3, StoredIs
  <1>5. d \in Seq(Nat) /\ Len(d) = 1 /\ d[1] = s BY <1>4
  <1>6. Private \in Int BY DEF Private
  <1>7. r = Shape(Private, d, w, NewGen) BY DEF Flat
  <1> HIDE DEF d, r
  <1>8. /\ r \in LiveShape /\ r.parent = Private /\ r.chain = d /\ r.own = w /\ r.gen = NewGen
        BY <1>4, <1>5, <1>6, <1>7 DEF Shape, LiveShape
  <1>9. tt[s] = r BY <1>1, <1>8, StoredIs
  <1> HIDE DEF tt
  <1>10. Layout(tt, s) = w
    <2>1. tt[s].chain = <<s>> /\ tt[s].own = w BY <1>8, <1>9 DEF d
    <2> QED BY <1>4, <2>1, LayoutFlat
  <1>11. Fitting(r)
    <2>1. \A j \in 1 .. Len(d) : d[j] = s BY <1>5
    <2>2. Len(d) # 0 /\ d[Len(d)] = s BY <1>5
    <2> QED BY <1>8, <1>10, <2>1, <2>2 DEF Fitting, tt
  <1> QED BY <1>8, <1>10, <1>11 DEF d, r, tt

\* The array after an object got a private shape with the properties w.
Reshaped(w, old) == FreeSlot(Stored(Flat(w)), NewHead, old)
ReshapedHead(w, old) == FreeHead(Stored(Flat(w)), NewHead, old)

\* The array after both, and the free list that goes with it.
LEMMA ReshapedMeans ==
  ASSUME IdsFit, Sound, SlotFree, NEW w \in Seq(ShapeProperty), NoTwice(w), NEW o \in Objects
  PROVE  LET old == obj[o].shape
             tt == Stored(Flat(w))
             uu == Reshaped(w, old)
         IN  /\ Heap(uu) /\ FreeListOk(uu, ReshapedHead(w, old)) /\ Swaps(uu, old, NewSlot)
             /\ NewSlot \in LiveIn(uu) /\ NewSlot \in Nat /\ Layout(uu, NewSlot) = w
             /\ Beside(tt, NewSlot) /\ tt[NewSlot].gen = NewGen /\ Drops(tt, uu, old)
             /\ old # NewSlot /\ old \in LiveIn(tt) /\ tt[old] = shapes[old]
  <1> DEFINE s == NewSlot
             old == obj[o].shape
             r == Flat(w)
             tt == Stored(r)
             hh == NewHead
             uu == FreeSlot(tt, hh, old)
  <1>1. /\ Heap(shapes) /\ ObjOk(shapes, obj) /\ PrivateOk(shapes, trans, obj)
        BY SoundMeans
  <1>2. /\ Fitting(r) /\ r.parent = Private /\ r.chain = <<s>> /\ r.own = w
        /\ r.gen = NewGen /\ Layout(tt, s) = w
        BY FlatMeans
  <1>3. Beside(tt, s) /\ FreeListOk(tt, hh) /\ tt[s] = r BY <1>2, BesideIs
  <1>4. old \in LiveIn(shapes) BY <1>1, ObjMeans
  <1> HIDE DEF r, tt, hh
  <1>5. /\ Heap(tt) /\ s \notin LiveIn(shapes) /\ LiveIn(tt) = LiveIn(shapes) \cup {s}
        /\ s \in Nat
        /\ \A i \in LiveIn(shapes) : tt[i] = shapes[i] /\ Layout(tt, i) = Layout(shapes, i)
        BY <1>3 DEF Beside
  <1>6. old \in LiveIn(tt) /\ old # s /\ tt[old] = shapes[old] BY <1>4, <1>5
  <1>7. ASSUME tt[old].parent = Private PROVE Unused(tt, old)
    <2>1. AloneIs(shapes, trans, obj, o) BY <1>1 DEF PrivateOk
    <2>2. Unused(shapes, old) BY <1>6, <1>7, <2>1 DEF AloneIs
    <2>3. ASSUME NEW i \in LiveIn(tt) \ {old}, NEW j \in 1 .. Len(tt[i].chain)
          PROVE  tt[i].chain[j] # old
      <3>1. CASE i \in LiveIn(shapes) BY <1>5, <2>2, <3>1 DEF Unused
      <3>2. CASE i \notin LiveIn(shapes)
        <4>1. i = s /\ tt[i].chain = <<s>> BY <1>2, <1>3, <1>5, <3>2
        <4>2. Len(tt[i].chain) = 1 /\ tt[i].chain[1] = s BY <4>1
        <4>3. j = 1 BY <4>2
        <4> QED BY <1>6, <4>2, <4>3
      <3> QED BY <3>1, <3>2
    <2> QED BY <2>3 DEF Unused
  <1>8. Heap(uu) /\ FreeListOk(uu, FreeHead(tt, hh, old)) /\ Drops(tt, uu, old)
        BY <1>3, <1>5, <1>6, <1>7, FreeIs
  <1> HIDE DEF uu
  <1>9. s \in LiveIn(uu) /\ uu[s] = r /\ Layout(uu, s) = w
        BY <1>2, <1>3, <1>5, <1>6, <1>8 DEF Drops
  <1>10. Swaps(uu, old, s)
    <2>1. \A i \in LiveIn(shapes) :
             \/ i = old /\ shapes[old].parent = Private /\ i \notin LiveIn(uu)
             \/ i \in LiveIn(uu) /\ uu[i] = shapes[i] /\ Layout(uu, i) = Layout(shapes, i)
          BY <1>5, <1>6, <1>8 DEF Drops
    <2>2. ASSUME NEW i \in LiveIn(uu) PROVE i \in LiveIn(shapes) \/ uu[i].chain = <<i>>
      <3>1. i \in LiveIn(tt) BY <1>8 DEF Drops
      <3> QED BY <1>2, <1>5, <1>9, <3>1
    <2> QED BY <1>5, <2>1, <2>2 DEF Swaps
  <1>11. tt[s].gen = NewGen BY <1>2, <1>3
  <1>12. uu = Reshaped(w, old) /\ FreeHead(tt, hh, old) = ReshapedHead(w, old)
         BY DEF uu, tt, hh, r, Reshaped, ReshapedHead
  <1>13. tt = Stored(Flat(w)) BY DEF tt, r
  <1> QED BY <1>3, <1>5, <1>6, <1>8, <1>9, <1>10, <1>11, <1>12, <1>13

---------------------------------------------------------------------------
(***************************************************************************)
(* set_prop_flags and delete_prop.                                         *)
(***************************************************************************)

\* What set_prop_flags writes where it stands: flags of live shapes.
Reflags(sh, tt) ==
    /\ tt = [i \in DOMAIN sh |-> tt[i]]
    /\ \A i \in LiveIn(sh) :
          /\ tt[i] \in LiveShape /\ tt[i].parent = sh[i].parent /\ tt[i].chain = sh[i].chain
          /\ tt[i].gen = sh[i].gen /\ Keyed(sh[i].own, tt[i].own)
    /\ \A i \in DOMAIN sh \ LiveIn(sh) : tt[i] = sh[i]

\* Attributes may change where they stand without any layout losing a key.
LEMMA ReflagsKeeps ==
  ASSUME NEW sh, Heap(sh), NEW hd, FreeListOk(sh, hd), NEW tt, Reflags(sh, tt)
  PROVE  /\ Heap(tt) /\ FreeListOk(tt, hd) /\ LiveIn(tt) = LiveIn(sh) /\ DOMAIN tt = DOMAIN sh
         /\ \A i \in LiveIn(sh) : Keyed(Layout(sh, i), Layout(tt, i))
  <1>1. DOMAIN tt = DOMAIN sh BY DEF Reflags
  <1>2. \A i \in LiveIn(sh) : ~tt[i].free /\ tt[i].own \in Seq(ShapeProperty)
        BY ShapeMeans DEF Reflags
  <1>3. LiveIn(tt) = LiveIn(sh)
    <2>1. \A i \in DOMAIN sh \ LiveIn(sh) : tt[i].free = sh[i].free
      BY DEF Reflags
    <2> QED BY <1>1, <1>2, <2>1 DEF LiveIn
  <1>4. IsArray(tt)
    <2>1. PICK n \in 1 .. MaxShapes : sh \in [0 .. n - 1 -> LiveShape \cup FreeLink]
          BY DEF Heap, IsArray
    <2>2. \A i \in DOMAIN sh : tt[i] \in LiveShape \cup FreeLink
      BY <2>1 DEF Reflags
    <2>3. tt \in [0 .. n - 1 -> LiveShape \cup FreeLink]
      BY <2>1, <2>2 DEF Reflags
    <2> QED BY <2>3 DEF IsArray
  <1>5. ASSUME NEW i \in LiveIn(sh) PROVE Keyed(Layout(sh, i), Layout(tt, i))
    <2>1. Owned(sh, sh[i].chain) /\ \A j \in 1 .. Len(sh[i].chain) : sh[i].chain[j] \in LiveIn(sh)
          BY LiveMeans
    <2>2. tt[i].chain = sh[i].chain BY DEF Reflags
    <2>3. \A j \in 1 .. Len(sh[i].chain) :
             Keyed(sh[sh[i].chain[j]].own, tt[sh[i].chain[j]].own)
          BY <2>1 DEF Reflags
    <2>4. Owned(tt, sh[i].chain) BY <1>2, <2>1 DEF Owned
    <2> QED BY <2>1, <2>2, <2>3, <2>4, LayoutKeyed
  <1>6. \A i \in LiveIn(tt) : Chained(tt, i) /\ NoTwice(Layout(tt, i))
    <2>1. \A i \in LiveIn(sh) : Chained(sh, i) /\ NoTwice(Layout(sh, i))
      BY DEF Heap
    <2>2. \A i \in LiveIn(sh) : tt[i].chain = sh[i].chain BY DEF Reflags
    <2>3. \A i \in LiveIn(sh) : NoTwice(Layout(tt, i))
      BY <1>5, <2>1, NoTwiceKeyed
    <2> QED BY <1>3, <2>1, <2>2, <2>3 DEF Chained
  <1>7. Rooted(tt)
    <2>1. /\ Root \in LiveIn(sh) /\ sh[Root].parent = NoShape /\ sh[Root].chain = <<Root>>
          /\ sh[Root].own = <<>>
          BY DEF Heap, Rooted
    <2>2. /\ tt[Root].parent = NoShape /\ tt[Root].chain = <<Root>>
          /\ Keyed(sh[Root].own, tt[Root].own)
          BY <2>1 DEF Reflags
    <2>3. Len(tt[Root].own) = 0 BY <2>1, <2>2 DEF Keyed
    <2>4. tt[Root].own = <<>> BY <1>2, <2>1, <2>3
    <2> QED BY <1>3, <2>1, <2>2, <2>4 DEF Rooted
  <1>8. FreeListOk(tt, hd)
    <2>1. PICK q : FreeListIs(sh, hd, q) BY DEF FreeListOk
    <2>2. \A j \in 1 .. Len(q) : tt[q[j]] = sh[q[j]]
      BY <2>1 DEF FreeListIs, Reflags
    <2>3. FreeListIs(tt, hd, q) BY <1>1, <1>3, <2>1, <2>2 DEF FreeListIs
    <2> QED BY <2>3 DEF FreeListOk
  <1> QED BY <1>1, <1>3, <1>4, <1>5, <1>6, <1>7, <1>8 DEF Heap

\* A shape without ancestors' properties but for the root's: none.
LEMMA RootEmpty == ASSUME NEW sh, Heap(sh) PROVE Layout(sh, Root) = <<>> /\ Root \in LiveIn(sh)
  <1>1. /\ Root \in LiveIn(sh) /\ sh[Root].chain = <<Root>> /\ sh[Root].own = <<>>
        BY DEF Heap, Rooted
  <1>2. Root \in Nat /\ sh[Root].own \in Seq(ShapeProperty) BY <1>1 DEF Root
  <1> QED BY <1>1, <1>2, LayoutFlat

\* HObject.put_prop of an existing key: set_prop_flags.
LEMMA SetFlagsMeans ==
  ASSUME IdsFit, Sound, NEW o \in Objects, NEW k \in Keys, NEW v \in Values, NEW f \in Flags,
         SetFlags(o, k, v, f)
  PROVE  LET p == Layout(shapes, obj[o].shape)
             w == Reflagged(p, k, f)
             n == FindProp(o, k)
             x == [shape |-> NewSlot, count |-> obj[o].count, slots |-> Written(obj[o].slots, n, v)]
         IN  /\ SlotFree /\ w \in Seq(ShapeProperty) /\ NoTwice(w) /\ Keyed(p, w)
             /\ shapes' = Reshaped(w, obj[o].shape) /\ head' = ReshapedHead(w, obj[o].shape)
             /\ n \in 1 .. Len(p) /\ n \in Slot
             /\ Changes(obj', o, x) /\ HolderIs(shapes', x) /\ trans' = trans
  <1> DEFINE old == obj[o].shape
             p == Layout(shapes, old)
             w == Reflagged(p, k, f)
             n == FindProp(o, k)
             e == Written(obj[o].slots, n, v)
             x == [shape |-> NewSlot, count |-> obj[o].count, slots |-> e]
  <1>1. Heap(shapes) /\ ObjOk(shapes, obj) /\ Objs BY SoundMeans
  <1>2. /\ p \in Seq(ShapeProperty) /\ NoTwice(p) /\ Len(p) \in Nat /\ obj[o].count = Len(p)
        /\ 1 .. Len(p) \subseteq Slot /\ obj[o].slots \in SlotList
        BY <1>1, ObjMeans
  <1>3. /\ SlotFree /\ n # 0 /\ trans' = trans
        /\ shapes' = Reshaped(w, old) /\ head' = ReshapedHead(w, old)
        BY DEF SetFlags, Reshaped, ReshapedHead, Flat
  <1>4. obj' = [Valued(o, k, v) EXCEPT ![o].shape = NewSlot] BY DEF SetFlags
  <1>5. Changes(obj', o, x) BY <1>1, <1>4, MovedIs
  <1>6. n \in 1 .. Len(p) /\ n \in Slot BY <1>3, FindPropMeans
  <1>7. /\ e \in SlotList
        /\ \A j \in Slot : (j = n => e[j] = v) /\ (j # n => e[j] = obj[o].slots[j])
        BY <1>2, SlotWritten
  <1>8. \A j \in Slot : j <= obj[o].count => obj[o].slots[j] \in Values
        BY <1>1 DEF ObjOk, HolderIs
  <1>9. x.shape = NewSlot /\ x.count = obj[o].count /\ x.slots = e
        /\ x = [shape |-> x.shape, count |-> x.count, slots |-> x.slots]
        OBVIOUS
  <1> HIDE DEF p, e, x
  <1>10. w \in Seq(ShapeProperty) /\ Keyed(p, w) /\ Len(w) = Len(p)
    BY <1>2, ReflaggedMeans
  <1> HIDE DEF w
  <1>11. NoTwice(w) BY <1>2, <1>10, NoTwiceKeyed
  <1>12. NewSlot \in LiveIn(shapes') /\ NewSlot \in Nat /\ Layout(shapes', NewSlot) = w
         BY <1>3, <1>10, <1>11, ReshapedMeans
  <1>13. \A j \in Slot : j <= x.count => x.slots[j] \in Values
    BY <1>7, <1>8, <1>9
  <1>14. HolderIs(shapes', x)
    <2>1. x.count \in Nat /\ x.count = Len(Layout(shapes', x.shape))
      BY <1>2, <1>9, <1>10, <1>12
    <2> QED BY <1>7, <1>9, <1>12, <1>13, <2>1, HolderHolds
  <1> QED BY <1>3, <1>5, <1>6, <1>10, <1>11, <1>14 DEF p, w, e, x

\* set_prop_flags with a private shape keeps the invariant.
LEMMA SetFlagsKeeps ==
  ASSUME IdsFit, Sound, NEW o \in Objects, NEW k \in Keys, NEW v \in Values, NEW f \in Flags,
         SetFlags(o, k, v, f)
  PROVE  SInv(shapes', head', trans', obj')
  <1> DEFINE old == obj[o].shape
             w == Reflagged(Layout(shapes, old), k, f)
             x == [shape |-> NewSlot, count |-> obj[o].count,
                   slots |-> Written(obj[o].slots, FindProp(o, k), v)]
  <1>1. /\ SlotFree /\ w \in Seq(ShapeProperty) /\ NoTwice(w)
        /\ shapes' = Reshaped(w, old) /\ head' = ReshapedHead(w, old)
        /\ Changes(obj', o, x) /\ HolderIs(shapes', x) /\ trans' = trans
        BY SetFlagsMeans
  <1>2. x.shape = NewSlot OBVIOUS
  <1> HIDE DEF w, x
  <1>3. Heap(shapes') /\ FreeListOk(shapes', head') /\ Swaps(shapes', old, NewSlot)
        BY <1>1, ReshapedMeans
  <1>4. SInv(shapes', head', trans, obj') BY <1>1, <1>2, <1>3, SwapKeeps
  <1> QED BY <1>1, <1>4

\* HObject.delete_prop.
LEMMA DeleteMeans ==
  ASSUME IdsFit, Sound, NEW o \in Objects, NEW k \in Keys, Delete(o, k)
  PROVE  LET p == Layout(shapes, obj[o].shape)
             n == FindProp(o, k)
             w == RemoveAt(p, n)
             x == [shape |-> NewSlot, count |-> obj[o].count - 1,
                   slots |-> Shifted(obj[o].slots, obj[o].count, n)]
         IN  /\ SlotFree /\ w \in Seq(ShapeProperty) /\ NoTwice(w)
             /\ shapes' = Reshaped(w, obj[o].shape) /\ head' = ReshapedHead(w, obj[o].shape)
             /\ n \in 1 .. Len(p)
             /\ Changes(obj', o, x) /\ HolderIs(shapes', x) /\ trans' = trans
  <1> DEFINE old == obj[o].shape
             p == Layout(shapes, old)
             n == FindProp(o, k)
             m == obj[o].count
             w == RemoveAt(p, n)
             e == Shifted(obj[o].slots, m, n)
             x == [shape |-> NewSlot, count |-> m - 1, slots |-> e]
  <1>1. Heap(shapes) /\ ObjOk(shapes, obj) /\ Objs BY SoundMeans
  <1>2. /\ p \in Seq(ShapeProperty) /\ NoTwice(p) /\ Len(p) \in Nat /\ m = Len(p)
        /\ 1 .. Len(p) \subseteq Slot /\ obj[o].slots \in SlotList
        /\ \A i \in 1 .. Len(p) : obj[o].slots[i] \in Values
        BY <1>1, ObjMeans
  <1>3. /\ SlotFree /\ n # 0 /\ trans' = trans
        /\ shapes' = Reshaped(w, old) /\ head' = ReshapedHead(w, old)
        BY DEF Delete, Reshaped, ReshapedHead, Flat
  <1>4. obj' = Compacted(o, n, NewSlot) BY DEF Delete
  <1>5. Changes(obj', o, x) BY <1>1, <1>4, CompactedIs
  <1>6. n \in 1 .. Len(p) /\ n \in Slot BY <1>3, FindPropMeans
  <1>7. Len(p) <= Cardinality(Keys) BY <1>2, FewKeys
  <1>8. m \in Nat /\ n \in 1 .. m BY <1>2, <1>6
  <1>9. x.shape = NewSlot /\ x.count = m - 1 /\ x.slots = e
        /\ x = [shape |-> x.shape, count |-> x.count, slots |-> x.slots]
        OBVIOUS
  <1> HIDE DEF p, n, m, x
  <1>10. /\ e \in SlotList
         /\ \A i \in 1 .. m - 1 : /\ i \in Slot
                                  /\ i < n => e[i] = obj[o].slots[i]
                                  /\ ~(i < n) => e[i] = obj[o].slots[i + 1]
         BY <1>2, <1>7, <1>8, ShiftedMeans
  <1> HIDE DEF e
  <1>11. w \in Seq(ShapeProperty) /\ Len(w) = Len(p) - 1 /\ NoTwice(w)
         BY <1>2, <1>6, RemovedMeans, NoTwiceRemove
  <1> HIDE DEF w
  <1>12. NewSlot \in LiveIn(shapes') /\ NewSlot \in Nat /\ Layout(shapes', NewSlot) = w
         BY <1>3, <1>11, ReshapedMeans
  <1>13. \A j \in Slot : j <= x.count => x.slots[j] \in Values
    <2> SUFFICES ASSUME NEW j \in Slot, j <= m - 1 PROVE e[j] \in Values
        BY <1>9
    <2>1. j \in Int /\ j >= 1
      <3>1. IsFiniteSet(Keys) BY SetsAssumption
      <3>2. Cardinality(Keys) \in Nat BY <3>1, FS_CardinalityType
      <3> QED BY <3>2 DEF Slot
    <2>2. j \in 1 .. m - 1 /\ j \in 1 .. m /\ j + 1 \in 1 .. m BY <1>8, <2>1
    <2>3. e[j] = obj[o].slots[j] \/ e[j] = obj[o].slots[j + 1] BY <1>10, <2>2
    <2> QED BY <1>2, <2>2, <2>3
  <1>14. HolderIs(shapes', x)
    <2>1. x.count \in Nat /\ x.count = Len(Layout(shapes', x.shape))
          BY <1>2, <1>8, <1>9, <1>11, <1>12
    <2> QED BY <1>9, <1>10, <1>12, <1>13, <2>1, HolderHolds
  <1> QED BY <1>3, <1>5, <1>6, <1>11, <1>14 DEF p, n, m, w, e, x

\* delete_prop keeps the invariant.
LEMMA DeleteKeeps ==
  ASSUME IdsFit, Sound, NEW o \in Objects, NEW k \in Keys, Delete(o, k)
  PROVE  SInv(shapes', head', trans', obj')
  <1> DEFINE old == obj[o].shape
             w == RemoveAt(Layout(shapes, old), FindProp(o, k))
             x == [shape |-> NewSlot, count |-> obj[o].count - 1,
                   slots |-> Shifted(obj[o].slots, obj[o].count, FindProp(o, k))]
  <1>1. /\ SlotFree /\ w \in Seq(ShapeProperty) /\ NoTwice(w)
        /\ shapes' = Reshaped(w, old) /\ head' = ReshapedHead(w, old)
        /\ Changes(obj', o, x) /\ HolderIs(shapes', x) /\ trans' = trans
        BY DeleteMeans
  <1>2. x.shape = NewSlot OBVIOUS
  <1> HIDE DEF w, x
  <1>3. Heap(shapes') /\ FreeListOk(shapes', head') /\ Swaps(shapes', old, NewSlot)
        BY <1>1, ReshapedMeans
  <1>4. SInv(shapes', head', trans, obj') BY <1>1, <1>2, <1>3, SwapKeeps
  <1> QED BY <1>1, <1>4

\* HObject.delete_prop of the last property: the object goes back to the root.
LEMMA DeleteLastMeans ==
  ASSUME IdsFit, Sound, NEW o \in Objects, NEW k \in Keys, DeleteLast(o, k)
  PROVE  LET old == obj[o].shape
             x == [shape |-> Root, count |-> obj[o].count - 1,
                   slots |-> Shifted(obj[o].slots, obj[o].count, 1)]
         IN  /\ Heap(shapes') /\ FreeListOk(shapes', head') /\ Drops(shapes, shapes', old)
             /\ Swaps(shapes', old, Root) /\ old \in LiveIn(shapes)
             /\ shapes[old].parent = Private <=> Frees(shapes, head, old)
             /\ Changes(obj', o, x) /\ HolderIs(shapes', x) /\ trans' = trans
             /\ obj[o].count = 1 /\ Len(Layout(shapes, old)) = 1
  <1> DEFINE old == obj[o].shape
             p == Layout(shapes, old)
             e == Shifted(obj[o].slots, obj[o].count, 1)
             x == [shape |-> Root, count |-> obj[o].count - 1, slots |-> e]
  <1>1. /\ Heap(shapes) /\ FreeListOk(shapes, head) /\ ObjOk(shapes, obj) /\ Objs
        /\ PrivateOk(shapes, trans, obj)
        BY SoundMeans
  <1>2. /\ p \in Seq(ShapeProperty) /\ NoTwice(p) /\ obj[o].count = Len(p)
        /\ obj[o].slots \in SlotList /\ old \in LiveIn(shapes)
        BY <1>1, ObjMeans
  <1>3. /\ obj[o].count = 1 /\ trans' = trans
        /\ shapes' = FreeSlot(shapes, head, old) /\ head' = FreeHead(shapes, head, old)
        BY DEF DeleteLast
  <1>4. obj' = Compacted(o, 1, Root) BY DEF DeleteLast
  <1>5. Changes(obj', o, x) BY <1>1, <1>4, CompactedIs
  <1>6. shapes[old].parent = Private => Unused(shapes, old)
    BY <1>1 DEF PrivateOk, AloneIs
  <1>7. /\ Heap(shapes') /\ FreeListOk(shapes', head') /\ Drops(shapes, shapes', old)
        /\ shapes[old].parent = Private <=> Frees(shapes, head, old)
        BY <1>1, <1>2, <1>3, <1>6, FreeIs
  <1>8. 1 <= Cardinality(Keys) BY <1>2, <1>3, FewKeys
  <1>9. e \in SlotList
    <2>1. 1 \in Nat /\ 1 \in 1 .. 1 OBVIOUS
    <2>2. Shifted(obj[o].slots, 1, 1) \in SlotList
      BY <1>2, <1>8, <2>1, ShiftedMeans
    <2> QED BY <1>3, <2>2
  <1>10. x.shape = Root /\ x.count = 0 /\ x.slots = e
         /\ x = [shape |-> x.shape, count |-> x.count, slots |-> x.slots]
         BY <1>3
  <1> HIDE DEF e, x
  <1>11. Layout(shapes', Root) = <<>> /\ Root \in LiveIn(shapes')
    BY <1>7, RootEmpty
  <1>12. HolderIs(shapes', x)
    <2>1. x.count \in Nat /\ x.count = Len(Layout(shapes', x.shape))
      BY <1>10, <1>11
    <2>2. \A j \in Slot : ~(j <= x.count)
      <3>1. IsFiniteSet(Keys) BY SetsAssumption
      <3>2. Cardinality(Keys) \in Nat BY <3>1, FS_CardinalityType
      <3> QED BY <1>10, <3>2 DEF Slot
    <2>3. Root \in Nat BY DEF Root
    <2> QED BY <1>9, <1>10, <1>11, <2>1, <2>2, <2>3, HolderHolds
  <1>13. Swaps(shapes', old, Root)
    <2>1. shapes'[Root].parent # Private
      BY <1>7 DEF Heap, Rooted, NoShape, Private
    <2> QED BY <1>7, <2>1 DEF Drops, Swaps
  <1> QED BY <1>2, <1>3, <1>5, <1>7, <1>12, <1>13 DEF x, e

\* So does deleting the last property.
LEMMA DeleteLastKeeps ==
  ASSUME IdsFit, Sound, NEW o \in Objects, NEW k \in Keys, DeleteLast(o, k)
  PROVE  SInv(shapes', head', trans', obj')
  <1> DEFINE old == obj[o].shape
             x == [shape |-> Root, count |-> obj[o].count - 1,
                   slots |-> Shifted(obj[o].slots, obj[o].count, 1)]
  <1>1. /\ Heap(shapes') /\ FreeListOk(shapes', head') /\ Swaps(shapes', old, Root)
        /\ Changes(obj', o, x) /\ HolderIs(shapes', x) /\ trans' = trans
        BY DeleteLastMeans
  <1>2. x.shape = Root OBVIOUS
  <1> HIDE DEF x
  <1>3. SInv(shapes', head', trans, obj') BY <1>1, <1>2, SwapKeeps
  <1> QED BY <1>1, <1>3

\* set_prop_flags without a slot for a private shape.
LEMMA InPlaceMeans ==
  ASSUME Sound, NEW o \in Objects, NEW k \in Keys, NEW v \in Values, NEW f \in Flags,
         SetFlagsInPlace(o, k, v, f)
  PROVE  Reflags(shapes, shapes') /\ AllocFails /\ UNCHANGED <<head, epoch, trans, refs, caches>>
  <1> DEFINE c == shapes[obj[o].shape].chain
             tt == [i \in DOMAIN shapes |->
                      IF i \in Range(c)
                      THEN [shapes[i] EXCEPT !.own = Reflagged(@, k, f)] ELSE shapes[i]]
  <1>1. Heap(shapes) /\ ObjOk(shapes, obj) BY SoundMeans
  <1>2. shapes' = tt /\ AllocFails /\ UNCHANGED <<head, epoch, trans, refs, caches>>
        BY DEF SetFlagsInPlace
  <1>3. obj[o].shape \in LiveIn(shapes) BY <1>1, ObjMeans
  <1>4. \A j \in 1 .. Len(c) : c[j] \in LiveIn(shapes) BY <1>1, <1>3, LiveMeans
  <1>5. Range(c) \subseteq LiveIn(shapes)
    <2>1. c \in Seq(Nat) BY <1>1, <1>3, LiveMeans
    <2>2. DOMAIN c = 1 .. Len(c) BY <2>1
    <2> HIDE DEF c
    <2> QED BY <1>4, <2>2 DEF Range
  <1> HIDE DEF c
  <1>6. ASSUME NEW i \in LiveIn(shapes)
        PROVE  /\ tt[i] \in LiveShape /\ tt[i].parent = shapes[i].parent
               /\ tt[i].chain = shapes[i].chain /\ tt[i].gen = shapes[i].gen
               /\ Keyed(shapes[i].own, tt[i].own)
    <2>1. i \in DOMAIN shapes BY DEF LiveIn
    <2>2. shapes[i] \in LiveShape BY <1>1, LiveMeans
    <2>3. shapes[i].own \in Seq(ShapeProperty) BY <2>2, ShapeMeans
    <2> DEFINE u == Reflagged(shapes[i].own, k, f)
    <2>4. u \in Seq(ShapeProperty) /\ Keyed(shapes[i].own, u)
      BY <2>3, ReflaggedMeans
    <2>5. Keyed(shapes[i].own, shapes[i].own) BY DEF Keyed
    <2>6. CASE i \in Range(c)
      <3>1. tt[i] = [shapes[i] EXCEPT !.own = u] BY <2>1, <2>6
      <3> HIDE DEF u, tt
      <3>2. tt[i] \in LiveShape /\ tt[i].own = u /\ tt[i].parent = shapes[i].parent
            /\ tt[i].chain = shapes[i].chain /\ tt[i].gen = shapes[i].gen
            BY <2>2, <2>4, <3>1 DEF LiveShape
      <3> QED BY <2>4, <3>2
    <2>7. CASE i \notin Range(c)
      <3>1. tt[i] = shapes[i] BY <2>1, <2>7
      <3> QED BY <2>2, <2>5, <3>1
    <2> QED BY <2>6, <2>7
  <1>7. \A i \in DOMAIN shapes \ LiveIn(shapes) : tt[i] = shapes[i] BY <1>5
  <1>8. tt = [i \in DOMAIN shapes |-> tt[i]] OBVIOUS
  <1> HIDE DEF tt
  <1> QED BY <1>2, <1>6, <1>7, <1>8 DEF Reflags

\* Writing the attributes in place keeps the invariant.
LEMMA InPlaceKeeps ==
  ASSUME Sound, NEW o \in Objects, NEW k \in Keys, NEW v \in Values, NEW f \in Flags,
         SetFlagsInPlace(o, k, v, f)
  PROVE  SInv(shapes', head', trans', obj')
  <1> DEFINE x == [shape |-> obj[o].shape, count |-> obj[o].count,
                   slots |-> Written(obj[o].slots, FindProp(o, k), v)]
  <1>1. Reflags(shapes, shapes') /\ AllocFails /\ head' = head /\ trans' = trans
        BY InPlaceMeans DEF caches
  <1>2. Heap(shapes) /\ FreeListOk(shapes, head) BY SoundMeans
  <1>3. /\ Heap(shapes') /\ FreeListOk(shapes', head) /\ LiveIn(shapes') = LiveIn(shapes)
        /\ \A i \in LiveIn(shapes) : Keyed(Layout(shapes, i), Layout(shapes', i))
        BY <1>1, <1>2, ReflagsKeeps
  <1>4. SInv(shapes, head, trans, obj')
    <2>1. obj' = Valued(o, k, v) BY DEF SetFlagsInPlace
    <2>2. Changes(obj', o, x) BY <2>1, SoundMeans, ValuedIs
    <2> QED BY <2>2, WriteKeeps
  <1>5. TransOk(shapes, trans) /\ ObjOk(shapes, obj') /\ PrivateOk(shapes, trans, obj')
        BY <1>4 DEF SInv
  <1>6. \A i \in LiveIn(shapes) : /\ shapes'[i].parent = shapes[i].parent
                                  /\ shapes'[i].chain = shapes[i].chain
                                  /\ Keyed(shapes[i].own, shapes'[i].own)
        BY <1>1 DEF Reflags
  <1>7. TransOk(shapes', trans)
    <2> SUFFICES ASSUME NEW t \in trans PROVE TransitionIs(shapes', t)
        BY DEF TransOk
    <2>1. TransitionIs(shapes, t) BY <1>5 DEF TransOk
    <2>2. t.parent \in LiveIn(shapes) /\ t.child \in LiveIn(shapes)
      BY <2>1 DEF TransitionIs
    <2>3. Len(shapes[t.child].own) = 1 /\ shapes[t.child].own[1].key = t.key
          BY <2>1 DEF TransitionIs
    <2>4. Len(shapes'[t.child].own) = 1 /\ shapes'[t.child].own[1].key = t.key
          BY <1>6, <2>2, <2>3 DEF Keyed
    <2> QED BY <1>1, <1>3, <1>6, <2>1, <2>2, <2>4 DEF TransitionIs
  <1>8. ObjOk(shapes', obj')
    <2>1. \A q \in Objects : HolderIs(shapes, obj'[q]) BY <1>5 DEF ObjOk
    <2>2. ASSUME NEW q \in Objects PROVE HolderIs(shapes', obj'[q])
      <3>1. obj'[q].shape \in LiveIn(shapes) BY <2>1 DEF HolderIs
      <3>2. Len(Layout(shapes', obj'[q].shape)) = Len(Layout(shapes, obj'[q].shape))
            BY <1>3, <3>1 DEF Keyed
      <3> QED BY <1>3, <2>1, <3>1, <3>2 DEF HolderIs
    <2> QED BY <1>5, <2>2 DEF ObjOk
  <1>9. PrivateOk(shapes', trans, obj')
    <2> SUFFICES ASSUME NEW q \in Objects PROVE AloneIs(shapes', trans, obj', q)
        BY DEF PrivateOk
    <2>1. AloneIs(shapes, trans, obj', q) BY <1>5 DEF PrivateOk
    <2>2. obj'[q].shape \in LiveIn(shapes) BY <1>5 DEF ObjOk, HolderIs
    <2>3. Unused(shapes, obj'[q].shape) => Unused(shapes', obj'[q].shape)
          BY <1>3, <1>6 DEF Unused
    <2> QED BY <1>6, <2>1, <2>2, <2>3 DEF AloneIs
  <1> QED BY <1>1, <1>3, <1>7, <1>8, <1>9 DEF SInv

---------------------------------------------------------------------------
(***************************************************************************)
(* Every step keeps the invariant, and what the invariant says.            *)
(***************************************************************************)

\* create leaves an array with the root shape only.
LEMMA InitSound ==
  ASSUME Init PROVE Sound
  <1> DEFINE r == Shape(NoShape, <<Root>>, <<>>, 0)
  <1>1. /\ shapes = [i \in {Root} |-> r] /\ head = FreeEnd /\ trans = {}
        /\ obj = [o \in Objects |-> [shape |-> Root, count |-> 0, slots |-> [i \in Slot |-> Cleared]]]
        BY DEF Init
  <1>2. r \in LiveShape /\ ~r.free /\ r.parent = NoShape /\ r.chain = <<Root>> /\ r.own = <<>>
    <2>1. <<Root>> \in Seq(Nat) /\ <<>> \in Seq(ShapeProperty) /\ NoShape \in Int /\ 0 \in Nat
          BY DEF Root, NoShape
    <2> QED BY <2>1 DEF Shape, LiveShape
  <1> HIDE DEF r
  <1>3. DOMAIN shapes = {Root} /\ shapes[Root] = r BY <1>1
  <1>4. LiveIn(shapes) = {Root} BY <1>2, <1>3 DEF LiveIn
  <1>5. IsArray(shapes)
    <2>1. 1 \in 1 .. MaxShapes /\ 0 .. 1 - 1 = {Root}
      BY MasksAssumption DEF Root
    <2>2. shapes \in [0 .. 1 - 1 -> LiveShape \cup FreeLink]
      BY <1>1, <1>2, <2>1
    <2> QED BY <2>1, <2>2 DEF IsArray
  <1>6. Rooted(shapes) BY <1>2, <1>3, <1>4 DEF Rooted
  <1>7. Layout(shapes, Root) = <<>>
    <2>1. Root \in Nat /\ shapes[Root].own \in Seq(ShapeProperty)
      <3>1. <<>> \in Seq(ShapeProperty) OBVIOUS
      <3> QED BY <1>2, <1>3, <3>1 DEF Root
    <2> QED BY <1>2, <1>3, <2>1, LayoutFlat
  <1>8. Chained(shapes, Root)
    <2> DEFINE d == shapes[Root].chain
    <2>0. d = <<Root>> BY <1>2, <1>3
    <2>1. Len(d) = 1 /\ d[1] = Root BY <2>0
    <2> HIDE DEF d
    <2>2. \A j \in 1 .. Len(d) : d[j] \in LiveIn(shapes) BY <1>4, <2>1
    <2> QED BY <2>1, <2>2 DEF Chained, d
  <1>9. NoTwice(Layout(shapes, Root)) BY <1>7 DEF NoTwice
  <1>10. Heap(shapes) BY <1>4, <1>5, <1>6, <1>8, <1>9 DEF Heap
  <1>11. FreeListOk(shapes, head)
    <2>1. FreeListIs(shapes, head, <<>>) BY <1>1, <1>3, <1>4 DEF FreeListIs
    <2> QED BY <2>1 DEF FreeListOk
  <1>12. TransOk(shapes, trans) BY <1>1 DEF TransOk
  <1>13. ASSUME NEW o \in Objects PROVE HolderIs(shapes, obj[o]) /\ obj[o].shape = Root
    <2> DEFINE e == [i \in Slot |-> Cleared]
               x == [shape |-> Root, count |-> 0, slots |-> e]
    <2>1. obj[o] = x BY <1>1
    <2>2. e \in SlotList BY DEF SlotList
    <2>3. x.shape = Root /\ x.count = 0 /\ x.slots = e
          /\ x = [shape |-> x.shape, count |-> x.count, slots |-> x.slots]
          OBVIOUS
    <2> HIDE DEF x, e
    <2>4. x.count \in Nat /\ x.count = Len(Layout(shapes, x.shape))
      BY <1>7, <2>3
    <2>5. \A j \in Slot : ~(j <= x.count)
      <3>1. IsFiniteSet(Keys) BY SetsAssumption
      <3>2. Cardinality(Keys) \in Nat BY <3>1, FS_CardinalityType
      <3> QED BY <2>3, <3>2 DEF Slot
    <2>6. Root \in Nat BY DEF Root
    <2>7. HolderIs(shapes, x)
      BY <1>4, <2>2, <2>3, <2>4, <2>5, <2>6, HolderHolds
    <2> QED BY <2>1, <2>3, <2>7
  <1>14. ObjOk(shapes, obj) BY <1>1, <1>13 DEF ObjOk
  <1>15. PrivateOk(shapes, trans, obj)
    <2>1. shapes[Root].parent # Private BY <1>2, <1>3 DEF NoShape, Private
    <2> QED BY <1>13, <2>1 DEF PrivateOk, AloneIs
  <1> QED BY <1>10, <1>11, <1>12, <1>14, <1>15 DEF Sound, SInv

\* HObject.put_prop of an existing key, and PUTPROP.
LEMMA WritesKeep ==
  ASSUME Sound, NEW o \in Objects, NEW k \in Keys, NEW v \in Values,
         \/ \E f \in Flags : PutSame(o, k, v, f)
         \/ AssignHit(o, k, v) \/ AssignSlow(o, k, v)
  PROVE  SInv(shapes', head', trans', obj')
  <1>1. Objs BY SoundMeans
  <1>2. shapes' = shapes /\ head' = head /\ trans' = trans
        BY DEF PutSame, AssignHit, AssignSlow
  <1>3. CASE (\E f \in Flags : PutSame(o, k, v, f)) \/ AssignSlow(o, k, v)
    <2>1. obj' = Valued(o, k, v) BY <1>3 DEF PutSame, AssignSlow
    <2>2. Changes(obj', o, [shape |-> obj[o].shape, count |-> obj[o].count,
                            slots |-> Written(obj[o].slots, FindProp(o, k), v)])
          BY <1>1, <2>1, ValuedIs
    <2> QED BY <1>2, <2>2, WriteKeeps
  <1>4. CASE AssignHit(o, k, v)
    <2>1. obj' = [obj EXCEPT ![o].slots[putic.slot] = v] BY <1>4 DEF AssignHit
    <2>2. Changes(obj', o, [shape |-> obj[o].shape, count |-> obj[o].count,
                            slots |-> Written(obj[o].slots, putic.slot, v)])
          BY <1>1, <2>1, AssignedIs
    <2> QED BY <1>2, <2>2, WriteKeeps
  <1> QED BY <1>3, <1>4

\* Every step keeps the shapes, the transitions and the objects together.
LEMMA StepSound ==
  ASSUME IdsFit, Sound, [Next]_vars
  PROVE  Sound'
  <1>1. ASSUME shapes' = shapes, head' = head, trans' = trans, obj' = obj PROVE Sound'
        BY <1>1 DEF Sound
  <1>2. CASE UNCHANGED vars BY <1>1, <1>2 DEF vars
  <1>3. ASSUME NEW o \in Objects, NEW k \in Keys, NEW v \in Values, NEW f \in Flags,
               \/ PutShared(o, k, v, f) \/ PutNew(o, k, v, f) \/ PutSame(o, k, v, f)
               \/ SetFlags(o, k, v, f) \/ SetFlagsInPlace(o, k, v, f)
        PROVE  Sound'
    <2>1. CASE PutShared(o, k, v, f)
      <3>1. shapes' = shapes /\ head' = head /\ trans' = trans
        BY <2>1 DEF PutShared
      <3>2. SInv(shapes, head, trans, obj') BY <2>1, SharedKeeps
      <3> QED BY <3>1, <3>2 DEF Sound
    <2>2. CASE PutNew(o, k, v, f) BY <2>2, NewKeeps DEF Sound
    <2>3. CASE PutSame(o, k, v, f) BY <2>3, WritesKeep DEF Sound
    <2>4. CASE SetFlags(o, k, v, f) BY <2>4, SetFlagsKeeps DEF Sound
    <2>5. CASE SetFlagsInPlace(o, k, v, f) BY <2>5, InPlaceKeeps DEF Sound
    <2> QED BY <1>3, <2>1, <2>2, <2>3, <2>4, <2>5
  <1>4. ASSUME NEW o \in Objects, NEW k \in Keys, Delete(o, k) \/ DeleteLast(o, k) PROVE Sound'
        BY <1>4, DeleteKeeps, DeleteLastKeeps DEF Sound
  <1>5. ASSUME NEW o \in Objects, NEW k \in Keys, GetHit(o, k) \/ GetMega(o, k) \/ GetWalk(o, k)
        PROVE  Sound'
        BY <1>1, <1>5 DEF GetHit, GetMega, GetWalk
  <1>6. ASSUME NEW o \in Objects, NEW k \in Keys, NEW v \in Values,
               AssignHit(o, k, v) \/ AssignSlow(o, k, v)
        PROVE  Sound'
        BY <1>6, WritesKeep DEF Sound
  <1> QED BY <1>2, <1>3, <1>4, <1>5, <1>6 DEF Next

\* What a private shape's being alone says of the variables.
LEMMA SoundPrivate ==
  ASSUME Sound PROVE PrivateUnshared
  <1>1. /\ Heap(shapes) /\ ObjOk(shapes, obj) /\ PrivateOk(shapes, trans, obj)
        /\ Live = LiveIn(shapes)
        BY SoundMeans
  <1>2. ASSUME NEW i \in LiveIn(shapes)
        PROVE  Range(shapes[i].chain) = {shapes[i].chain[j] : j \in 1 .. Len(shapes[i].chain)}
    <2>1. shapes[i].chain \in Seq(Nat) BY <1>1, LiveMeans
    <2>2. DOMAIN shapes[i].chain = 1 .. Len(shapes[i].chain) BY <2>1
    <2> QED BY <2>2 DEF Range
  <1> SUFFICES ASSUME NEW o \in Objects
               PROVE  LET s == obj[o].shape IN
                      /\ s \in Live /\ Range(shapes[s].chain) \subseteq Live
                      /\ shapes[s].parent = Private =>
                            /\ \A p \in Objects \ {o} : obj[p].shape # s
                            /\ \A i \in Live \ {s} : s \notin Range(shapes[i].chain)
                            /\ \A t \in trans : s \notin {t.parent, t.child}
      BY DEF PrivateUnshared
  <1> DEFINE s == obj[o].shape
  <1>3. s \in LiveIn(shapes) BY <1>1, ObjMeans
  <1>4. \A j \in 1 .. Len(shapes[s].chain) : shapes[s].chain[j] \in LiveIn(shapes)
        BY <1>1, <1>3, LiveMeans
  <1>5. Range(shapes[s].chain) \subseteq Live
    <2> DEFINE c == shapes[s].chain
    <2>1. Range(c) = {c[j] : j \in 1 .. Len(c)} BY <1>2, <1>3
    <2>2. \A j \in 1 .. Len(c) : c[j] \in Live BY <1>1, <1>4
    <2> HIDE DEF c
    <2>3. Range(c) \subseteq Live BY <2>1, <2>2
    <2> QED BY <2>3 DEF c
  <1>6. AloneIs(shapes, trans, obj, o) BY <1>1 DEF PrivateOk
  <1>7. ASSUME shapes[s].parent = Private
        PROVE  /\ \A p \in Objects \ {o} : obj[p].shape # s
               /\ \A i \in Live \ {s} : s \notin Range(shapes[i].chain)
               /\ \A t \in trans : s \notin {t.parent, t.child}
    <2>1. /\ \A p \in Objects \ {o} : obj[p].shape # s
          /\ Unused(shapes, s)
          /\ \A t \in trans : t.parent # s /\ t.child # s
          BY <1>6, <1>7 DEF AloneIs
    <2>2. \A i \in Live \ {s} : s \notin Range(shapes[i].chain)
      BY <1>1, <1>2, <2>1 DEF Unused
    <2> QED BY <2>1, <2>2
  <1> QED BY <1>1, <1>3, <1>5, <1>7

\* What the free list says of the variables: SHAPE_FREE_LINK_MASK.
LEMMA SoundLinks ==
  ASSUME IdsFit, Sound PROVE LinksFree
  <1>1. Heap(shapes) /\ FreeListOk(shapes, head) /\ Live = LiveIn(shapes)
    BY SoundMeans
  <1>2. PICK q : FreeListIs(shapes, head, q) BY <1>1 DEF FreeListOk
  <1>3. /\ q \in Seq(Nat) /\ Len(q) \in Nat
        /\ \A j \in 1 .. Len(q) : q[j] \in DOMAIN shapes \ LiveIn(shapes)
        /\ \A i \in DOMAIN shapes \ LiveIn(shapes) : \E j \in 1 .. Len(q) : q[j] = i
        /\ \A j \in 1 .. Len(q) : shapes[q[j]].next = IF j = Len(q) THEN FreeEnd ELSE q[j + 1]
        BY <1>2 DEF FreeListIs
  <1>4. head # FreeEnd => head \in DOMAIN shapes \ LiveIn(shapes)
    BY <1>1, HeadMeans DEF Heap
  <1>5. ASSUME NEW i \in DOMAIN shapes \ Live PROVE shapes[i].next \notin Live \ {FreeEnd}
    <2>1. PICK j \in 1 .. Len(q) : q[j] = i BY <1>1, <1>3
    <2>2. shapes[i].next = IF j = Len(q) THEN FreeEnd ELSE q[j + 1]
      BY <1>3, <2>1
    <2>3. CASE j = Len(q) BY <2>2, <2>3
    <2>4. CASE j # Len(q)
      <3>1. j + 1 \in 1 .. Len(q) BY <1>3, <2>4
      <3>2. q[j + 1] \notin LiveIn(shapes) BY <1>3, <3>1
      <3> QED BY <1>1, <2>2, <2>4, <3>2
    <2> QED BY <2>3, <2>4
  <1> QED BY <1>1, <1>4, <1>5 DEF LinksFree

---------------------------------------------------------------------------
(***************************************************************************)
(* The walk along the free list.                                           *)
(***************************************************************************)

\* The free list is no longer than the array.
LEMMA FreeListShort ==
  ASSUME NEW sh, IsArray(sh), NEW hd, NEW q, FreeListIs(sh, hd, q)
  PROVE  Len(q) <= MaxShapes /\ Len(q) \in Nat
  <1> DEFINE n == Len(q)
  <1>1. PICK m \in 1 .. MaxShapes : sh \in [0 .. m - 1 -> LiveShape \cup FreeLink]
    BY DEF IsArray
  <1>2. m \in Nat /\ MaxShapes \in Nat /\ m <= MaxShapes /\ m > 0
    BY <1>1, MasksAssumption
  <1>3. DOMAIN sh = 0 .. m - 1 BY <1>1
  <1>4. q \in Seq(Nat) /\ n \in Nat BY DEF FreeListIs
  <1>5. q \in [1 .. n -> 0 .. m - 1]
    <2>1. \A j \in 1 .. n : q[j] \in 0 .. m - 1 BY <1>3 DEF FreeListIs
    <2> HIDE DEF n
    <2>2. q = [j \in 1 .. n |-> q[j]] BY <1>4 DEF n
    <2> QED BY <2>1, <2>2
  <1>6. q \in Injection(1 .. n, 0 .. m - 1)
    BY <1>5 DEF FreeListIs, Injection, IsInjective
  <1> HIDE DEF n
  <1>7. IsFiniteSet(0 .. m - 1) /\ Cardinality(0 .. m - 1) = m
    <2>1. 0 \in Int /\ m - 1 \in Int BY <1>2
    <2>2. /\ IsFiniteSet(0 .. m - 1)
          /\ Cardinality(0 .. m - 1) = IF 0 > m - 1 THEN 0 ELSE (m - 1) - 0 + 1
          BY <2>1, FS_Interval
    <2> QED BY <1>2, <2>2
  <1>8. Cardinality(1 .. n) = n
    <2>1. 1 \in Int /\ n \in Int BY <1>4
    <2>2. Cardinality(1 .. n) = IF 1 > n THEN 0 ELSE n - 1 + 1
      BY <2>1, FS_Interval
    <2> QED BY <1>4, <2>2
  <1>9. Cardinality(1 .. n) <= Cardinality(0 .. m - 1)
    BY <1>6, <1>7, FS_Injection
  <1>10. n <= MaxShapes BY <1>2, <1>4, <1>7, <1>8, <1>9
  <1> QED BY <1>4, <1>10 DEF n

\* The first m members of s.
Pre(s, m) == [j \in 1 .. m |-> s[j]]
\* A prefix of a list.
LEMMA PreMeans ==
  ASSUME NEW s, NEW m \in Nat \ {0}, \A j \in 1 .. m : s[j] \in Nat
  PROVE  /\ Pre(s, m) \in Seq(Nat) /\ Len(Pre(s, m)) = m /\ Last(Pre(s, m)) = s[m]
         /\ \A j \in 1 .. m : Pre(s, m)[j] = s[j]
  <1> DEFINE p == Pre(s, m)
  <1>1. p \in [1 .. m -> Nat] /\ \A j \in 1 .. m : p[j] = s[j] BY DEF Pre
  <1> HIDE DEF p
  <1>2. p \in Seq(Nat) /\ Len(p) = m BY <1>1
  <1>3. p[m] = s[m] BY <1>1
  <1>4. Last(p) = s[m] BY <1>2, <1>3 DEF Last
  <1> QED BY <1>1, <1>2, <1>4 DEF p

\* The prefix that is one longer.
LEMMA PreGrows ==
  ASSUME NEW s, NEW m \in Nat \ {0}, \A j \in 1 .. m + 1 : s[j] \in Nat
  PROVE  Append(Pre(s, m), s[m + 1]) = Pre(s, m + 1)
  <1> DEFINE p == Pre(s, m)
             x == s[m + 1]
             q == Append(p, x)
  <1>1. \A j \in 1 .. m : j \in 1 .. m + 1 OBVIOUS
  <1>2. p \in Seq(Nat) /\ Len(p) = m /\ \A j \in 1 .. m : p[j] = s[j]
    BY <1>1, PreMeans
  <1>3. x \in Nat OBVIOUS
  <1> HIDE DEF p, x
  <1>4. /\ q \in Seq(Nat) /\ Len(q) = m + 1 /\ q[m + 1] = x
        /\ \A j \in 1 .. m : q[j] = p[j]
        BY <1>2, <1>3
  <1> HIDE DEF q
  <1>5. \A j \in 1 .. m + 1 : j \in 1 .. m \/ j = m + 1 OBVIOUS
  <1>6. \A j \in 1 .. m + 1 : q[j] = s[j] BY <1>2, <1>4, <1>5 DEF x
  <1>7. q = [j \in 1 .. m + 1 |-> q[j]]
    <2>1. q = [j \in 1 .. Len(q) |-> q[j]] BY <1>4
    <2> QED BY <1>4, <2>1
  <1>8. q = Pre(s, m + 1) BY <1>6, <1>7 DEF Pre
  <1> QED BY <1>8 DEF q, p, x

\* One step of FreeWalk, from the slots seen so far.
Walked(seen) ==
    IF Last(seen) \in DOMAIN shapes \ Live THEN Append(seen, shapes[Last(seen)].next) ELSE seen
WalkIs(w) == w = [i \in 0 .. MaxShapes |-> IF i = 0 THEN <<head>> ELSE Walked(w[i - 1])]

\* The walk along the free list goes through its slots and ends after the last.
LEMMA WalkMeans ==
  ASSUME IdsFit, Sound, NEW q, FreeListIs(shapes, head, q)
  PROVE  LET full == q \o <<FreeEnd>>
             n == Len(q)
         IN  /\ full \in Seq(Nat) /\ Len(full) = n + 1 /\ full[n + 1] = FreeEnd
             /\ \A j \in 1 .. n : full[j] = q[j]
             /\ FreeWalk = Pre(full, n + 1)
  <1> DEFINE full == q \o <<FreeEnd>>
             n == Len(q)
             At(i) == Pre(full, IF i <= n THEN i + 1 ELSE n + 1)
             W == [i \in 0 .. MaxShapes |-> At(i)]
  <1>1. Heap(shapes) /\ IsArray(shapes) /\ Live = LiveIn(shapes) /\ FreeListOk(shapes, head)
        BY SoundMeans DEF Heap
  <1>2. FreeEnd \in Nat /\ FreeEnd \notin DOMAIN shapes BY <1>1, HeadMeans
  <1>3. n <= MaxShapes /\ n \in Nat /\ MaxShapes \in Nat
    BY <1>1, FreeListShort, MasksAssumption
  <1>4. /\ q \in Seq(Nat)
        /\ \A j \in 1 .. n : q[j] \in DOMAIN shapes \ Live
        /\ head = IF n = 0 THEN FreeEnd ELSE q[1]
        /\ \A j \in 1 .. n : shapes[q[j]].next = IF j = n THEN FreeEnd ELSE q[j + 1]
        BY <1>1 DEF FreeListIs
  <1>5. /\ full \in Seq(Nat) /\ Len(full) = n + 1 /\ full[n + 1] = FreeEnd
        /\ \A j \in 1 .. n : full[j] = q[j]
        BY <1>2, <1>4
  <1> HIDE DEF full, n
  <1>6. \A j \in 1 .. n + 1 : full[j] \in Nat BY <1>5
  <1>7. head = full[1]
    <2>1. CASE n = 0
      <3>1. n + 1 = 1 BY <2>1
      <3> QED BY <1>4, <1>5, <2>1, <3>1
    <2>2. CASE n # 0
      <3>1. 1 \in 1 .. n BY <1>3, <2>2
      <3> QED BY <1>4, <1>5, <2>2, <3>1
    <2> QED BY <2>1, <2>2
  <1>8. \A j \in 1 .. n : shapes[full[j]].next = full[j + 1] /\ full[j] \in DOMAIN shapes \ Live
    <2> SUFFICES ASSUME NEW j \in 1 .. n
                 PROVE  shapes[full[j]].next = full[j + 1] /\ full[j] \in DOMAIN shapes \ Live
        OBVIOUS
    <2>1. full[j] = q[j] /\ q[j] \in DOMAIN shapes \ Live BY <1>4, <1>5
    <2>2. shapes[q[j]].next = IF j = n THEN FreeEnd ELSE q[j + 1] BY <1>4
    <2>3. j # n => j + 1 \in 1 .. n BY <1>3
    <2> QED BY <1>5, <2>1, <2>2, <2>3
  <1>9. At(0) = <<head>>
    <2>1. At(0) = Pre(full, 1) BY <1>3
    <2>2. Pre(full, 1) = [j \in 1 .. 1 |-> full[j]] BY DEF Pre
    <2>3. \A j \in 1 .. 1 : j = 1 OBVIOUS
    <2>4. Pre(full, 1) = [j \in 1 .. 1 |-> head] BY <1>7, <2>2, <2>3
    <2> QED BY <2>1, <2>4
  <1>10. ASSUME NEW i \in 1 .. MaxShapes PROVE At(i) = Walked(At(i - 1))
    <2>1. CASE i <= n
      <3>1. i \in 1 .. n /\ i \in Nat \ {0} /\ i - 1 <= n /\ (i - 1) + 1 = i
        BY <1>3, <2>1
      <3>2. At(i - 1) = Pre(full, i) /\ At(i) = Pre(full, i + 1) BY <2>1, <3>1
      <3>3. \A j \in 1 .. i + 1 : j \in 1 .. n + 1 BY <1>3, <3>1
      <3>4. \A j \in 1 .. i : j \in 1 .. i + 1 BY <3>1
      <3>5. Last(Pre(full, i)) = full[i] BY <1>6, <3>1, <3>3, <3>4, PreMeans
      <3>6. Append(Pre(full, i), full[i + 1]) = Pre(full, i + 1)
        BY <1>6, <3>1, <3>3, PreGrows
      <3> HIDE DEF At
      <3>7. Walked(Pre(full, i)) = Append(Pre(full, i), full[i + 1])
            BY <1>8, <3>1, <3>5 DEF Walked
      <3> QED BY <3>2, <3>6, <3>7
    <2>2. CASE ~(i <= n)
      <3>1. i - 1 <= n => (i - 1) + 1 = n + 1 BY <1>3, <2>2
      <3>2. At(i - 1) = Pre(full, n + 1) /\ At(i) = Pre(full, n + 1)
        BY <2>2, <3>1
      <3>3. n + 1 \in Nat \ {0} BY <1>3
      <3>4. Last(Pre(full, n + 1)) = full[n + 1] BY <1>6, <3>3, PreMeans
      <3> HIDE DEF At
      <3>5. Walked(Pre(full, n + 1)) = Pre(full, n + 1)
        BY <1>2, <1>5, <3>4 DEF Walked
      <3> QED BY <3>2, <3>5
    <2> QED BY <2>1, <2>2
  <1> HIDE DEF At
  <1>11. WalkIs(W)
    <2>1. \A i \in 0 .. MaxShapes : W[i] = At(i) OBVIOUS
    <2>2. \A i \in 0 .. MaxShapes : i = 0 \/ (i \in 1 .. MaxShapes /\ i - 1 \in 0 .. MaxShapes)
          BY <1>3
    <2> HIDE DEF W
    <2>3. \A i \in 0 .. MaxShapes : At(i) = IF i = 0 THEN <<head>> ELSE Walked(W[i - 1])
          BY <1>9, <1>10, <2>1, <2>2
    <2>4. W = [i \in 0 .. MaxShapes |-> IF i = 0 THEN <<head>> ELSE Walked(W[i - 1])]
          BY <2>3 DEF W
    <2> QED BY <2>4 DEF WalkIs
  <1> DEFINE w == CHOOSE u : WalkIs(u)
  <1>12. FreeWalk = w[MaxShapes] BY DEF FreeWalk, WalkIs, Walked
  <1>13. WalkIs(w) BY <1>11
  <1> HIDE DEF w, W
  <1>14. \A i \in 0 .. MaxShapes : w[i] = IF i = 0 THEN <<head>> ELSE Walked(w[i - 1])
    <2> DEFINE e == [i \in 0 .. MaxShapes |-> IF i = 0 THEN <<head>> ELSE Walked(w[i - 1])]
    <2>1. \A i \in 0 .. MaxShapes : e[i] = IF i = 0 THEN <<head>> ELSE Walked(w[i - 1]) OBVIOUS
    <2>2. w = e BY <1>13 DEF WalkIs
    <2> HIDE DEF e
    <2> QED BY <2>1, <2>2
  <1> DEFINE T == {i \in Nat : i \in 0 .. MaxShapes => w[i] = At(i)}
  <1>15. 0 \in T BY <1>9, <1>14
  <1>16. ASSUME NEW i \in Nat, i \in T PROVE i + 1 \in T
    <2> SUFFICES ASSUME i + 1 \in 0 .. MaxShapes PROVE w[i + 1] = At(i + 1)
        OBVIOUS
    <2>1. i \in 0 .. MaxShapes /\ i + 1 \in 1 .. MaxShapes /\ (i + 1) - 1 = i /\ i + 1 # 0
          BY <1>3
    <2>2. w[i] = At(i) BY <1>16, <2>1
    <2>3. w[i + 1] = Walked(w[i]) BY <1>14, <2>1
    <2>4. At(i + 1) = Walked(At(i)) BY <1>10, <2>1
    <2> QED BY <2>2, <2>3, <2>4
  <1>17. Nat \subseteq T
    <2> HIDE DEF T
    <2> QED BY <1>15, <1>16, SetInduction
  <1>18. w[MaxShapes] = At(MaxShapes) BY <1>3, <1>17
  <1>19. At(MaxShapes) = Pre(full, n + 1)
    <2>1. MaxShapes <= n => MaxShapes + 1 = n + 1 BY <1>3
    <2> QED BY <2>1 DEF At
  <1>20. FreeWalk = Pre(full, n + 1) BY <1>12, <1>18, <1>19
  <1> QED BY <1>5, <1>20 DEF full, n

\* The walk of FreeListSound is the list of the invariant.
LEMMA SoundFreeList ==
  ASSUME IdsFit, Sound PROVE FreeListSound
  <1>1. FreeListOk(shapes, head) /\ Live = LiveIn(shapes) /\ IsArray(shapes)
        BY SoundMeans DEF Heap
  <1>2. PICK q : FreeListIs(shapes, head, q) BY <1>1 DEF FreeListOk
  <1> DEFINE full == q \o <<FreeEnd>>
             n == Len(q)
             p == Pre(full, n + 1)
  <1>3. /\ full \in Seq(Nat) /\ Len(full) = n + 1 /\ full[n + 1] = FreeEnd
        /\ \A j \in 1 .. n : full[j] = q[j]
        /\ FreeWalk = p
        BY <1>2, WalkMeans
  <1>4. /\ q \in Seq(Nat) /\ n \in Nat
        /\ \A j \in 1 .. n : q[j] \in DOMAIN shapes \ Live
        /\ \A j, k \in 1 .. n : q[j] = q[k] => j = k
        /\ \A i \in DOMAIN shapes \ Live : \E j \in 1 .. n : q[j] = i
        BY <1>1, <1>2 DEF FreeListIs
  <1>5. FreeEnd \notin DOMAIN shapes BY <1>1, HeadMeans
  <1> HIDE DEF full, n
  <1>6. n + 1 \in Nat \ {0} /\ \A j \in 1 .. n + 1 : full[j] \in Nat
    BY <1>3, <1>4
  <1>7. /\ p \in Seq(Nat) /\ Len(p) = n + 1 /\ Last(p) = FreeEnd
        /\ \A j \in 1 .. n + 1 : p[j] = full[j]
        BY <1>3, <1>6, PreMeans
  <1> HIDE DEF p
  <1>8. \A j \in 1 .. n + 1 : j \in 1 .. n \/ j = n + 1 BY <1>4
  <1>9. \A j \in 1 .. n : p[j] = q[j] /\ j \in 1 .. n + 1 BY <1>3, <1>4, <1>7
  <1>10. p[n + 1] = FreeEnd BY <1>3, <1>6, <1>7
  <1>11. IsInjective(p)
    <2>1. DOMAIN p = 1 .. n + 1 BY <1>7
    <2>2. \A j \in 1 .. n : p[j] # FreeEnd BY <1>4, <1>5, <1>9
    <2> SUFFICES ASSUME NEW j \in 1 .. n + 1, NEW k \in 1 .. n + 1, p[j] = p[k] PROVE j = k
        BY <2>1 DEF IsInjective
    <2>3. CASE j \in 1 .. n /\ k \in 1 .. n BY <1>4, <1>9, <2>3
    <2>4. CASE j = n + 1 /\ k = n + 1 BY <2>4
    <2>5. CASE j \in 1 .. n /\ k = n + 1 BY <1>10, <2>2, <2>5
    <2>6. CASE j = n + 1 /\ k \in 1 .. n BY <1>10, <2>2, <2>6
    <2> QED BY <1>8, <2>3, <2>4, <2>5, <2>6
  <1>12. Range(Front(p)) = DOMAIN shapes \ Live
    <2> DEFINE h == Front(p)
    <2>1. h = SubSeq(p, 1, (n + 1) - 1) BY <1>7 DEF Front
    <2>2. (n + 1) - 1 = n /\ n <= Len(p) BY <1>4, <1>7
    <2> HIDE DEF h
    <2>3. h = SubSeq(p, 1, n) BY <2>1, <2>2
    <2>4. h \in Seq(Nat) /\ Len(h) = n /\ \A j \in 1 .. n : h[j] = p[j]
          BY <1>4, <1>7, <2>2, <2>3
    <2>5. DOMAIN h = 1 .. n BY <2>4
    <2>6. \A j \in 1 .. n : h[j] = q[j] BY <1>9, <2>4
    <2>7. Range(h) = {h[j] : j \in 1 .. n} BY <2>5 DEF Range
    <2>8. Range(h) = DOMAIN shapes \ Live BY <1>4, <2>6, <2>7
    <2> QED BY <2>8 DEF h
  <1> QED BY <1>3, <1>7, <1>11, <1>12 DEF FreeListSound

---------------------------------------------------------------------------
(***************************************************************************)
(* How the array evolves: an id and a generation name one shape.           *)
(***************************************************************************)

\* No live shape has a generation that the free list would cut.
Unwrapped == \A i \in Live : shapes[i].gen <= GenMask

\* From sh at epoch ep to tt at ep1: an id that names a live shape names the one
\* it named, with the same properties, or both its generation and the epoch moved on.
Remains(sh, tt, i) ==
    /\ i \in LiveIn(sh) /\ tt[i].gen = sh[i].gen /\ Keyed(Layout(sh, i), Layout(tt, i))
    /\ ~AllocFails => Layout(tt, i) = Layout(sh, i)
Evolves(sh, ep, tt, ep1) ==
    /\ ep \in Nat /\ ep1 \in Nat /\ ep <= ep1
    /\ \A i \in DOMAIN sh : /\ i \in DOMAIN tt /\ sh[i].gen \in Nat /\ tt[i].gen \in Nat
                            /\ sh[i].gen <= tt[i].gen
    /\ \A i \in DOMAIN sh \cap LiveIn(tt) :
          Remains(sh, tt, i) \/ (sh[i].gen < tt[i].gen /\ ep < ep1)

\* Nothing changes.
LEMMA EvolvesSame ==
  ASSUME NEW sh, Heap(sh), NEW ep \in Nat
  PROVE  Evolves(sh, ep, sh, ep)
  <1>1. \A i \in DOMAIN sh : sh[i].gen \in Nat BY ArrayMeans DEF Heap
  <1>2. \A i \in LiveIn(sh) : Remains(sh, sh, i) BY DEF Remains, Keyed
  <1> QED BY <1>1, <1>2 DEF Evolves

\* A slot that is recycled gets another generation, in another epoch.
LEMMA EvolvesStored ==
  ASSUME IdsFit, Sound, SlotFree, epoch \in Nat, NEW r, Fitting(r), r.gen = NewGen
  PROVE  Evolves(shapes, epoch, Stored(r), NewEpoch)
  <1> DEFINE tt == Stored(r)
             s == NewSlot
  <1>1. Heap(shapes) /\ FreeListOk(shapes, head) BY SoundMeans
  <1>2. r \in LiveShape BY DEF Fitting
  <1>3. /\ DOMAIN tt = DOMAIN shapes \cup {s} /\ s \notin LiveIn(shapes)
        /\ LiveIn(tt) = LiveIn(shapes) \cup {s} /\ tt[s] = r
        /\ \A i \in DOMAIN shapes \ {s} : tt[i] = shapes[i]
        /\ s \in DOMAIN shapes <=> Recycles
        /\ NewGen \in Nat
        /\ Recycles => NewGen = shapes[s].gen + 1
        BY <1>1, <1>2, StoredIs
  <1>4. \A i \in LiveIn(shapes) : tt[i] = shapes[i] /\ Layout(tt, i) = Layout(shapes, i)
        BY BesideIs DEF Beside
  <1> HIDE DEF tt
  <1>5. \A i \in DOMAIN shapes : shapes[i].gen \in Nat
    BY <1>1, ArrayMeans DEF Heap
  <1>6. NewEpoch \in Nat /\ epoch <= NewEpoch /\ (Recycles => epoch < NewEpoch)
    BY DEF NewEpoch
  <1>7. s \in DOMAIN shapes => /\ tt[s].gen \in Nat /\ shapes[s].gen < tt[s].gen /\ epoch < NewEpoch
                               /\ shapes[s].gen <= tt[s].gen
        BY <1>3, <1>5, <1>6
  <1>8. \A i \in DOMAIN shapes : /\ i \in DOMAIN tt /\ tt[i].gen \in Nat
                                 /\ shapes[i].gen <= tt[i].gen
        BY <1>3, <1>5, <1>7
  <1>9. \A i \in LiveIn(shapes) : Remains(shapes, tt, i)
    BY <1>4 DEF Remains, Keyed
  <1>10. \A i \in DOMAIN shapes \cap LiveIn(tt) :
            Remains(shapes, tt, i) \/ (shapes[i].gen < tt[i].gen /\ epoch < NewEpoch)
         BY <1>3, <1>7, <1>9
  <1> QED BY <1>5, <1>6, <1>8, <1>10 DEF Evolves, tt

\* A slot that is freed keeps its generation.
LEMMA EvolvesDrops ==
  ASSUME NEW sh, NEW ep, NEW tt, NEW ep1, Evolves(sh, ep, tt, ep1), Heap(tt),
         NEW uu, NEW old, Drops(tt, uu, old), tt[old].gen <= GenMask
  PROVE  Evolves(sh, ep, uu, ep1)
  <1>1. DOMAIN uu = DOMAIN tt /\ \A i \in DOMAIN tt : uu[i].gen = tt[i].gen
    BY DEF Drops
  <1>2. ASSUME NEW i \in LiveIn(uu)
        PROVE  i \in LiveIn(tt) /\ uu[i] = tt[i] /\ Layout(uu, i) = Layout(tt, i)
        BY DEF Drops
  <1>3. ASSUME NEW i \in DOMAIN sh \cap LiveIn(uu)
        PROVE  Remains(sh, uu, i) \/ (sh[i].gen < uu[i].gen /\ ep < ep1)
    <2>1. i \in LiveIn(tt) /\ uu[i] = tt[i] /\ Layout(uu, i) = Layout(tt, i)
      BY <1>2
    <2>2. Remains(sh, tt, i) \/ (sh[i].gen < tt[i].gen /\ ep < ep1)
      BY <2>1 DEF Evolves
    <2> QED BY <2>1, <2>2 DEF Remains
  <1> QED BY <1>1, <1>3 DEF Evolves

\* Every step lets the shapes evolve.
LEMMA StepEvolves ==
  ASSUME IdsFit, Sound, Unwrapped, epoch \in Nat, [Next]_vars
  PROVE  Evolves(shapes, epoch, shapes', epoch')
  <1>1. Heap(shapes) /\ FreeListOk(shapes, head) /\ ObjOk(shapes, obj) /\ Live = LiveIn(shapes)
        BY SoundMeans
  <1>2. ASSUME shapes' = shapes, epoch' = epoch PROVE Evolves(shapes, epoch, shapes', epoch')
        BY <1>1, <1>2, EvolvesSame
  <1>3. \A o \in Objects : obj[o].shape \in LiveIn(shapes) /\ shapes[obj[o].shape].gen <= GenMask
        BY <1>1, ObjMeans DEF Unwrapped
  <1>4. ASSUME SlotFree, NEW o \in Objects, NEW w \in Seq(ShapeProperty), NoTwice(w),
               shapes' = Reshaped(w, obj[o].shape), epoch' = NewEpoch
        PROVE  Evolves(shapes, epoch, shapes', epoch')
    <2> DEFINE old == obj[o].shape
               tt == Stored(Flat(w))
    <2>1. Fitting(Flat(w)) /\ Flat(w).gen = NewGen BY <1>4, FlatMeans
    <2>2. Evolves(shapes, epoch, tt, NewEpoch) BY <1>4, <2>1, EvolvesStored
    <2>3. Beside(tt, NewSlot) /\ Drops(tt, shapes', old) /\ tt[old] = shapes[old]
          BY <1>4, ReshapedMeans
    <2>4. Heap(tt) /\ tt[old].gen <= GenMask BY <1>3, <2>3 DEF Beside
    <2> HIDE DEF tt
    <2> QED BY <1>4, <2>2, <2>3, <2>4, EvolvesDrops
  <1>5. ASSUME NEW o \in Objects, NEW k \in Keys, NEW v \in Values, NEW f \in Flags,
               \/ PutShared(o, k, v, f) \/ PutNew(o, k, v, f) \/ PutSame(o, k, v, f)
               \/ SetFlags(o, k, v, f) \/ SetFlagsInPlace(o, k, v, f)
        PROVE  Evolves(shapes, epoch, shapes', epoch')
    <2>1. CASE PutShared(o, k, v, f) \/ PutSame(o, k, v, f)
          BY <1>2, <2>1 DEF PutShared, PutSame
    <2>2. CASE PutNew(o, k, v, f)
      <3> DEFINE r == Child(obj[o].shape, k, f)
      <3>1. /\ SlotFree /\ shapes' = Stored(r) /\ epoch' = NewEpoch /\ FindProp(o, k) = 0
            BY <2>2 DEF PutNew, Child
      <3>2. \A j \in 1 .. Len(Layout(shapes, obj[o].shape)) :
               Layout(shapes, obj[o].shape)[j].key # k
            BY <3>1, FindPropMeans
      <3>3. Fitting(r) /\ r.gen = NewGen BY <1>3, <3>1, <3>2, ChildMeans
      <3> QED BY <3>1, <3>3, EvolvesStored
    <2>3. CASE SetFlags(o, k, v, f)
      <3> DEFINE w == Reflagged(Layout(shapes, obj[o].shape), k, f)
      <3>1. /\ SlotFree /\ w \in Seq(ShapeProperty) /\ NoTwice(w)
            /\ shapes' = Reshaped(w, obj[o].shape)
            BY <2>3, SetFlagsMeans
      <3>2. epoch' = NewEpoch BY <2>3 DEF SetFlags
      <3> HIDE DEF w
      <3> QED BY <1>4, <3>1, <3>2
    <2>4. CASE SetFlagsInPlace(o, k, v, f)
      <3>1. Reflags(shapes, shapes') /\ AllocFails /\ epoch' = epoch
            BY <2>4, InPlaceMeans
      <3>2. /\ LiveIn(shapes') = LiveIn(shapes) /\ DOMAIN shapes' = DOMAIN shapes
            /\ \A i \in LiveIn(shapes) : Keyed(Layout(shapes, i), Layout(shapes', i))
            BY <1>1, <3>1, ReflagsKeeps
      <3>3. \A i \in LiveIn(shapes) : shapes'[i].gen = shapes[i].gen
        BY <3>1 DEF Reflags
      <3>4. \A i \in DOMAIN shapes \ LiveIn(shapes) : shapes'[i] = shapes[i]
        BY <3>1 DEF Reflags
      <3>5. \A i \in DOMAIN shapes : shapes[i].gen \in Nat /\ shapes'[i].gen = shapes[i].gen
            BY <1>1, <3>3, <3>4, ArrayMeans DEF Heap
      <3>6. \A i \in LiveIn(shapes) : Remains(shapes, shapes', i)
            BY <3>1, <3>2, <3>3 DEF Remains
      <3> QED BY <3>1, <3>2, <3>5, <3>6 DEF Evolves
    <2> QED BY <1>5, <2>1, <2>2, <2>3, <2>4
  <1>6. ASSUME NEW o \in Objects, NEW k \in Keys, Delete(o, k) \/ DeleteLast(o, k)
        PROVE  Evolves(shapes, epoch, shapes', epoch')
    <2>1. CASE Delete(o, k)
      <3> DEFINE w == RemoveAt(Layout(shapes, obj[o].shape), FindProp(o, k))
      <3>1. /\ SlotFree /\ w \in Seq(ShapeProperty) /\ NoTwice(w)
            /\ shapes' = Reshaped(w, obj[o].shape)
            BY <2>1, DeleteMeans
      <3>2. epoch' = NewEpoch BY <2>1 DEF Delete
      <3> HIDE DEF w
      <3> QED BY <1>4, <3>1, <3>2
    <2>2. CASE DeleteLast(o, k)
      <3>1. Drops(shapes, shapes', obj[o].shape) BY <2>2, DeleteLastMeans
      <3>2. epoch' = epoch BY <2>2 DEF DeleteLast
      <3>3. Evolves(shapes, epoch, shapes, epoch) BY <1>1, EvolvesSame
      <3> QED BY <1>1, <1>3, <3>1, <3>2, <3>3, EvolvesDrops
    <2> QED BY <1>6, <2>1, <2>2
  <1>7. ASSUME NEW o \in Objects, NEW k \in Keys, GetHit(o, k) \/ GetMega(o, k) \/ GetWalk(o, k)
        PROVE  Evolves(shapes, epoch, shapes', epoch')
        BY <1>2, <1>7 DEF GetHit, GetMega, GetWalk
  <1>8. ASSUME NEW o \in Objects, NEW k \in Keys, NEW v \in Values,
               AssignHit(o, k, v) \/ AssignSlow(o, k, v)
        PROVE  Evolves(shapes, epoch, shapes', epoch')
        BY <1>2, <1>8 DEF AssignHit, AssignSlow
  <1>9. CASE UNCHANGED vars BY <1>2, <1>9 DEF vars
  <1> QED BY <1>5, <1>6, <1>7, <1>8, <1>9 DEF Next

---------------------------------------------------------------------------
(***************************************************************************)
(* What the caches remember.                                               *)
(***************************************************************************)

\* What an inline cache holds is an object, a slot and a key, whatever became of them.
SiteIs(e) == e # NoEntry => e.owner \in Objects /\ e.slot \in Slot /\ e.key \in Keys
SitesFit == SiteIs(getic) /\ SiteIs(putic) /\ SiteIs(mega)

\* An entry of a site whose id and generation are those of a live shape still says
\* where the key is in it, and with which attributes.
ICPoints(ic, sh) ==
    /\ Find(sh, ic.shape, ic.key) = ic.slot
    /\ ~AllocFails => Layout(sh, ic.shape)[ic.slot].flags = ic.flags
ICRight(ic, sh) ==
    ic # NoEntry =>
        /\ ic.shape \in DOMAIN sh /\ ic.chain = <<>>
        /\ ic.gen \in Nat /\ ic.gen <= sh[ic.shape].gen
        /\ ic.shape \in LiveIn(sh) /\ sh[ic.shape].gen = ic.gen => ICPoints(ic, sh)

\* An entry of the megamorphic cache of this epoch says where the key is and
\* that the receiver does not shadow it.
MegaPoints(e, sh) ==
    /\ e.shape \in LiveIn(sh) => /\ e.own => Find(sh, e.shape, e.key) = e.slot
                                 /\ ~e.own => Find(sh, e.shape, e.key) = 0
    /\ e.ownerShape \in LiveIn(sh) => Find(sh, e.ownerShape, e.key) = e.slot
MegaRight(e, sh, ep) ==
    e # NoEntry =>
        /\ e.shape \in DOMAIN sh /\ e.ownerShape \in DOMAIN sh
        /\ e.epoch \in Nat /\ e.epoch <= ep
        /\ e.epoch = ep => MegaPoints(e, sh)

\* What the sites and the cache hold now.
CachesSound ==
    /\ SitesFit /\ epoch \in Nat
    /\ ICRight(getic, shapes) /\ ICRight(putic, shapes) /\ MegaRight(mega, shapes, epoch)
    /\ "put" \notin Caches => putic = NoEntry

\* A live id of the same generation names the same shape.
LEMMA ICKeeps ==
  ASSUME NEW ic, NEW sh, ICRight(ic, sh), NEW ep, NEW tt, NEW ep1, Evolves(sh, ep, tt, ep1)
  PROVE  ICRight(ic, tt)
  <1> SUFFICES ASSUME ic # NoEntry
               PROVE  /\ ic.shape \in DOMAIN tt /\ ic.chain = <<>>
                      /\ ic.gen \in Nat /\ ic.gen <= tt[ic.shape].gen
                      /\ ic.shape \in LiveIn(tt) /\ tt[ic.shape].gen = ic.gen => ICPoints(ic, tt)
      BY DEF ICRight
  <1> DEFINE s == ic.shape
             g == sh[s].gen
             h == tt[s].gen
  <1>1. /\ s \in DOMAIN sh /\ ic.chain = <<>> /\ ic.gen \in Nat /\ ic.gen <= g
        /\ s \in LiveIn(sh) /\ g = ic.gen => ICPoints(ic, sh)
        BY DEF ICRight
  <1>2. s \in DOMAIN tt /\ g \in Nat /\ h \in Nat /\ g <= h BY <1>1 DEF Evolves
  <1>3. s \in LiveIn(tt) => Remains(sh, tt, s) \/ g < h BY <1>1 DEF Evolves
  <1>4. ASSUME s \in LiveIn(tt), h = ic.gen PROVE ICPoints(ic, tt)
    <2>1. g = ic.gen /\ ~(g < h)
      <3> HIDE DEF g, h
      <3> QED BY <1>1, <1>2, <1>4
    <2>2. Remains(sh, tt, s) BY <1>3, <1>4, <2>1
    <2>3. ICPoints(ic, sh) BY <1>1, <2>1, <2>2 DEF Remains
    <2>4. Keyed(Layout(sh, s), Layout(tt, s)) /\ (~AllocFails => Layout(tt, s) = Layout(sh, s))
          BY <2>2 DEF Remains
    <2>5. Find(tt, s, ic.key) = Find(sh, s, ic.key) BY <2>4, FindSame
    <2> QED BY <2>3, <2>4, <2>5 DEF ICPoints
  <1>5. ic.gen <= h
    <2> HIDE DEF g, h
    <2> QED BY <1>1, <1>2
  <1> QED BY <1>1, <1>2, <1>4, <1>5

\* In the same epoch every live id names the same shape.
LEMMA MegaKeeps ==
  ASSUME NEW e, NEW sh, NEW ep, MegaRight(e, sh, ep), NEW tt, NEW ep1, Evolves(sh, ep, tt, ep1)
  PROVE  MegaRight(e, tt, ep1)
  <1> SUFFICES ASSUME e # NoEntry
               PROVE  /\ e.shape \in DOMAIN tt /\ e.ownerShape \in DOMAIN tt
                      /\ e.epoch \in Nat /\ e.epoch <= ep1
                      /\ e.epoch = ep1 => MegaPoints(e, tt)
      BY DEF MegaRight
  <1>1. /\ e.shape \in DOMAIN sh /\ e.ownerShape \in DOMAIN sh
        /\ e.epoch \in Nat /\ e.epoch <= ep
        /\ e.epoch = ep => MegaPoints(e, sh)
        BY DEF MegaRight
  <1>2. ep \in Nat /\ ep1 \in Nat /\ ep <= ep1 /\ DOMAIN sh \subseteq DOMAIN tt
    BY DEF Evolves
  <1>3. ASSUME e.epoch = ep1 PROVE MegaPoints(e, tt)
    <2>1. e.epoch = ep /\ ~(ep < ep1) BY <1>1, <1>2, <1>3
    <2>2. MegaPoints(e, sh) BY <1>1, <2>1
    <2>3. \A i \in DOMAIN sh \cap LiveIn(tt) : Remains(sh, tt, i)
      BY <2>1 DEF Evolves
    <2>4. \A i \in DOMAIN sh \cap LiveIn(tt) :
             i \in LiveIn(sh) /\ Find(tt, i, e.key) = Find(sh, i, e.key)
      <3> SUFFICES ASSUME NEW i \in DOMAIN sh \cap LiveIn(tt)
                   PROVE  i \in LiveIn(sh) /\ Find(tt, i, e.key) = Find(sh, i, e.key)
          OBVIOUS
      <3>1. i \in LiveIn(sh) /\ Keyed(Layout(sh, i), Layout(tt, i))
        BY <2>3 DEF Remains
      <3> QED BY <3>1, FindSame
    <2> QED BY <1>1, <2>2, <2>4 DEF MegaPoints
  <1> QED BY <1>1, <1>2, <1>3

\* What a site that found the property on the receiver itself remembers.
LEMMA EntryRight ==
  ASSUME Sound, NEW o \in Objects, NEW k \in Keys, FindProp(o, k) # 0
  PROVE  ICRight(Entry(o, k, o), shapes)
  <1> DEFINE e == Entry(o, k, o)
             s == obj[o].shape
  <1>1. /\ e.shape = s /\ e.gen = shapes[s].gen /\ e.key = k /\ e.chain = <<>>
        /\ e.slot = FindProp(o, k) /\ e.flags = FlagsOf(o, k)
        BY DEF Entry, ChainTo, Generation
  <1> HIDE DEF e
  <1>2. Heap(shapes) /\ s \in LiveIn(shapes) BY SoundMeans, ObjMeans
  <1>3. s \in DOMAIN shapes /\ shapes[s].gen \in Nat
    BY <1>2, ArrayMeans DEF Heap, LiveIn
  <1>4. FindProp(o, k) = Find(shapes, s, k) /\ Layout(shapes, s)[FindProp(o, k)].flags = FlagsOf(o, k)
        BY FindPropMeans
  <1>5. ICPoints(e, shapes) BY <1>1, <1>4 DEF ICPoints
  <1>6. e.gen <= shapes[e.shape].gen BY <1>1, <1>3
  <1> QED BY <1>1, <1>3, <1>5, <1>6 DEF ICRight, e

\* What a walk leaves in the megamorphic cache.
LEMMA MegaEntryRight ==
  ASSUME Sound, epoch \in Nat, NEW o \in Objects, NEW k \in Keys, NEW owner \in Objects,
         FindProp(owner, k) # 0, owner # o => FindProp(o, k) = 0
  PROVE  MegaRight(MegaEntry(o, k, owner), shapes, epoch)
  <1> DEFINE e == MegaEntry(o, k, owner)
             s == obj[o].shape
             t == obj[owner].shape
  <1>1. /\ e.shape = s /\ e.ownerShape = t /\ e.key = k /\ (e.own <=> owner = o)
        /\ e.epoch = epoch /\ e.slot = FindProp(owner, k)
        BY DEF MegaEntry
  <1> HIDE DEF e
  <1>2. s \in LiveIn(shapes) /\ t \in LiveIn(shapes) BY SoundMeans, ObjMeans
  <1>3. s \in DOMAIN shapes /\ t \in DOMAIN shapes BY <1>2 DEF LiveIn
  <1>4. FindProp(o, k) = Find(shapes, s, k) /\ FindProp(owner, k) = Find(shapes, t, k)
        BY FindPropMeans
  <1>5. MegaPoints(e, shapes) BY <1>1, <1>4 DEF MegaPoints
  <1> QED BY <1>1, <1>3, <1>5 DEF MegaRight, e

\* The owner of a property.
LEMMA OwnerMeans ==
  ASSUME NEW o \in Objects, NEW k \in Keys, Owner(o, k) # None
  PROVE  /\ Owner(o, k) \in Objects /\ FindProp(Owner(o, k), k) # 0
         /\ Owner(o, k) # o => FindProp(o, k) = 0
  <1>1. Prototype[o] # None => Prototype[o] \in Objects BY SetsAssumption
  <1> QED BY <1>1 DEF Owner

\* The entries an object's slots.
LEMMA SiteFits ==
  ASSUME Sound, NEW o \in Objects, NEW k \in Keys, NEW owner \in Objects, FindProp(owner, k) # 0
  PROVE  SiteIs(Entry(o, k, owner)) /\ SiteIs(MegaEntry(o, k, owner))
  <1>1. FindProp(owner, k) \in Slot BY FindPropMeans
  <1>2. /\ Entry(o, k, owner).owner = owner /\ Entry(o, k, owner).key = k
        /\ Entry(o, k, owner).slot = FindProp(owner, k)
        BY DEF Entry
  <1>3. /\ MegaEntry(o, k, owner).owner = owner /\ MegaEntry(o, k, owner).key = k
        /\ MegaEntry(o, k, owner).slot = FindProp(owner, k)
        BY DEF MegaEntry
  <1> QED BY <1>1, <1>2, <1>3 DEF SiteIs

---------------------------------------------------------------------------
(***************************************************************************)
(* Every step keeps the caches right.                                      *)
(***************************************************************************)

\* A reading site that is filled holds what the walk found.
LEMMA FillMeans ==
  ASSUME NEW o, NEW k, NEW owner, Fill(o, k, owner)
  PROVE  /\ getic' = getic \/ getic' = Entry(o, k, owner)
         /\ getic' = getic \/ "getpropc" \in Caches \/ owner = o
         /\ refs' = refs \/ refs' = RefsOnFill(getic, k)
  BY DEF Fill, Cacheable

\* What each step does to the caches.
LEMMA StepCaches ==
  ASSUME [Next]_vars, SitesFit
  PROVE  /\ \/ getic' = getic
            \/ \E o \in Objects, k \in Keys, owner \in Objects :
                  /\ FindProp(owner, k) # 0 /\ getic' = Entry(o, k, owner)
                  /\ "getpropc" \in Caches \/ owner = o
         /\ \/ putic' = putic
            \/ \E o \in Objects, k \in Keys :
                  FindProp(o, k) # 0 /\ putic' = Entry(o, k, o) /\ "put" \in Caches
         /\ \/ mega' = mega
            \/ \E o \in Objects, k \in Keys, owner \in Objects :
                  /\ FindProp(owner, k) # 0 /\ mega' = MegaEntry(o, k, owner)
                  /\ owner # o => FindProp(o, k) = 0
         /\ \/ getic' = getic /\ putic' = putic /\ mega' = mega
            \/ shapes' = shapes /\ epoch' = epoch
  <1> DEFINE Same == getic' = getic /\ putic' = putic /\ mega' = mega
             Still == shapes' = shapes /\ epoch' = epoch
             GetIs == \E o \in Objects, k \in Keys, owner \in Objects :
                  /\ FindProp(owner, k) # 0 /\ getic' = Entry(o, k, owner)
                  /\ "getpropc" \in Caches \/ owner = o
             PutIs == \E o \in Objects, k \in Keys :
                  FindProp(o, k) # 0 /\ putic' = Entry(o, k, o) /\ "put" \in Caches
             MegaIs == \E o \in Objects, k \in Keys, owner \in Objects :
                  /\ FindProp(owner, k) # 0 /\ mega' = MegaEntry(o, k, owner)
                  /\ owner # o => FindProp(o, k) = 0
  <1> SUFFICES Same \/ (/\ Still /\ (getic' = getic \/ GetIs) /\ (putic' = putic \/ PutIs)
                        /\ (mega' = mega \/ MegaIs))
      OBVIOUS
  <1>1. ASSUME NEW o \in Objects, NEW k \in Keys, NEW v \in Values, NEW f \in Flags,
               \/ PutShared(o, k, v, f) \/ PutNew(o, k, v, f) \/ PutSame(o, k, v, f)
               \/ SetFlags(o, k, v, f) \/ SetFlagsInPlace(o, k, v, f)
        PROVE  Same
        BY <1>1 DEF PutShared, PutNew, PutSame, SetFlags, SetFlagsInPlace, caches
  <1>2. ASSUME NEW o \in Objects, NEW k \in Keys, Delete(o, k) \/ DeleteLast(o, k)
        PROVE  Same
        BY <1>2 DEF Delete, DeleteLast, caches
  <1>3. ASSUME NEW o \in Objects, NEW k \in Keys, GetHit(o, k) PROVE Same
        BY <1>3 DEF GetHit
  <1>4. ASSUME NEW o \in Objects, NEW k \in Keys, GetMega(o, k)
        PROVE  Still /\ (getic' = getic \/ GetIs) /\ putic' = putic /\ mega' = mega
    <2>1. Still /\ putic' = putic /\ mega' = mega /\ mega # NoEntry
      BY <1>4 DEF GetMega, MegaHit
    <2>2. mega.owner \in Objects BY <2>1 DEF SitesFit, SiteIs
    <2>3. CASE FindProp(mega.owner, k) # 0
      <3>1. Fill(o, k, mega.owner) BY <1>4, <2>3 DEF GetMega
      <3> QED BY <2>1, <2>2, <2>3, <3>1, FillMeans
    <2>4. CASE FindProp(mega.owner, k) = 0 BY <1>4, <2>1, <2>4 DEF GetMega
    <2> QED BY <2>3, <2>4
  <1>5. ASSUME NEW o \in Objects, NEW k \in Keys, GetWalk(o, k)
        PROVE  Still /\ (getic' = getic \/ GetIs) /\ putic' = putic /\ (mega' = mega \/ MegaIs)
    <2> DEFINE w == Owner(o, k)
    <2>1. Still /\ putic' = putic BY <1>5 DEF GetWalk
    <2>2. CASE w = None BY <1>5, <2>1, <2>2 DEF GetWalk
    <2>3. CASE w # None
      <3>1. /\ w \in Objects /\ FindProp(w, k) # 0 /\ (w # o => FindProp(o, k) = 0)
            BY <2>3, OwnerMeans
      <3>2. /\ mega' = IF "mega" \in Caches THEN MegaEntry(o, k, w) ELSE mega
            /\ Fill(o, k, w)
            BY <1>5, <2>3 DEF GetWalk
      <3>3. mega' = mega \/ mega' = MegaEntry(o, k, w) BY <3>2
      <3> HIDE DEF w
      <3>4. mega' = mega \/ MegaIs BY <3>1, <3>3
      <3>5. getic' = getic \/ GetIs BY <3>1, <3>2, FillMeans
      <3> QED BY <2>1, <3>4, <3>5
    <2> QED BY <2>2, <2>3
  <1>6. ASSUME NEW o \in Objects, NEW k \in Keys, NEW v \in Values,
               AssignHit(o, k, v) \/ AssignSlow(o, k, v)
        PROVE  Still /\ getic' = getic /\ (putic' = putic \/ PutIs) /\ mega' = mega
    <2>1. CASE AssignHit(o, k, v) BY <2>1 DEF AssignHit, caches
    <2>2. CASE AssignSlow(o, k, v)
      <3>1. Still /\ getic' = getic /\ mega' = mega /\ FindProp(o, k) # 0
            BY <2>2 DEF AssignSlow
      <3>2. putic' = putic \/ ("put" \in Caches /\ putic' = Entry(o, k, o))
            BY <2>2 DEF AssignSlow
      <3> QED BY <3>1, <3>2
    <2> QED BY <1>6, <2>1, <2>2
  <1>7. CASE UNCHANGED vars BY <1>7 DEF vars
  <1> HIDE DEF Same, Still, GetIs, PutIs, MegaIs
  <1>8. CASE Next
    <2> DEFINE Goal == Same \/ (/\ Still /\ (getic' = getic \/ GetIs) /\ (putic' = putic \/ PutIs)
                        /\ (mega' = mega \/ MegaIs))
    <2>1. ASSUME NEW o \in Objects, NEW k \in Keys,
                 GetHit(o, k) \/ GetMega(o, k) \/ GetWalk(o, k)
          PROVE  Goal
          BY <1>3, <1>4, <1>5, <2>1
    <2>2. ASSUME NEW o \in Objects, NEW k \in Keys, NEW v \in Values,
                 AssignHit(o, k, v) \/ AssignSlow(o, k, v)
          PROVE  Goal
          BY <1>6, <2>2
    <2> QED BY <1>1, <1>2, <1>8, <2>1, <2>2 DEF Next
  <1> QED BY <1>7, <1>8

\* The entries name objects, slots and keys.
LEMMA StepSites ==
  ASSUME Sound, SitesFit, [Next]_vars
  PROVE  SitesFit'
  <1>1. SiteIs(getic') BY StepCaches, SiteFits DEF SitesFit
  <1>2. SiteIs(putic') BY StepCaches, SiteFits DEF SitesFit
  <1>3. SiteIs(mega') BY StepCaches, SiteFits DEF SitesFit
  <1> QED BY <1>1, <1>2, <1>3 DEF SitesFit, SiteIs

\* Every step keeps what the caches hold right.
LEMMA StepCachesSound ==
  ASSUME IdsFit, "getpropc" \notin Caches, Sound, Unwrapped, CachesSound, [Next]_vars
  PROVE  CachesSound'
  <1>1. /\ SitesFit /\ epoch \in Nat
        /\ ICRight(getic, shapes) /\ ICRight(putic, shapes) /\ MegaRight(mega, shapes, epoch)
        /\ "put" \notin Caches => putic = NoEntry
        BY DEF CachesSound
  <1>2. Evolves(shapes, epoch, shapes', epoch') BY <1>1, StepEvolves
  <1>3. SitesFit' BY <1>1, StepSites
  <1>4. epoch' \in Nat BY <1>2 DEF Evolves
  <1>5. /\ ICRight(getic, shapes') /\ ICRight(putic, shapes') /\ MegaRight(mega, shapes', epoch')
        BY <1>1, <1>2, ICKeeps, MegaKeeps
  <1>6. (getic' = getic /\ putic' = putic /\ mega' = mega) \/ (shapes' = shapes /\ epoch' = epoch)
        BY <1>1, StepCaches
  <1>7. ICRight(getic', shapes')
    <2>1. CASE getic' = getic BY <1>5, <2>1
    <2>2. CASE getic' # getic
      <3>1. PICK o \in Objects, k \in Keys, owner \in Objects :
               /\ FindProp(owner, k) # 0 /\ getic' = Entry(o, k, owner)
               /\ "getpropc" \in Caches \/ owner = o
            BY <1>1, <2>2, StepCaches
      <3>2. shapes' = shapes BY <1>6, <2>2
      <3> QED BY <3>1, <3>2, EntryRight
    <2> QED BY <2>1, <2>2
  <1>8. ICRight(putic', shapes') /\ ("put" \notin Caches => putic' = NoEntry)
    <2>1. CASE putic' = putic BY <1>1, <1>5, <2>1
    <2>2. CASE putic' # putic
      <3>1. PICK o \in Objects, k \in Keys :
               FindProp(o, k) # 0 /\ putic' = Entry(o, k, o) /\ "put" \in Caches
            BY <1>1, <2>2, StepCaches
      <3>2. shapes' = shapes BY <1>6, <2>2
      <3> QED BY <3>1, <3>2, EntryRight
    <2> QED BY <2>1, <2>2
  <1>9. MegaRight(mega', shapes', epoch')
    <2>1. CASE mega' = mega BY <1>5, <2>1
    <2>2. CASE mega' # mega
      <3>1. PICK o \in Objects, k \in Keys, owner \in Objects :
               /\ FindProp(owner, k) # 0 /\ mega' = MegaEntry(o, k, owner)
               /\ owner # o => FindProp(o, k) = 0
            BY <1>1, <2>2, StepCaches
      <3>2. shapes' = shapes /\ epoch' = epoch BY <1>6, <2>2
      <3> QED BY <1>1, <3>1, <3>2, MegaEntryRight
    <2> QED BY <2>1, <2>2
  <1> QED BY <1>3, <1>4, <1>7, <1>8, <1>9 DEF CachesSound

\* An inline cache that answers, answers with the receiver's own property.
LEMMA ICHitMeans ==
  ASSUME Sound, NEW ic, SiteIs(ic), ICRight(ic, shapes), NEW o \in Objects, NEW k \in Keys,
         ICHit(ic, o, k)
  PROVE  /\ ic.owner = o /\ Owner(o, k) = o
         /\ FindProp(o, k) # 0 /\ ic.slot = FindProp(o, k)
         /\ ~AllocFails => ic.flags = FlagsOf(o, k)
  <1> DEFINE s == obj[o].shape
  <1>1. /\ ic # NoEntry /\ ic.shape = s /\ ic.key = k /\ ic.gen = shapes[s].gen
        /\ ic.chain = <<>> => ic.owner = o
        BY DEF ICHit, Generation, ResolvesOwner
  <1>2. s \in LiveIn(shapes) BY SoundMeans, ObjMeans
  <1>3. ic.chain = <<>> /\ ICPoints(ic, shapes) BY <1>1, <1>2 DEF ICRight
  <1>4. ic.slot = FindProp(o, k)
        /\ (~AllocFails => ic.flags = Layout(shapes, s)[FindProp(o, k)].flags)
        BY <1>1, <1>3, FindPropMeans DEF ICPoints
  <1>5. ic.slot # 0
    <2>1. ic.slot \in Slot BY <1>1 DEF SiteIs
    <2>2. IsFiniteSet(Keys) BY SetsAssumption
    <2>3. Cardinality(Keys) \in Nat BY <2>2, FS_CardinalityType
    <2> QED BY <2>1, <2>3 DEF Slot
  <1> QED BY <1>1, <1>3, <1>4, <1>5 DEF Owner, FlagsOf

\* So does the megamorphic cache, with that of the nearest object.
LEMMA MegaHitMeans ==
  ASSUME Sound, SiteIs(mega), MegaRight(mega, shapes, epoch), NEW o \in Objects, NEW k \in Keys,
         MegaHit(o, k)
  PROVE  /\ mega.owner = Owner(o, k) /\ mega.owner \in Objects
         /\ FindProp(mega.owner, k) # 0 /\ mega.slot = FindProp(mega.owner, k)
  <1> DEFINE s == obj[o].shape
             w == mega.owner
  <1>1. /\ mega # NoEntry /\ mega.key = k /\ mega.shape = s /\ mega.epoch = epoch
        /\ mega.own => w = o
        /\ ~mega.own => Prototype[o] = w /\ obj[w].shape = mega.ownerShape
        BY DEF MegaHit
  <1>2. w \in Objects /\ mega.slot \in Slot BY <1>1 DEF SiteIs
  <1>3. s \in LiveIn(shapes) /\ obj[w].shape \in LiveIn(shapes)
    BY <1>2, SoundMeans, ObjMeans
  <1>4. MegaPoints(mega, shapes) BY <1>1 DEF MegaRight
  <1>5. mega.slot # 0
    <2>2. IsFiniteSet(Keys) BY SetsAssumption
    <2>3. Cardinality(Keys) \in Nat BY <2>2, FS_CardinalityType
    <2> QED BY <1>2, <2>3 DEF Slot
  <1>6. FindProp(o, k) = Find(shapes, s, k) /\ FindProp(w, k) = Find(shapes, obj[w].shape, k)
        BY <1>2, FindPropMeans
  <1>7. CASE mega.own
    <2>1. w = o /\ FindProp(o, k) = mega.slot
      BY <1>1, <1>3, <1>4, <1>6, <1>7 DEF MegaPoints
    <2>2. Owner(o, k) = o BY <1>5, <2>1 DEF Owner
    <2> QED BY <1>2, <1>5, <2>1, <2>2
  <1>8. CASE ~mega.own
    <2>1. /\ Prototype[o] = w /\ FindProp(o, k) = 0 /\ FindProp(w, k) = mega.slot
          BY <1>1, <1>3, <1>4, <1>6, <1>8 DEF MegaPoints
    <2>2. w # None BY <1>2, SetsAssumption
    <2>3. Owner(o, k) = w BY <1>5, <2>1, <2>2 DEF Owner
    <2> QED BY <1>2, <1>5, <2>1, <2>3
  <1> QED BY <1>7, <1>8

\* A cache that answers, answers right.
LEMMA SoundCaches ==
  ASSUME Sound, CachesSound, ~AllocFails \/ "put" \notin Caches
  PROVE  CachesRight
  <1>1. /\ SiteIs(getic) /\ SiteIs(putic) /\ SiteIs(mega)
        /\ ICRight(getic, shapes) /\ ICRight(putic, shapes) /\ MegaRight(mega, shapes, epoch)
        /\ "put" \notin Caches => putic = NoEntry
        BY DEF CachesSound, SitesFit
  <1> SUFFICES ASSUME NEW o \in Objects, NEW k \in Keys
               PROVE  /\ ICHit(getic, o, k) => HitsRight(o, k, getic)
                      /\ ICHit(putic, o, k) => HitsRight(o, k, putic) /\ putic.flags = FlagsOf(o, k)
                      /\ MegaHit(o, k) => HitsRight(o, k, mega)
      BY DEF CachesRight
  <1>2. ICHit(getic, o, k) => HitsRight(o, k, getic)
    BY <1>1, ICHitMeans DEF HitsRight
  <1>3. ICHit(putic, o, k) => HitsRight(o, k, putic)
    BY <1>1, ICHitMeans DEF HitsRight
  <1>4. ICHit(putic, o, k) => putic.flags = FlagsOf(o, k)
    <2>1. CASE ~AllocFails BY <1>1, <2>1, ICHitMeans
    <2>2. CASE "put" \notin Caches BY <1>1, <2>2 DEF ICHit
    <2> QED BY <2>1, <2>2
  <1>5. MegaHit(o, k) => HitsRight(o, k, mega)
    BY <1>1, MegaHitMeans DEF HitsRight
  <1> QED BY <1>2, <1>3, <1>4, <1>5

---------------------------------------------------------------------------
(***************************************************************************)
(* The refinement: the property lists of PropertyMap.                      *)
(***************************************************************************)

\* The properties that a layout and property slots stand for.
Listed(p, s) == [i \in 1 .. Len(p) |-> [key |-> p[i].key, value |-> s[i], flags |-> p[i].flags]]
Held(p, s) == p \in Seq(ShapeProperty) /\ \A i \in 1 .. Len(p) : s[i] \in Values

\* Place by place.
LEMMA ListedMeans ==
  ASSUME NEW p, NEW s, Held(p, s)
  PROVE  LET w == Listed(p, s)
         IN  /\ w \in Seq(Map!Property) /\ Len(w) = Len(p) /\ DOMAIN w = 1 .. Len(p)
             /\ Len(p) \in Nat
             /\ \A i \in 1 .. Len(p) : /\ w[i] \in Map!Property /\ w[i].key = p[i].key
                                       /\ w[i].value = s[i] /\ w[i].flags = p[i].flags
  <1> DEFINE w == Listed(p, s)
             n == Len(p)
  <1>1. n \in Nat BY DEF Held
  <1>2. \A i \in 1 .. n : p[i] \in ShapeProperty /\ s[i] \in Values BY DEF Held
  <1>3. \A i \in 1 .. n : p[i].key \in Keys /\ p[i].flags \in Flags
    BY <1>2 DEF ShapeProperty
  <1>4. \A i \in 1 .. n : w[i] = [key |-> p[i].key, value |-> s[i], flags |-> p[i].flags]
        BY DEF Listed
  <1>5. DOMAIN w = 1 .. n /\ w = [i \in 1 .. n |-> w[i]] BY DEF Listed
  <1> HIDE DEF w, n
  <1>6. \A i \in 1 .. n : /\ w[i] \in Map!Property /\ w[i].key = p[i].key
                          /\ w[i].value = s[i] /\ w[i].flags = p[i].flags
    <2> SUFFICES ASSUME NEW i \in 1 .. n
                 PROVE  /\ w[i] \in Map!Property /\ w[i].key = p[i].key
                        /\ w[i].value = s[i] /\ w[i].flags = p[i].flags
        OBVIOUS
    <2>1. w[i] = [key |-> p[i].key, value |-> s[i], flags |-> p[i].flags]
      BY <1>4
    <2>2. p[i].key \in Keys /\ p[i].flags \in Flags /\ s[i] \in Values
      BY <1>2, <1>3
    <2> QED BY <2>1, <2>2 DEF Map!Property
  <1>7. w \in Seq(Map!Property) /\ Len(w) = n BY <1>1, <1>5, <1>6
  <1> QED BY <1>1, <1>5, <1>6, <1>7 DEF w, n

\* Places that hold the same.
LEMMA ListedSame ==
  ASSUME NEW p, NEW s, Held(p, s), NEW q, NEW t, Held(q, t),
         NEW i \in 1 .. Len(p), NEW j \in 1 .. Len(q),
         p[i].key = q[j].key, p[i].flags = q[j].flags, s[i] = t[j]
  PROVE  Listed(p, s)[i] = Listed(q, t)[j]
  BY DEF Listed

\* Lists that are the same in every place.
LEMMA ListsEqual ==
  ASSUME NEW a, NEW b, NEW S, a \in Seq(S), b \in Seq(S), Len(a) = Len(b),
         \A i \in 1 .. Len(a) : a[i] = b[i]
  PROVE  a = b
  OBVIOUS

\* What PropertyMap lets happen to one list.
LEMMA AddsMeans ==
  ASSUME NEW was, NEW now, was \in Seq(Map!Property), now \in Seq(Map!Property),
         Len(now) = Len(was) + 1, \A i \in 1 .. Len(was) : now[i] = was[i],
         \A i \in 1 .. Len(was) : was[i].key # now[Len(was) + 1].key
  PROVE  Map!Adds(was, now)
  <1> DEFINE n == Len(was)
  <1>1. n \in Nat /\ Len(now) = n + 1 /\ now # <<>> OBVIOUS
  <1>2. Map!Last(now) = now[n + 1] /\ Map!Last(now) \in Map!Property
    BY <1>1 DEF Map!Last
  <1>3. Map!Front(now) = was
    <2>1. Map!Front(now) = SubSeq(now, 1, n) BY <1>1 DEF Map!Front
    <2>2. SubSeq(now, 1, n) \in Seq(Map!Property) /\ Len(SubSeq(now, 1, n)) = n
          /\ \A i \in 1 .. n : SubSeq(now, 1, n)[i] = now[i]
          BY <1>1
    <2> QED BY <1>1, <2>1, <2>2, ListsEqual
  <1>4. Map!Position(was, Map!Last(now).key) = 0
    <2>1. {i \in 1 .. Len(was) : was[i].key = Map!Last(now).key} = {} BY <1>2
    <2> QED BY <2>1 DEF Map!Position, Map!SelectInSeq
  <1> QED BY <1>1, <1>2, <1>3, <1>4 DEF Map!Adds

\* A property is written in its place.
LEMMA WritesMeans ==
  ASSUME NEW was, NEW now, was \in Seq(Map!Property), now \in Seq(Map!Property),
         Len(now) = Len(was), NEW n \in 1 .. Len(was), now[n].key = was[n].key,
         \A i \in 1 .. Len(was) : i # n => now[i] = was[i]
  PROVE  Map!Writes(was, now)
  <1>1. n \in DOMAIN was /\ now[n] \in Map!Property /\ was[n] \in Map!Property OBVIOUS
  <1> DEFINE x == now[n]
             w == [was EXCEPT ![n] = x]
  <1>2. w \in Seq(Map!Property) /\ Len(w) = Len(was) BY <1>1
  <1>3. \A i \in 1 .. Len(was) : w[i] = now[i] OBVIOUS
  <1> HIDE DEF w
  <1>4. now = w BY <1>2, <1>3, ListsEqual
  <1> QED BY <1>1, <1>4 DEF Map!Writes, w

\* The places of a list without its n-th.
Removes(was, now, n) ==
    /\ Len(now) = Len(was) - 1 /\ n \in 1 .. Len(was)
    /\ \A i \in 1 .. Len(now) : /\ i < n => now[i] = was[i]
                                /\ ~(i < n) => now[i] = was[i + 1]

\* A property is removed and the ones after it move down.
LEMMA DeletesMeans ==
  ASSUME NEW was, NEW now, was \in Seq(Map!Property), now \in Seq(Map!Property),
         NEW n, Removes(was, now, n)
  PROVE  Map!Deletes(was, now)
  <1> USE DEF Removes
  <1> DEFINE w == RemoveAt(was, n)
  <1>1. Map!RemoveAt(was, n) = w BY DEF Map!RemoveAt, RemoveAt
  <1>2. /\ w \in Seq(Map!Property) /\ Len(w) = Len(was) - 1
        /\ \A i \in 1 .. Len(was) - 1 : (i < n => w[i] = was[i]) /\ (~(i < n) => w[i] = was[i + 1])
        BY RemovedMeans
  <1> HIDE DEF w
  <1>3. \A i \in 1 .. Len(now) : now[i] = w[i] BY <1>2
  <1>4. now = w BY <1>2, <1>3, ListsEqual
  <1>5. n \in DOMAIN was OBVIOUS
  <1> QED BY <1>1, <1>4, <1>5 DEF Map!Deletes

\* PropertyMap's search is find_prop_idx.
LEMMA PropsMean ==
  ASSUME Sound, NEW o \in Objects
  PROVE  /\ PropertiesOf(o) = Listed(Layout(shapes, obj[o].shape), obj[o].slots)
         /\ Held(Layout(shapes, obj[o].shape), obj[o].slots)
  <1>1. Heap(shapes) /\ ObjOk(shapes, obj) BY SoundMeans
  <1>2. Held(Layout(shapes, obj[o].shape), obj[o].slots)
    BY <1>1, ObjMeans DEF Held
  <1>3. PropertiesOf(o) = Listed(Layout(shapes, obj[o].shape), obj[o].slots)
        BY DEF PropertiesOf, Listed
  <1> QED BY <1>2, <1>3

\* What PropertyMap finds in a list.
LEMMA FoundMeans ==
  ASSUME Sound, NEW o \in Objects, NEW k
  PROVE  /\ Map!Position(PropertiesOf(o), k) = FindProp(o, k)
         /\ FindProp(o, k) = 0 => Map!Found(PropertiesOf(o), k) = None
         /\ FindProp(o, k) # 0 => Map!Found(PropertiesOf(o), k) = Read(o, FindProp(o, k))
  <1> DEFINE p == Layout(shapes, obj[o].shape)
             s == obj[o].slots
             w == PropertiesOf(o)
             n == FindProp(o, k)
  <1>1. w = Listed(p, s) /\ Held(p, s) BY PropsMean
  <1>2. Len(w) = Len(p) /\ \A i \in 1 .. Len(p) : w[i].key = p[i].key /\ w[i].value = s[i]
        BY <1>1, ListedMeans
  <1>3. n = Find(shapes, obj[o].shape, k) /\ (n # 0 => n \in 1 .. Len(p))
    BY FindPropMeans
  <1> HIDE DEF w, p, s, n
  <1>4. {i \in 1 .. Len(w) : w[i].key = k} = {i \in 1 .. Len(p) : p[i].key = k}
    BY <1>2
  <1>5. Map!Position(w, k) = n
    <2> DEFINE J == {i \in 1 .. Len(w) : w[i].key = k}
    <2>1. Map!Min(J) = Min(J) BY DEF Map!Min, Min
    <2>2. Map!Position(w, k) = IF J # {} THEN Map!Min(J) ELSE 0
      BY DEF Map!Position, Map!SelectInSeq
    <2>3. J = {i \in 1 .. Len(p) : p[i].key = k} BY <1>4
    <2> HIDE DEF J
    <2>4. n = IF J # {} THEN Min(J) ELSE 0
      BY <1>3, <2>3 DEF Find, SelectInSeq, p
    <2> QED BY <2>1, <2>2, <2>4
  <1>6. n = 0 => Map!Found(w, k) = None BY <1>5 DEF Map!Found
  <1>7. n # 0 => Map!Found(w, k) = s[n] BY <1>2, <1>3, <1>5 DEF Map!Found
  <1> QED BY <1>5, <1>6, <1>7 DEF w, n, s, Read

\* A read of the nearest object's property is PropertyMap's.
LEMMA GetMeans ==
  ASSUME Sound, NEW o \in Objects, NEW k \in Keys,
         shapes' = shapes, obj' = obj,
         Owner(o, k) = None => got' = None,
         Owner(o, k) # None => got' = Read(Owner(o, k), FindProp(Owner(o, k), k))
  PROVE  Map!Get(o, k)
  <1> DEFINE q == Prototype[o]
  <1>1. q # None => q \in Objects BY SetsAssumption
  <1>2. o # None BY SetsAssumption
  <1>3. \A r \in Objects : PropertiesOf(r)' = PropertiesOf(r)
    BY DEF PropertiesOf, Layout
  <1>4. got' = IF FindProp(o, k) = 0 /\ q # None
               THEN Map!Found(PropertiesOf(q), k) ELSE Map!Found(PropertiesOf(o), k)
    <2>1. CASE FindProp(o, k) # 0
      <3>1. Owner(o, k) = o BY <2>1 DEF Owner
      <3> QED BY <1>2, <2>1, <3>1, FoundMeans
    <2>2. CASE FindProp(o, k) = 0 /\ q # None /\ FindProp(q, k) # 0
      <3>1. Owner(o, k) = q BY <2>2 DEF Owner
      <3> QED BY <1>1, <2>2, <3>1, FoundMeans
    <2>3. CASE FindProp(o, k) = 0 /\ q # None /\ FindProp(q, k) = 0
      <3>1. Owner(o, k) = None BY <2>3 DEF Owner
      <3> QED BY <1>1, <2>3, <3>1, FoundMeans
    <2>4. CASE FindProp(o, k) = 0 /\ q = None
      <3>1. Owner(o, k) = None BY <2>4 DEF Owner
      <3> QED BY <2>4, <3>1, FoundMeans
    <2> QED BY <2>1, <2>2, <2>3, <2>4
  <1>5. Map!Position(PropertiesOf(o), k) = FindProp(o, k) BY FoundMeans
  <1> QED BY <1>1, <1>3, <1>4, <1>5 DEF Map!Get

---------------------------------------------------------------------------
(***************************************************************************)
(* What a step does to the lists.                                          *)
(***************************************************************************)

\* The lists after a step.
LEMMA PropsMeanNext ==
  ASSUME Sound', NEW o \in Objects
  PROVE  /\ PropertiesOf(o)' = Listed(Layout(shapes', obj'[o].shape), obj'[o].slots)
         /\ Held(Layout(shapes', obj'[o].shape), obj'[o].slots)
  <1>1. Heap(shapes') /\ ObjOk(shapes', obj') BY DEF Sound, SInv
  <1>2. Held(Layout(shapes', obj'[o].shape), obj'[o].slots)
    BY <1>1, ObjMeans DEF Held
  <1>3. PropertiesOf(o)' = Listed(Layout(shapes', obj'[o].shape), obj'[o].slots)
        BY DEF PropertiesOf, Listed, Layout
  <1> QED BY <1>2, <1>3

\* An object changes to x and the layouts of the others are left alone.
Moves(o, x) ==
    /\ Changes(obj', o, x) /\ got' = got
    /\ \A r \in Objects \ {o} : Layout(shapes', obj[r].shape) = Layout(shapes, obj[r].shape)

\* PropertyMap's Change, from what happens to the list of one object.
LEMMA MovesMeans ==
  ASSUME Sound, Sound', NEW o \in Objects, NEW x, Moves(o, x),
         \/ Map!Adds(PropertiesOf(o), PropertiesOf(o)')
         \/ Map!Writes(PropertiesOf(o), PropertiesOf(o)')
         \/ Map!Deletes(PropertiesOf(o), PropertiesOf(o)')
  PROVE  Map!Change(o)
  <1>1. ASSUME NEW r \in Objects \ {o} PROVE PropertiesOf(r)' = PropertiesOf(r)
    <2>1. obj'[r] = obj[r] BY DEF Moves, Changes
    <2>2. PropertiesOf(r)' = Listed(Layout(shapes', obj'[r].shape), obj'[r].slots)
          BY PropsMeanNext
    <2>3. PropertiesOf(r) = Listed(Layout(shapes, obj[r].shape), obj[r].slots)
      BY PropsMean
    <2>4. Layout(shapes', obj[r].shape) = Layout(shapes, obj[r].shape)
      BY DEF Moves
    <2> QED BY <2>1, <2>2, <2>3, <2>4
  <1>2. got' = got BY DEF Moves
  <1> QED BY <1>1, <1>2 DEF Map!Change

\* One more property at the end.
LEMMA AddsStep ==
  ASSUME Sound, Sound', NEW o \in Objects, NEW x, Moves(o, x), NEW k \in Keys, FindProp(o, k) = 0,
         NEW q, q = Layout(shapes', x.shape),
         Len(q) = Len(Layout(shapes, obj[o].shape)) + 1,
         q[Len(Layout(shapes, obj[o].shape)) + 1].key = k,
         \A i \in 1 .. Len(Layout(shapes, obj[o].shape)) :
            q[i] = Layout(shapes, obj[o].shape)[i] /\ x.slots[i] = obj[o].slots[i]
  PROVE  Map!Change(o)
  <1> DEFINE p == Layout(shapes, obj[o].shape)
             s == obj[o].slots
             t == x.slots
             n == Len(p)
             was == PropertiesOf(o)
             now == PropertiesOf(o)'
  <1>1. was = Listed(p, s) /\ Held(p, s) BY PropsMean
  <1>2. obj'[o] = x BY DEF Moves, Changes
  <1>3. now = Listed(q, t) /\ Held(q, t) BY <1>2, PropsMeanNext
  <1>4. \A i \in 1 .. n : p[i].key # k BY FindPropMeans
  <1>5. Len(q) = n + 1 /\ q[n + 1].key = k /\ \A i \in 1 .. n : q[i] = p[i] /\ t[i] = s[i]
        OBVIOUS
  <1> HIDE DEF p, s, t, n, was, now
  <1>6. /\ was \in Seq(Map!Property) /\ Len(was) = n /\ n \in Nat
        /\ \A i \in 1 .. n : was[i].key = p[i].key
        BY <1>1, ListedMeans DEF n
  <1>7. now \in Seq(Map!Property) /\ Len(now) = n + 1 /\ \A i \in 1 .. n + 1 : now[i].key = q[i].key
        BY <1>3, <1>5, ListedMeans
  <1>8. ASSUME NEW i \in 1 .. n PROVE now[i] = was[i]
    <2>1. i \in 1 .. Len(p) /\ i \in 1 .. Len(q) BY <1>5, <1>6 DEF n
    <2>2. Listed(q, t)[i] = Listed(p, s)[i]
      BY <1>1, <1>3, <1>5, <2>1, ListedSame
    <2> QED BY <1>1, <1>3, <2>2
  <1>9. n + 1 \in 1 .. n + 1 BY <1>6
  <1>10. now[n + 1].key = k BY <1>5, <1>7, <1>9
  <1>11. Map!Adds(was, now) BY <1>4, <1>6, <1>7, <1>8, <1>10, AddsMeans
  <1> QED BY <1>11, MovesMeans DEF was, now

\* One property gets another value or other attributes.
LEMMA WritesStep ==
  ASSUME Sound, Sound', NEW o \in Objects, NEW x, Moves(o, x),
         NEW q, q = Layout(shapes', x.shape), Keyed(Layout(shapes, obj[o].shape), q),
         NEW n \in 1 .. Len(q),
         \A i \in 1 .. Len(q) : i # n => /\ q[i].flags = Layout(shapes, obj[o].shape)[i].flags
                                         /\ x.slots[i] = obj[o].slots[i]
  PROVE  Map!Change(o)
  <1> DEFINE p == Layout(shapes, obj[o].shape)
             s == obj[o].slots
             t == x.slots
             was == PropertiesOf(o)
             now == PropertiesOf(o)'
  <1>1. was = Listed(p, s) /\ Held(p, s) BY PropsMean
  <1>2. obj'[o] = x BY DEF Moves, Changes
  <1>3. now = Listed(q, t) /\ Held(q, t) BY <1>2, PropsMeanNext
  <1>4. Len(q) = Len(p) /\ \A i \in 1 .. Len(p) : q[i].key = p[i].key
    BY DEF Keyed
  <1>5. \A i \in 1 .. Len(p) : i # n => q[i].flags = p[i].flags /\ t[i] = s[i]
    BY <1>4
  <1> HIDE DEF p, s, t, was, now
  <1>6. /\ was \in Seq(Map!Property) /\ Len(was) = Len(p)
        /\ \A i \in 1 .. Len(p) : was[i].key = p[i].key
        BY <1>1, ListedMeans
  <1>7. now \in Seq(Map!Property) /\ Len(now) = Len(q) /\ \A i \in 1 .. Len(q) : now[i].key = q[i].key
        BY <1>3, ListedMeans
  <1>8. ASSUME NEW i \in 1 .. Len(p), i # n PROVE now[i] = was[i]
    <2>1. Listed(q, t)[i] = Listed(p, s)[i]
      BY <1>1, <1>3, <1>4, <1>5, <1>8, ListedSame
    <2> QED BY <1>1, <1>3, <2>1
  <1>9. now[n].key = was[n].key BY <1>4, <1>6, <1>7
  <1>10. Map!Writes(was, now) BY <1>4, <1>6, <1>7, <1>8, <1>9, WritesMeans
  <1> QED BY <1>10, MovesMeans DEF was, now

\* One property is deleted and the ones after it move down.
LEMMA DeletesStep ==
  ASSUME Sound, Sound', NEW o \in Objects, NEW x, Moves(o, x),
         NEW q, q = Layout(shapes', x.shape),
         Len(q) = Len(Layout(shapes, obj[o].shape)) - 1,
         NEW n \in 1 .. Len(Layout(shapes, obj[o].shape)),
         \A i \in 1 .. Len(q) :
            /\ i < n => /\ q[i] = Layout(shapes, obj[o].shape)[i] /\ x.slots[i] = obj[o].slots[i]
            /\ ~(i < n) => /\ q[i] = Layout(shapes, obj[o].shape)[i + 1]
                           /\ x.slots[i] = obj[o].slots[i + 1]
  PROVE  Map!Change(o)
  <1> DEFINE p == Layout(shapes, obj[o].shape)
             s == obj[o].slots
             t == x.slots
             was == PropertiesOf(o)
             now == PropertiesOf(o)'
  <1>1. was = Listed(p, s) /\ Held(p, s) BY PropsMean
  <1>2. obj'[o] = x BY DEF Moves, Changes
  <1>3. now = Listed(q, t) /\ Held(q, t) BY <1>2, PropsMeanNext
  <1>4. Len(q) = Len(p) - 1 /\ n \in 1 .. Len(p) OBVIOUS
  <1>5. \A i \in 1 .. Len(q) : /\ i < n => q[i] = p[i] /\ t[i] = s[i]
                               /\ ~(i < n) => q[i] = p[i + 1] /\ t[i] = s[i + 1]
        OBVIOUS
  <1> HIDE DEF p, s, t, was, now
  <1>6. was \in Seq(Map!Property) /\ Len(was) = Len(p) /\ Len(p) \in Nat
        BY <1>1, ListedMeans
  <1>7. now \in Seq(Map!Property) /\ Len(now) = Len(q) /\ Len(q) \in Nat
    BY <1>3, ListedMeans
  <1>8. ASSUME NEW i \in 1 .. Len(now)
        PROVE  /\ i < n => now[i] = was[i]
               /\ ~(i < n) => now[i] = was[i + 1]
    <2>1. i \in 1 .. Len(q) /\ i \in 1 .. Len(p) /\ i + 1 \in 1 .. Len(p)
      BY <1>4, <1>6, <1>7
    <2>2. ASSUME i < n PROVE now[i] = was[i]
      <3>1. q[i] = p[i] /\ t[i] = s[i] BY <1>5, <2>1, <2>2
      <3>a. p[i].key = q[i].key /\ p[i].flags = q[i].flags /\ s[i] = t[i]
        BY <3>1
      <3>2. Listed(p, s)[i] = Listed(q, t)[i]
        BY ONLY <1>1, <1>3, <2>1, <3>a, ListedSame
      <3> QED BY <1>1, <1>3, <3>2
    <2>3. ASSUME ~(i < n) PROVE now[i] = was[i + 1]
      <3>1. q[i] = p[i + 1] /\ t[i] = s[i + 1] BY <1>5, <2>1, <2>3
      <3> DEFINE j == i + 1
      <3>2. j \in 1 .. Len(p) /\ q[i] = p[j] /\ t[i] = s[j] BY <2>1, <3>1
      <3> HIDE DEF j
      <3>a. q[i].key = p[j].key /\ q[i].flags = p[j].flags /\ t[i] = s[j]
        BY <3>2
      <3>b. i \in 1 .. Len(q) /\ j \in 1 .. Len(p) BY <2>1, <3>2
      <3>3. Listed(q, t)[i] = Listed(p, s)[j]
        BY ONLY <1>1, <1>3, <3>a, <3>b, ListedSame
      <3> QED BY <1>1, <1>3, <3>3 DEF j
    <2> QED BY <2>2, <2>3
  <1>9. Map!Deletes(was, now)
    <2>1. Len(now) = Len(was) - 1 /\ n \in 1 .. Len(was) BY <1>4, <1>6, <1>7
    <2>2. Removes(was, now, n) BY <1>8, <2>1 DEF Removes
    <2> QED BY <1>6, <1>7, <2>2, DeletesMeans
  <1> QED BY <1>9, MovesMeans DEF was, now

\* The objects whose shapes a private shape of another leaves alone.
LEMMA SwapOthers ==
  ASSUME Sound, NEW o \in Objects, NEW uu, NEW s, Swaps(uu, obj[o].shape, s)
  PROVE  \A r \in Objects \ {o} : Layout(uu, obj[r].shape) = Layout(shapes, obj[r].shape)
  <1> SUFFICES ASSUME NEW r \in Objects \ {o}
               PROVE  Layout(uu, obj[r].shape) = Layout(shapes, obj[r].shape)
      OBVIOUS
  <1>1. obj[r].shape \in LiveIn(shapes) BY SoundMeans, ObjMeans
  <1>2. AloneIs(shapes, trans, obj, o) BY SoundMeans DEF PrivateOk
  <1>3. ~(obj[r].shape = obj[o].shape /\ shapes[obj[o].shape].parent = Private)
        BY <1>2 DEF AloneIs
  <1> QED BY <1>1, <1>3 DEF Swaps

---------------------------------------------------------------------------
(***************************************************************************)
(* Every action as a step of PropertyMap.                                  *)
(***************************************************************************)

\* A place of the second of two joined lists.
LEMMA JoinedAfter ==
  ASSUME NEW X, NEW a \in Seq(X), NEW b \in Seq(X), NEW i \in 1 .. Len(b),
         NEW n, n = Len(a) + i
  PROVE  Joined(a, b)[n] = b[i]
  <1>1. n \in 1 .. Len(a) + Len(b) /\ n > Len(a) /\ n - Len(a) = i OBVIOUS
  <1> QED BY <1>1 DEF Joined

\* One more property behind a layout.
LEMMA JoinedOne ==
  ASSUME NEW X, NEW p \in Seq(X), NEW y \in Seq(X), Len(y) = 1
  PROVE  LET q == Joined(p, y)
         IN  /\ Len(q) = Len(p) + 1 /\ q[Len(p) + 1] = y[1]
             /\ \A i \in 1 .. Len(p) : q[i] = p[i]
  <1> DEFINE q == Joined(p, y)
             n == Len(p)
             m == n + 1
  <1>1. Len(q) = n + Len(y) BY JoinedMeans
  <1>2. \A i \in 1 .. n : q[i] = p[i] BY JoinedMeans
  <1>3. 1 \in 1 .. Len(y) /\ m = Len(p) + 1 OBVIOUS
  <1> HIDE DEF m
  <1>a. m = Len(p) + 1 /\ y \in Seq(X) /\ p \in Seq(X) BY <1>3
  <1>4. q[m] = y[1] BY ONLY <1>3, <1>a, JoinedAfter
  <1> HIDE DEF q, n
  <1>5. Len(q) = n + 1 BY <1>1
  <1> QED BY <1>2, <1>4, <1>5 DEF q, n, m

\* HObject.put_prop with a transition that exists.
LEMMA SharedMaps ==
  ASSUME Sound, Sound', NEW o \in Objects, NEW k \in Keys, NEW v \in Values, NEW f \in Flags,
         PutShared(o, k, v, f)
  PROVE  Map!Change(o)
  <1>1. /\ Heap(shapes) /\ TransOk(shapes, trans) /\ ObjOk(shapes, obj) /\ Objs
    BY SoundMeans
  <1>2. PICK t \in trans : t.parent = obj[o].shape /\ t.key = k /\ obj' = Appended(o, v, t.child)
        BY DEF PutShared, Taken
  <1> DEFINE c == t.child
             n == obj[o].count
             s == obj[o].slots
             w == Written(s, n + 1, v)
             x == [shape |-> c, count |-> n + 1, slots |-> w]
             p == Layout(shapes, obj[o].shape)
             y == shapes[c].own
             q == Layout(shapes', x.shape)
  <1>3. Changes(obj', o, x) BY <1>1, <1>2, AppendedIs
  <1>4. shapes' = shapes /\ got' = got /\ FindProp(o, k) = 0
    BY DEF PutShared, caches
  <1>5. /\ c \in LiveIn(shapes) /\ shapes[c].chain = Append(shapes[t.parent].chain, c)
        /\ Len(y) = 1 /\ y[1].key = k
        BY <1>1, <1>2 DEF TransOk, TransitionIs
  <1>6. /\ s \in SlotList /\ Len(p) \in Nat /\ n = Len(p) /\ p \in Seq(ShapeProperty)
        /\ 1 .. Len(p) \subseteq Slot
        /\ p = Layout(shapes, t.parent) /\ Owned(shapes, shapes[t.parent].chain)
        BY <1>1, <1>2, ObjMeans
  <1>7. c \in Nat /\ y \in Seq(ShapeProperty)
    BY <1>1, <1>5, LiveMeans, ShapeMeans
  <1>8. Extends(shapes, c, shapes, t.parent) BY <1>5, <1>7 DEF Extends
  <1>9. x.shape = c /\ x.slots = w OBVIOUS
  <1> HIDE DEF p, y, x, w, s
  <1>10. q = Joined(p, y)
    <2>1. Layout(shapes, c) = Joined(Layout(shapes, t.parent), shapes[c].own)
          BY <1>6, <1>7, <1>8, LayoutExtends
    <2> QED BY <1>4, <1>6, <1>9, <2>1 DEF y
  <1>11. \A i \in Slot : i # n + 1 => w[i] = s[i] BY <1>6, SlotWritten DEF w
  <1> HIDE DEF n, q
  <1>12. Len(q) = n + 1 /\ q[n + 1].key = k /\ \A i \in 1 .. n : q[i] = p[i]
    <2>1. /\ Len(Joined(p, y)) = Len(p) + 1 /\ Joined(p, y)[Len(p) + 1] = y[1]
          /\ \A i \in 1 .. Len(p) : Joined(p, y)[i] = p[i]
          BY <1>5, <1>6, <1>7, JoinedOne
    <2> QED BY <1>5, <1>6, <1>10, <2>1
  <1>13. \A i \in 1 .. n : x.slots[i] = s[i]
    <2> SUFFICES ASSUME NEW i \in 1 .. n PROVE w[i] = s[i]
        BY <1>9
    <2>1. i \in Slot /\ i # n + 1 BY <1>6
    <2> QED BY <1>11, <2>1
  <1>14. Moves(o, x) BY <1>3, <1>4 DEF Moves
  <1> QED BY <1>4, <1>6, <1>12, <1>13, <1>14, AddsStep DEF p, q, s

\* HObject.put_prop of a new key with Heap.transition_shape_new_flags.
LEMMA NewMaps ==
  ASSUME IdsFit, Sound, Sound', NEW o \in Objects, NEW k \in Keys, NEW v \in Values,
         NEW f \in Flags, PutNew(o, k, v, f)
  PROVE  Map!Change(o)
  <1> DEFINE cur == obj[o].shape
             r == Child(cur, k, f)
             tt == Stored(r)
             z == [key |-> k, flags |-> f]
             y == <<z>>
             n == obj[o].count
             s == obj[o].slots
             w == Written(s, n + 1, v)
             x == [shape |-> NewSlot, count |-> n + 1, slots |-> w]
             p == Layout(shapes, cur)
             q == Layout(shapes', x.shape)
  <1>1. Heap(shapes) /\ ObjOk(shapes, obj) /\ Objs BY SoundMeans
  <1>2. /\ FindProp(o, k) = 0 /\ SlotFree /\ shapes' = tt /\ obj' = Appended(o, v, NewSlot)
        /\ got' = got
        BY DEF PutNew, Child, caches
  <1>3. /\ s \in SlotList /\ Len(p) \in Nat /\ n = Len(p) /\ p \in Seq(ShapeProperty)
        /\ 1 .. Len(p) \subseteq Slot /\ cur \in LiveIn(shapes)
        BY <1>1, ObjMeans
  <1>4. \A j \in 1 .. Len(p) : p[j].key # k BY <1>2, FindPropMeans
  <1>5. Fitting(r) /\ Layout(tt, NewSlot) = Joined(p, y)
    BY <1>2, <1>3, <1>4, ChildMeans
  <1>6. Beside(tt, NewSlot) BY <1>2, <1>5, BesideIs
  <1>7. Changes(obj', o, x) BY <1>1, <1>2, AppendedIs
  <1>8. y \in Seq(ShapeProperty) /\ Len(y) = 1 /\ y[1].key = k
    BY DEF ShapeProperty
  <1>9. x.shape = NewSlot /\ x.slots = w OBVIOUS
  <1> HIDE DEF p, y, x, w, s, r, tt
  <1>10. q = Joined(p, y) BY <1>2, <1>5, <1>9
  <1>11. \A i \in Slot : i # n + 1 => w[i] = s[i] BY <1>3, SlotWritten DEF w
  <1> HIDE DEF n, q
  <1>12. Len(q) = n + 1 /\ q[n + 1].key = k /\ \A i \in 1 .. n : q[i] = p[i]
    <2>1. /\ Len(Joined(p, y)) = Len(p) + 1 /\ Joined(p, y)[Len(p) + 1] = y[1]
          /\ \A i \in 1 .. Len(p) : Joined(p, y)[i] = p[i]
          BY <1>3, <1>8, JoinedOne
    <2> QED BY <1>3, <1>8, <1>10, <2>1
  <1>13. \A i \in 1 .. n : x.slots[i] = s[i]
    <2> SUFFICES ASSUME NEW i \in 1 .. n PROVE w[i] = s[i]
        BY <1>9
    <2>1. i \in Slot /\ i # n + 1 BY <1>3
    <2> QED BY <1>11, <2>1
  <1>14. Moves(o, x)
    <2>1. \A a \in Objects : Layout(tt, obj[a].shape) = Layout(shapes, obj[a].shape)
          BY <1>6, BesideKeeps
    <2> QED BY <1>2, <1>7, <2>1 DEF Moves
  <1> QED BY <1>2, <1>3, <1>12, <1>13, <1>14, AddsStep DEF p, q, s

\* A property slot is written: put_prop of an existing key, and PUTPROP.
LEMMA WriteMaps ==
  ASSUME Sound, Sound', NEW o \in Objects, NEW k \in Keys, NEW v \in Values,
         FindProp(o, k) # 0, shapes' = shapes, got' = got,
         Changes(obj', o, [shape |-> obj[o].shape, count |-> obj[o].count,
                           slots |-> Written(obj[o].slots, FindProp(o, k), v)])
  PROVE  Map!Change(o)
  <1> DEFINE s == obj[o].slots
             n == FindProp(o, k)
             w == Written(s, n, v)
             x == [shape |-> obj[o].shape, count |-> obj[o].count, slots |-> w]
             p == Layout(shapes, obj[o].shape)
             q == Layout(shapes', x.shape)
  <1>1. s \in SlotList /\ 1 .. Len(p) \subseteq Slot BY SoundMeans, ObjMeans
  <1>2. n \in 1 .. Len(p) BY FindPropMeans
  <1>3. \A i \in Slot : i # n => w[i] = s[i] BY <1>1, SlotWritten
  <1>4. x.shape = obj[o].shape /\ x.slots = w OBVIOUS
  <1>5. Moves(o, x) BY DEF Moves
  <1> HIDE DEF p, w, x, s, n
  <1>6. q = p BY <1>4 DEF p
  <1> HIDE DEF q
  <1>7. Keyed(p, q) BY <1>6 DEF Keyed
  <1>8. \A i \in 1 .. Len(q) : i # n => q[i].flags = p[i].flags /\ x.slots[i] = s[i]
        BY <1>1, <1>3, <1>4, <1>6
  <1> QED BY <1>2, <1>5, <1>6, <1>7, <1>8, WritesStep DEF p, q, s

\* set_prop_flags with a private shape.
LEMMA FlagsMaps ==
  ASSUME IdsFit, Sound, Sound', NEW o \in Objects, NEW k \in Keys, NEW v \in Values,
         NEW f \in Flags, SetFlags(o, k, v, f)
  PROVE  Map!Change(o)
  <1> DEFINE old == obj[o].shape
             s == obj[o].slots
             n == FindProp(o, k)
             e == Written(s, n, v)
             x == [shape |-> NewSlot, count |-> obj[o].count, slots |-> e]
             p == Layout(shapes, old)
             w == Reflagged(p, k, f)
             q == Layout(shapes', x.shape)
  <1>1. /\ s \in SlotList /\ 1 .. Len(p) \subseteq Slot /\ p \in Seq(ShapeProperty)
        BY SoundMeans, ObjMeans
  <1>2. /\ SlotFree /\ w \in Seq(ShapeProperty) /\ NoTwice(w) /\ Keyed(p, w)
        /\ shapes' = Reshaped(w, old) /\ n \in 1 .. Len(p) /\ Changes(obj', o, x)
        BY SetFlagsMeans
  <1>3. got' = got BY DEF SetFlags, caches
  <1>4. x.shape = NewSlot /\ x.slots = e OBVIOUS
  <1>5. \A j \in 1 .. Len(p) : p[j].key = k => n = j BY FindPropMeans
  <1>6. \A i \in Slot : i # n => e[i] = s[i] BY <1>1, SlotWritten
  <1>7. \A i \in 1 .. Len(p) : p[i].key # k => w[i].flags = p[i].flags
    BY <1>1, ReflaggedMeans
  <1> HIDE DEF p, w, x, e, s, n
  <1>8. Swaps(shapes', old, NewSlot) /\ Layout(shapes', NewSlot) = w
    BY <1>2, ReshapedMeans
  <1>9. q = w BY <1>4, <1>8
  <1>10. Moves(o, x) BY <1>2, <1>3, <1>8, SwapOthers DEF Moves
  <1> HIDE DEF q
  <1>11. Keyed(p, q) /\ Len(q) = Len(p) BY <1>2, <1>9 DEF Keyed
  <1>12. \A i \in 1 .. Len(q) : i # n => q[i].flags = p[i].flags /\ x.slots[i] = s[i]
         BY <1>1, <1>4, <1>5, <1>6, <1>7, <1>9, <1>11
  <1>13. n \in 1 .. Len(q) BY <1>2, <1>11
  <1> QED BY <1>10, <1>11, <1>12, <1>13, WritesStep DEF p, q, s

\* HObject.delete_prop.
LEMMA DeleteMaps ==
  ASSUME IdsFit, Sound, Sound', NEW o \in Objects, NEW k \in Keys, Delete(o, k)
  PROVE  Map!Change(o)
  <1> DEFINE old == obj[o].shape
             s == obj[o].slots
             n == FindProp(o, k)
             m == obj[o].count
             e == Shifted(s, m, n)
             x == [shape |-> NewSlot, count |-> m - 1, slots |-> e]
             p == Layout(shapes, old)
             w == RemoveAt(p, n)
             q == Layout(shapes', x.shape)
  <1>1. /\ s \in SlotList /\ 1 .. Len(p) \subseteq Slot /\ p \in Seq(ShapeProperty)
        /\ Len(p) \in Nat /\ m = Len(p) /\ NoTwice(p)
        BY SoundMeans, ObjMeans
  <1>2. /\ SlotFree /\ w \in Seq(ShapeProperty) /\ NoTwice(w)
        /\ shapes' = Reshaped(w, old) /\ n \in 1 .. Len(p) /\ Changes(obj', o, x)
        BY DeleteMeans
  <1>3. got' = got BY DEF Delete, caches
  <1>4. x.shape = NewSlot /\ x.slots = e OBVIOUS
  <1>5. Len(p) <= Cardinality(Keys) BY <1>1, FewKeys
  <1>6. m \in Nat /\ m <= Cardinality(Keys) /\ n \in 1 .. m BY <1>1, <1>2, <1>5
  <1> HIDE DEF p, x, s, n, m
  <1>7. \A i \in 1 .. m - 1 : /\ i < n => e[i] = s[i]
                              /\ ~(i < n) => e[i] = s[i + 1]
        BY <1>1, <1>6, ShiftedMeans
  <1>8. /\ Len(w) = Len(p) - 1
        /\ \A i \in 1 .. Len(p) - 1 : (i < n => w[i] = p[i]) /\ (~(i < n) => w[i] = p[i + 1])
        BY <1>1, <1>2, RemovedMeans
  <1> HIDE DEF e, w
  <1>9. Swaps(shapes', old, NewSlot) /\ Layout(shapes', NewSlot) = w
    BY <1>2, ReshapedMeans
  <1>10. q = w BY <1>4, <1>9
  <1>11. Moves(o, x) BY <1>2, <1>3, <1>9, SwapOthers DEF Moves
  <1> HIDE DEF q
  <1>12. Len(q) = Len(p) - 1
         /\ \A i \in 1 .. Len(q) :
               /\ i < n => q[i] = p[i] /\ x.slots[i] = s[i]
               /\ ~(i < n) => q[i] = p[i + 1] /\ x.slots[i] = s[i + 1]
         BY <1>1, <1>4, <1>7, <1>8, <1>10
  <1> QED BY <1>2, <1>11, <1>12, DeletesStep DEF p, q, s

\* HObject.delete_prop of the last property.
LEMMA DeleteLastMaps ==
  ASSUME IdsFit, Sound, Sound', NEW o \in Objects, NEW k \in Keys, DeleteLast(o, k)
  PROVE  Map!Change(o)
  <1> DEFINE old == obj[o].shape
             x == [shape |-> Root, count |-> obj[o].count - 1,
                   slots |-> Shifted(obj[o].slots, obj[o].count, 1)]
             p == Layout(shapes, old)
             q == Layout(shapes', x.shape)
  <1>1. /\ Heap(shapes') /\ Swaps(shapes', old, Root) /\ Changes(obj', o, x) /\ Len(p) = 1
        BY DeleteLastMeans
  <1>2. got' = got BY DEF DeleteLast, caches
  <1>3. x.shape = Root OBVIOUS
  <1> HIDE DEF p, x
  <1>4. q = <<>> BY <1>1, <1>3, RootEmpty
  <1>5. Moves(o, x) BY <1>1, <1>2, SwapOthers DEF Moves
  <1> HIDE DEF q
  <1>6. Len(q) = 0 /\ Len(q) = Len(p) - 1 /\ 1 \in 1 .. Len(p) /\ 1 .. Len(q) = {}
    BY <1>1, <1>4
  <1> QED BY <1>5, <1>6, DeletesStep DEF p, q

\* Every step of the shapes and caches is one of the property lists, or none.
LEMMA StepMaps ==
  ASSUME IdsFit, "getpropc" \notin Caches, ~AllocFails, Sound, Sound', CachesSound, [Next]_vars
  PROVE  [Map!Next]_(Map!vars)
  <1>0. /\ SiteIs(getic) /\ SiteIs(putic) /\ SiteIs(mega) /\ Objs
        /\ ICRight(getic, shapes) /\ ICRight(putic, shapes) /\ MegaRight(mega, shapes, epoch)
        BY SoundMeans DEF CachesSound, SitesFit
  <1> SUFFICES (\E o \in Objects : (\E k \in Keys : Map!Get(o, k)) \/ Map!Change(o))
               \/ UNCHANGED vars
    <2>1. ASSUME UNCHANGED vars PROVE UNCHANGED Map!vars
      <3>1. \A o \in Objects : PropertiesOf(o)' = PropertiesOf(o)
            BY <2>1 DEF vars, PropertiesOf, Layout
      <3>2. got' = got BY <2>1 DEF vars
      <3> QED BY <3>1, <3>2 DEF Map!vars
    <2> QED BY <2>1 DEF Map!Next
  <1>1. ASSUME NEW o \in Objects, NEW k \in Keys, NEW v \in Values, NEW f \in Flags,
               \/ PutShared(o, k, v, f) \/ PutNew(o, k, v, f) \/ PutSame(o, k, v, f)
               \/ SetFlags(o, k, v, f) \/ SetFlagsInPlace(o, k, v, f)
        PROVE  Map!Change(o)
    <2>1. CASE PutShared(o, k, v, f) BY <2>1, SharedMaps
    <2>2. CASE PutNew(o, k, v, f) BY <2>2, NewMaps
    <2>3. CASE PutSame(o, k, v, f)
      <3>1. FindProp(o, k) # 0 /\ obj' = Valued(o, k, v) /\ shapes' = shapes /\ got' = got
            BY <2>3 DEF PutSame, caches
      <3>2. Changes(obj', o, [shape |-> obj[o].shape, count |-> obj[o].count,
                              slots |-> Written(obj[o].slots, FindProp(o, k), v)])
            BY <1>0, <3>1, ValuedIs
      <3> QED BY <3>1, <3>2, WriteMaps
    <2>4. CASE SetFlags(o, k, v, f) BY <2>4, FlagsMaps
    <2>5. CASE SetFlagsInPlace(o, k, v, f) BY <2>5 DEF SetFlagsInPlace
    <2> QED BY <1>1, <2>1, <2>2, <2>3, <2>4, <2>5
  <1>2. ASSUME NEW o \in Objects, NEW k \in Keys, Delete(o, k) \/ DeleteLast(o, k)
        PROVE  Map!Change(o)
        BY <1>2, DeleteMaps, DeleteLastMaps
  <1>3. ASSUME NEW o \in Objects, NEW k \in Keys, GetHit(o, k) \/ GetMega(o, k) \/ GetWalk(o, k)
        PROVE  Map!Get(o, k)
    <2>1. shapes' = shapes /\ obj' = obj BY <1>3 DEF GetHit, GetMega, GetWalk
    <2>2. CASE GetHit(o, k)
      <3>1. ICHit(getic, o, k) /\ got' = Read(getic.owner, getic.slot)
        BY <2>2 DEF GetHit
      <3>2. getic.owner = o /\ Owner(o, k) = o /\ getic.slot = FindProp(o, k)
            BY <1>0, <3>1, ICHitMeans
      <3>3. o # None BY SetsAssumption
      <3> QED BY <2>1, <3>1, <3>2, <3>3, GetMeans
    <2>3. CASE GetMega(o, k)
      <3>1. MegaHit(o, k) /\ got' = Read(mega.owner, mega.slot)
        BY <2>3 DEF GetMega
      <3>2. /\ mega.owner = Owner(o, k) /\ mega.owner \in Objects
            /\ mega.slot = FindProp(mega.owner, k)
            BY <1>0, <3>1, MegaHitMeans
      <3>3. Owner(o, k) # None BY <3>2, SetsAssumption
      <3> QED BY <2>1, <3>1, <3>2, <3>3, GetMeans
    <2>4. CASE GetWalk(o, k)
      <3>1. /\ Owner(o, k) = None => got' = None
            /\ Owner(o, k) # None => got' = Read(Owner(o, k), FindProp(Owner(o, k), k))
            BY <2>4 DEF GetWalk
      <3> QED BY <2>1, <3>1, GetMeans
    <2> QED BY <1>3, <2>2, <2>3, <2>4
  <1>4. ASSUME NEW o \in Objects, NEW k \in Keys, NEW v \in Values,
               AssignHit(o, k, v) \/ AssignSlow(o, k, v)
        PROVE  Map!Change(o)
    <2>1. shapes' = shapes /\ got' = got
      BY <1>4 DEF AssignHit, AssignSlow, caches
    <2>2. CASE AssignHit(o, k, v)
      <3>1. ICHit(putic, o, k) /\ obj' = [obj EXCEPT ![o].slots[putic.slot] = v]
            BY <2>2 DEF AssignHit
      <3>2. FindProp(o, k) # 0 /\ putic.slot = FindProp(o, k)
        BY <1>0, <3>1, ICHitMeans
      <3>3. Changes(obj', o, [shape |-> obj[o].shape, count |-> obj[o].count,
                              slots |-> Written(obj[o].slots, putic.slot, v)])
            BY <1>0, <3>1, AssignedIs
      <3> QED BY <2>1, <3>2, <3>3, WriteMaps
    <2>3. CASE AssignSlow(o, k, v)
      <3>1. FindProp(o, k) # 0 /\ obj' = Valued(o, k, v) BY <2>3 DEF AssignSlow
      <3>2. Changes(obj', o, [shape |-> obj[o].shape, count |-> obj[o].count,
                              slots |-> Written(obj[o].slots, FindProp(o, k), v)])
            BY <1>0, <3>1, ValuedIs
      <3> QED BY <2>1, <3>1, <3>2, WriteMaps
    <2> QED BY <1>4, <2>2, <2>3
  <1> QED BY <1>1, <1>2, <1>3, <1>4 DEF Next

\* At first no object has a property and no cache an entry.
LEMMA InitMaps ==
  ASSUME Init
  PROVE  Map!Init /\ CachesSound
  <1>1. Sound BY InitSound
  <1>2. Heap(shapes) BY <1>1, SoundMeans
  <1>3. ASSUME NEW o \in Objects PROVE PropertiesOf(o) = <<>>
    <2> DEFINE p == Layout(shapes, obj[o].shape)
               w == Listed(p, obj[o].slots)
    <2>1. obj[o].shape = Root BY DEF Init
    <2>2. p = <<>> BY <1>2, <2>1, RootEmpty
    <2>3. PropertiesOf(o) = w /\ Held(p, obj[o].slots) BY <1>1, PropsMean
    <2> HIDE DEF p
    <2>4. w \in Seq(Map!Property) /\ Len(w) = 0 BY <2>2, <2>3, ListedMeans
    <2> HIDE DEF w
    <2> QED BY <2>3, <2>4
  <1>4. Map!Init BY <1>3 DEF Init, Map!Init
  <1>5. getic = NoEntry /\ putic = NoEntry /\ mega = NoEntry /\ epoch = 0
    BY DEF Init
  <1>6. CachesSound
    BY <1>5 DEF CachesSound, SitesFit, SiteIs, ICRight, MegaRight
  <1> QED BY <1>4, <1>6

---------------------------------------------------------------------------
(***************************************************************************)
(* The epoch and the generations.                                          *)
(***************************************************************************)

\* No more slots are recycled than the model lets be.
EpochFits == epoch \in 0 .. MaxRecycles

\* alloc_shape_slot counts the epoch, up to the bound of the model.
LEMMA StepEpoch ==
  ASSUME EpochFits, [Next]_vars
  PROVE  EpochFits'
  <1>1. MaxRecycles \in Nat /\ epoch \in Nat BY MasksAssumption DEF EpochFits
  <1>2. ASSUME WithinBounds PROVE NewEpoch \in 0 .. MaxRecycles
        BY <1>1, <1>2 DEF WithinBounds, NewEpoch
  <1>3. ASSUME NEW o \in Objects, NEW k \in Keys, NEW v \in Values, NEW f \in Flags,
               \/ PutShared(o, k, v, f) \/ PutNew(o, k, v, f) \/ PutSame(o, k, v, f)
               \/ SetFlags(o, k, v, f) \/ SetFlagsInPlace(o, k, v, f)
        PROVE  epoch' = epoch \/ (WithinBounds /\ epoch' = NewEpoch)
        BY <1>3 DEF PutShared, PutNew, PutSame, SetFlags, SetFlagsInPlace
  <1>4. ASSUME NEW o \in Objects, NEW k \in Keys, Delete(o, k) \/ DeleteLast(o, k)
        PROVE  epoch' = epoch \/ (WithinBounds /\ epoch' = NewEpoch)
        BY <1>4 DEF Delete, DeleteLast
  <1>5. ASSUME NEW o \in Objects, NEW k \in Keys, GetHit(o, k) \/ GetMega(o, k) \/ GetWalk(o, k)
        PROVE  epoch' = epoch
        BY <1>5 DEF GetHit, GetMega, GetWalk
  <1>6. ASSUME NEW o \in Objects, NEW k \in Keys, NEW v \in Values,
               AssignHit(o, k, v) \/ AssignSlow(o, k, v)
        PROVE  epoch' = epoch
        BY <1>6 DEF AssignHit, AssignSlow
  <1>7. CASE UNCHANGED vars BY <1>7 DEF vars, EpochFits
  <1>8. ASSUME epoch' = epoch \/ (WithinBounds /\ epoch' = NewEpoch) PROVE EpochFits'
        BY <1>2, <1>8 DEF EpochFits
  <1> QED BY <1>3, <1>4, <1>5, <1>6, <1>7, <1>8 DEF Next

\* The generation of a slot counts how often it was recycled, so it never passes the epoch.
GensOk(sh, ep) == \A i \in DOMAIN sh : sh[i].gen \in 0 .. ep

\* store_new_shape stamps a recycled slot with the next generation, in the next
\* epoch.
LEMMA GensStored ==
  ASSUME IdsFit, Sound, SlotFree, epoch \in Nat, GensOk(shapes, epoch), NEW r, Fitting(r),
         r.gen = NewGen
  PROVE  GensOk(Stored(r), NewEpoch)
  <1> DEFINE tt == Stored(r)
             s == NewSlot
  <1>1. Heap(shapes) /\ FreeListOk(shapes, head) BY SoundMeans
  <1>2. r \in LiveShape BY DEF Fitting
  <1>3. /\ DOMAIN tt = DOMAIN shapes \cup {s} /\ tt[s] = r
        /\ \A i \in DOMAIN shapes \ {s} : tt[i] = shapes[i]
        /\ s \in DOMAIN shapes <=> Recycles
        /\ Recycles => NewGen = shapes[s].gen + 1
        BY <1>1, <1>2, StoredIs
  <1>4. ~Recycles => NewGen = 0 BY DEF NewGen
  <1>5. NewEpoch \in Nat /\ epoch <= NewEpoch /\ (Recycles => NewEpoch = epoch + 1)
    BY DEF NewEpoch
  <1>6. \A i \in DOMAIN shapes : shapes[i].gen \in 0 .. epoch BY DEF GensOk
  <1> HIDE DEF tt
  <1>7. tt[s].gen \in 0 .. NewEpoch
    <2>1. CASE Recycles
      <3>1. shapes[s].gen \in 0 .. epoch BY <1>3, <1>6, <2>1
      <3>2. tt[s].gen = shapes[s].gen + 1 BY <1>3, <2>1
      <3> QED BY <1>5, <2>1, <3>1, <3>2
    <2>2. CASE ~Recycles BY <1>3, <1>4, <1>5, <2>2
    <2> QED BY <2>1, <2>2
  <1>8. \A i \in DOMAIN shapes \ {s} : tt[i].gen \in 0 .. NewEpoch
    <2> SUFFICES ASSUME NEW i \in DOMAIN shapes \ {s} PROVE tt[i].gen \in 0 .. NewEpoch
        OBVIOUS
    <2>1. tt[i].gen = shapes[i].gen /\ shapes[i].gen \in 0 .. epoch
      BY <1>3, <1>6
    <2> QED BY <1>5, <2>1
  <1>9. \A i \in DOMAIN tt : i = s \/ i \in DOMAIN shapes \ {s} BY <1>3
  <1> QED BY <1>7, <1>8, <1>9 DEF GensOk, tt

\* free_shape_slot keeps the generation.
LEMMA GensDrops ==
  ASSUME NEW tt, NEW ep, GensOk(tt, ep), NEW uu, NEW old, Drops(tt, uu, old),
         tt[old].gen <= GenMask
  PROVE  GensOk(uu, ep)
  BY DEF GensOk, Drops

\* Every step keeps the generations within the epoch.
LEMMA StepGens ==
  ASSUME IdsFit, MaxRecycles <= GenMask, Sound, EpochFits, GensOk(shapes, epoch), [Next]_vars
  PROVE  GensOk(shapes', epoch')
  <1>1. Heap(shapes) /\ FreeListOk(shapes, head) /\ ObjOk(shapes, obj)
    BY SoundMeans
  <1>2. ASSUME shapes' = shapes, epoch' = epoch PROVE GensOk(shapes', epoch')
    BY <1>2
  <1>3. epoch \in Nat /\ epoch <= GenMask BY MasksAssumption DEF EpochFits
  <1>4. \A o \in Objects : obj[o].shape \in LiveIn(shapes) /\ shapes[obj[o].shape].gen <= GenMask
    <2> SUFFICES ASSUME NEW o \in Objects
                 PROVE  obj[o].shape \in LiveIn(shapes) /\ shapes[obj[o].shape].gen <= GenMask
        OBVIOUS
    <2>1. obj[o].shape \in LiveIn(shapes) /\ obj[o].shape \in DOMAIN shapes
          BY <1>1, ObjMeans DEF LiveIn
    <2>2. shapes[obj[o].shape].gen \in 0 .. epoch BY <2>1 DEF GensOk
    <2> QED BY <1>3, <2>1, <2>2, MasksAssumption
  <1>5. ASSUME SlotFree, NEW o \in Objects, NEW w \in Seq(ShapeProperty), NoTwice(w),
               shapes' = Reshaped(w, obj[o].shape), epoch' = NewEpoch
        PROVE  GensOk(shapes', epoch')
    <2> DEFINE old == obj[o].shape
               tt == Stored(Flat(w))
    <2>1. Fitting(Flat(w)) /\ Flat(w).gen = NewGen BY <1>5, FlatMeans
    <2>2. GensOk(tt, NewEpoch) BY <1>3, <1>5, <2>1, GensStored
    <2>3. Drops(tt, shapes', old) /\ tt[old] = shapes[old]
      BY <1>5, ReshapedMeans
    <2>4. tt[old].gen <= GenMask BY <1>4, <2>3
    <2> HIDE DEF tt
    <2> QED BY <1>5, <2>2, <2>3, <2>4, GensDrops
  <1>6. ASSUME NEW o \in Objects, NEW k \in Keys, NEW v \in Values, NEW f \in Flags,
               \/ PutShared(o, k, v, f) \/ PutNew(o, k, v, f) \/ PutSame(o, k, v, f)
               \/ SetFlags(o, k, v, f) \/ SetFlagsInPlace(o, k, v, f)
        PROVE  GensOk(shapes', epoch')
    <2>1. CASE PutShared(o, k, v, f) \/ PutSame(o, k, v, f)
          BY <1>2, <2>1 DEF PutShared, PutSame
    <2>2. CASE PutNew(o, k, v, f)
      <3> DEFINE r == Child(obj[o].shape, k, f)
      <3>1. /\ SlotFree /\ shapes' = Stored(r) /\ epoch' = NewEpoch /\ FindProp(o, k) = 0
            BY <2>2 DEF PutNew, Child
      <3>2. \A j \in 1 .. Len(Layout(shapes, obj[o].shape)) :
               Layout(shapes, obj[o].shape)[j].key # k
            BY <3>1, FindPropMeans
      <3>3. Fitting(r) /\ r.gen = NewGen BY <1>4, <3>1, <3>2, ChildMeans
      <3> QED BY <1>3, <3>1, <3>3, GensStored
    <2>3. CASE SetFlags(o, k, v, f)
      <3> DEFINE w == Reflagged(Layout(shapes, obj[o].shape), k, f)
      <3>1. /\ SlotFree /\ w \in Seq(ShapeProperty) /\ NoTwice(w)
            /\ shapes' = Reshaped(w, obj[o].shape)
            BY <2>3, SetFlagsMeans
      <3>2. epoch' = NewEpoch BY <2>3 DEF SetFlags
      <3> HIDE DEF w
      <3> QED BY <1>5, <3>1, <3>2
    <2>4. CASE SetFlagsInPlace(o, k, v, f)
      <3>1. Reflags(shapes, shapes') /\ epoch' = epoch BY <2>4, InPlaceMeans
      <3>2. DOMAIN shapes' = DOMAIN shapes BY <3>1 DEF Reflags
      <3>3. \A i \in DOMAIN shapes : shapes'[i].gen = shapes[i].gen
        BY <3>1 DEF Reflags
      <3> QED BY <3>1, <3>2, <3>3 DEF GensOk
    <2> QED BY <1>6, <2>1, <2>2, <2>3, <2>4
  <1>7. ASSUME NEW o \in Objects, NEW k \in Keys, Delete(o, k) \/ DeleteLast(o, k)
        PROVE  GensOk(shapes', epoch')
    <2>1. CASE Delete(o, k)
      <3> DEFINE w == RemoveAt(Layout(shapes, obj[o].shape), FindProp(o, k))
      <3>1. /\ SlotFree /\ w \in Seq(ShapeProperty) /\ NoTwice(w)
            /\ shapes' = Reshaped(w, obj[o].shape)
            BY <2>1, DeleteMeans
      <3>2. epoch' = NewEpoch BY <2>1 DEF Delete
      <3> HIDE DEF w
      <3> QED BY <1>5, <3>1, <3>2
    <2>2. CASE DeleteLast(o, k)
      <3>1. Drops(shapes, shapes', obj[o].shape) BY <2>2, DeleteLastMeans
      <3>2. epoch' = epoch BY <2>2 DEF DeleteLast
      <3> QED BY <1>4, <3>1, <3>2, GensDrops
    <2> QED BY <1>7, <2>1, <2>2
  <1>8. ASSUME NEW o \in Objects, NEW k \in Keys, GetHit(o, k) \/ GetMega(o, k) \/ GetWalk(o, k)
        PROVE  GensOk(shapes', epoch')
        BY <1>2, <1>8 DEF GetHit, GetMega, GetWalk
  <1>9. ASSUME NEW o \in Objects, NEW k \in Keys, NEW v \in Values,
               AssignHit(o, k, v) \/ AssignSlow(o, k, v)
        PROVE  GensOk(shapes', epoch')
        BY <1>2, <1>9 DEF AssignHit, AssignSlow
  <1>10. CASE UNCHANGED vars BY <1>2, <1>10 DEF vars
  <1> QED BY <1>6, <1>7, <1>8, <1>9, <1>10 DEF Next

\* So the free list cuts no generation when fewer slots are recycled than a link counts.
LEMMA GensUnwrap ==
  ASSUME MaxRecycles <= GenMask, EpochFits, GensOk(shapes, epoch)
  PROVE  Unwrapped
  <1>1. epoch \in Nat /\ epoch <= MaxRecycles /\ MaxRecycles \in Nat /\ GenMask \in Nat
        BY MasksAssumption DEF EpochFits
  <1>2. \A i \in Live : shapes[i].gen \in 0 .. epoch BY DEF GensOk, Live
  <1> QED BY <1>1, <1>2 DEF Unwrapped

---------------------------------------------------------------------------
(***************************************************************************)
(* Reference counts, and the remaining types.                              *)
(***************************************************************************)

\* The greatest number up to m of a set.
LEMMA MaxIs ==
  ASSUME NEW s, NEW m \in Nat, s \subseteq 1 .. m, m \in s
  PROVE  Max(s) = m
  <1>1. \A y \in s : m >= y OBVIOUS
  <1>2. \A x \in s : (\A y \in s : x >= y) => x = m
    <2> SUFFICES ASSUME NEW x \in s, x >= m PROVE x = m
        OBVIOUS
    <2>1. x \in 1 .. m OBVIOUS
    <2> QED BY <2>1
  <1>3. Max(s) \in s /\ \A y \in s : Max(s) >= y BY <1>1 DEF Max
  <1> QED BY <1>2, <1>3

\* The function that FoldLeft takes shape_free's decrefs from: the counts after the
\* references of the places s were dropped.
Drains(f, n, own, r) ==
    f = [s \in SUBSET (1 .. n) |->
            IF s = {} THEN r
            ELSE Decrefed(f[s \ {Max(s)}], own[Max(s)].key)]
Counts == [Keys -> Nat]

\* Heap.decref of a key leaves a count.
LEMMA DecrefedType ==
  ASSUME NEW r \in Counts, NEW k \in Keys
  PROVE  Decrefed(r, k) \in Counts
  <1>1. r[k] \in Nat BY DEF Counts
  <1>2. r[k] # 0 => r[k] - 1 \in Nat BY <1>1
  <1> QED BY <1>2 DEF Decrefed, Counts

\* So does Heap.incref.
LEMMA IncrefedType ==
  ASSUME NEW r \in Counts, NEW k \in Keys, NEW n \in Nat
  PROVE  Increfed(r, k, n) \in Counts
  <1>1. r[k] + n \in Nat BY DEF Counts
  <1> QED BY <1>1 DEF Increfed, Counts

\* What is dropped stays a count.
LEMMA DrainsType ==
  ASSUME NEW n \in Nat, NEW own, \A i \in 1 .. n : own[i].key \in Keys, NEW r \in Counts,
         NEW f, Drains(f, n, own, r)
  PROVE  f[1 .. n] \in Counts
  <1> DEFINE T == {m \in Nat : m <= n => \A s \in SUBSET (1 .. m) : f[s] \in Counts}
  <1>1. \A s \in SUBSET (1 .. n) : /\ s = {} => f[s] = r
                                   /\ s # {} => f[s] = Decrefed(f[s \ {Max(s)}], own[Max(s)].key)
        BY DEF Drains
  <1>2. 0 \in T
    <2>1. \A s \in SUBSET (1 .. 0) : s = {} OBVIOUS
    <2> QED BY <1>1, <2>1
  <1>3. ASSUME NEW m \in Nat, m \in T PROVE m + 1 \in T
    <2> SUFFICES ASSUME m + 1 <= n, NEW s \in SUBSET (1 .. m + 1) PROVE f[s] \in Counts
        OBVIOUS
    <2>1. s \in SUBSET (1 .. n) /\ m <= n OBVIOUS
    <2>2. \A u \in SUBSET (1 .. m) : f[u] \in Counts BY <1>3, <2>1
    <2>3. CASE m + 1 \in s
      <3>1. Max(s) = m + 1
        <4>1. m + 1 \in Nat /\ s \subseteq 1 .. m + 1 OBVIOUS
        <4> QED BY <2>3, <4>1, MaxIs
      <3>2. s \ {m + 1} \in SUBSET (1 .. m) OBVIOUS
      <3>3. f[s] = Decrefed(f[s \ {m + 1}], own[m + 1].key)
        BY <1>1, <2>1, <2>3, <3>1
      <3>4. own[m + 1].key \in Keys OBVIOUS
      <3> QED BY <2>2, <3>2, <3>3, <3>4, DecrefedType
    <2>4. CASE m + 1 \notin s
      <3>1. s \in SUBSET (1 .. m) BY <2>4
      <3> QED BY <2>2, <3>1
    <2> QED BY <2>3, <2>4
  <1>4. Nat \subseteq T
    <2> HIDE DEF T
    <2> QED BY <1>2, <1>3, SetInduction
  <1>5. n \in T /\ 1 .. n \in SUBSET (1 .. n) BY <1>4
  <1> QED BY <1>5

\* The function exists.
LEMMA DrainsExists ==
  ASSUME NEW n \in Nat, NEW own, NEW r
  PROVE  \E f : Drains(f, n, own, r)
  <1> DEFINE D(a, i) == Decrefed(a, own[i].key)
             P(f, m) == \A s \in SUBSET (1 .. m) : /\ s = {} => f[s] = r
                                                   /\ s # {} => f[s] = D(f[s \ {Max(s)}], Max(s))
             T == {m \in Nat : \E f : P(f, m)}
  <1>1. 0 \in T
    <2> DEFINE f == [s \in {{}} |-> r]
    <2>1. \A s \in SUBSET (1 .. 0) : s = {} OBVIOUS
    <2>2. f[{}] = r OBVIOUS
    <2> HIDE DEF f
    <2>3. P(f, 0) BY <2>1, <2>2
    <2> HIDE DEF P
    <2> QED BY <2>3
  <1>2. ASSUME NEW m \in Nat, m \in T PROVE m + 1 \in T
    <2>1. PICK e : P(e, m) BY <1>2
    <2> DEFINE f == [s \in SUBSET (1 .. m + 1) |->
                       IF m + 1 \in s THEN D(e[s \ {m + 1}], m + 1) ELSE e[s]]
    <2>2. \A s \in SUBSET (1 .. m + 1) : /\ m + 1 \in s => f[s] = D(e[s \ {m + 1}], m + 1)
                                         /\ m + 1 \notin s => f[s] = e[s]
          OBVIOUS
    <2> HIDE DEF f, D
    <2>3. ASSUME NEW s \in SUBSET (1 .. m + 1)
          PROVE  /\ s = {} => f[s] = r
                 /\ s # {} => f[s] = D(f[s \ {Max(s)}], Max(s))
      <3>1. CASE m + 1 \in s
        <4> DEFINE u == s \ {m + 1}
        <4>1. Max(s) = m + 1
          <5>1. m + 1 \in Nat /\ s \subseteq 1 .. m + 1 OBVIOUS
          <5> QED BY <3>1, <5>1, MaxIs
        <4>2. u \in SUBSET (1 .. m + 1) /\ m + 1 \notin u OBVIOUS
        <4>3. f[u] = e[u] BY <2>2, <4>2
        <4>4. f[s] = D(e[u], m + 1) BY <2>2, <3>1
        <4> QED BY <3>1, <4>1, <4>3, <4>4
      <3>2. CASE m + 1 \notin s
        <4>1. s \in SUBSET (1 .. m) /\ f[s] = e[s] BY <2>2, <3>2
        <4>2. CASE s = {} BY <2>1, <4>1, <4>2
        <4>3. CASE s # {}
          <5> DEFINE u == s \ {Max(s)}
          <5>1. u \in SUBSET (1 .. m + 1) /\ m + 1 \notin u BY <3>2
          <5>2. f[u] = e[u] BY <2>2, <5>1
          <5>3. e[s] = D(e[u], Max(s)) BY <2>1, <4>1, <4>3
          <5> QED BY <4>1, <4>3, <5>2, <5>3
        <4> QED BY <4>2, <4>3
      <3> QED BY <3>1, <3>2
    <2>4. P(f, m + 1) BY <2>3
    <2> HIDE DEF P
    <2> QED BY <2>4
  <1>3. Nat \subseteq T
    <2> HIDE DEF T
    <2> QED BY <1>1, <1>2, SetInduction
  <1>4. PICK e : P(e, n) BY <1>3
  <1> DEFINE f == [s \in SUBSET (1 .. n) |-> e[s]]
  <1>5. \A s \in SUBSET (1 .. n) : f[s] = e[s] /\ s \ {Max(s)} \in SUBSET (1 .. n) OBVIOUS
  <1>6. f = [s \in SUBSET (1 .. n) |-> f[s]] OBVIOUS
  <1> HIDE DEF f
  <1>7. \A s \in SUBSET (1 .. n) :
           f[s] = IF s = {} THEN r ELSE Decrefed(f[s \ {Max(s)}], own[Max(s)].key)
    <2> SUFFICES ASSUME NEW s \in SUBSET (1 .. n)
                 PROVE  f[s] = IF s = {} THEN r ELSE Decrefed(f[s \ {Max(s)}], own[Max(s)].key)
        OBVIOUS
    <2>1. CASE s = {} BY <1>4, <1>5, <2>1
    <2>2. CASE s # {}
      <3>1. f[s] = e[s] /\ f[s \ {Max(s)}] = e[s \ {Max(s)}] BY <1>5
      <3>2. e[s] = Decrefed(e[s \ {Max(s)}], own[Max(s)].key) BY <1>4, <2>2
      <3> QED BY <2>2, <3>1, <3>2
    <2> QED BY <2>1, <2>2
  <1>8. Drains(f, n, own, r) BY <1>6, <1>7 DEF Drains
  <1> QED BY <1>8

\* Heap.shape_free: the references of a shape's own keys are dropped.
LEMMA ReleasedType ==
  ASSUME NEW own \in Seq(ShapeProperty), NEW r \in Counts
  PROVE  Released(r, own) \in Counts
  <1> DEFINE n == Len(own)
             f == CHOOSE f : Drains(f, n, own, r)
  <1>1. n \in Nat /\ DOMAIN own = 1 .. n OBVIOUS
  <1>2. \A i \in 1 .. n : own[i].key \in Keys
    <2> SUFFICES ASSUME NEW i \in 1 .. n PROVE own[i].key \in Keys
        OBVIOUS
    <2>1. own[i] \in ShapeProperty OBVIOUS
    <2> QED BY <2>1 DEF ShapeProperty
  <1>3. Released(r, own) = f[1 .. n]
        BY <1>1 DEF Released, FoldLeft, MapThenFoldSet, Drains
  <1> HIDE DEF n
  <1>4. Drains(f, n, own, r) BY <1>1, DrainsExists
  <1> HIDE DEF f
  <1> QED BY <1>1, <1>2, <1>3, <1>4, DrainsType

\* The key counts, and what was read last, keep their types.
LooseFit == refs \in Counts /\ got \in Values \cup {None, Cleared}

\* A cache that is filled takes a reference to the key and drops the one it had.
LEMMA RefsOnFillType ==
  ASSUME refs \in Counts, NEW e, SiteIs(e), NEW k \in Keys
  PROVE  RefsOnFill(e, k) \in Counts
  <1>1. Increfed(refs, k, 1) \in Counts BY IncrefedType
  <1>2. e # NoEntry => e.key \in Keys BY DEF SiteIs
  <1> QED BY <1>1, <1>2, DecrefedType DEF RefsOnFill

\* A read of a slot.
LEMMA ReadType ==
  ASSUME Sound, NEW o \in Objects, NEW i \in Slot
  PROVE  Read(o, i) \in Values \cup {Cleared}
  <1>1. obj[o].slots \in SlotList BY SoundMeans, ObjMeans
  <1> QED BY <1>1 DEF Read, SlotList

\* Every step keeps these types.
LEMMA StepLoose ==
  ASSUME Sound, SitesFit, LooseFit, [Next]_vars
  PROVE  LooseFit'
  <1>1. refs \in Counts /\ got \in Values \cup {None, Cleared} BY DEF LooseFit
  <1>2. SiteIs(getic) /\ SiteIs(putic) /\ SiteIs(mega) BY DEF SitesFit
  <1>3. ASSUME NEW o \in Objects, NEW k \in Keys, NEW v \in Values, NEW f \in Flags,
               \/ PutShared(o, k, v, f) \/ PutNew(o, k, v, f) \/ PutSame(o, k, v, f)
               \/ SetFlags(o, k, v, f) \/ SetFlagsInPlace(o, k, v, f)
        PROVE  LooseFit'
    <2>1. got' = got
          BY <1>3 DEF PutShared, PutNew, PutSame, SetFlags, SetFlagsInPlace, caches
    <2>2. refs' = refs \/ refs' = Increfed(refs, k, 2)
          BY <1>3 DEF PutShared, PutNew, PutSame, SetFlags, SetFlagsInPlace
    <2>3. Increfed(refs, k, 2) \in Counts BY <1>1, IncrefedType
    <2> QED BY <1>1, <2>1, <2>2, <2>3 DEF LooseFit
  <1>4. ASSUME NEW o \in Objects, NEW k \in Keys, Delete(o, k) \/ DeleteLast(o, k)
        PROVE  LooseFit'
    <2> DEFINE old == obj[o].shape
    <2>1. got' = got BY <1>4 DEF Delete, DeleteLast, caches
    <2>2. refs' = refs \/ refs' = Decrefed(refs, k) \/ refs' = Released(refs, shapes[old].own)
          BY <1>4 DEF Delete, DeleteLast
    <2>3. Decrefed(refs, k) \in Counts BY <1>1, DecrefedType
    <2>4. Released(refs, shapes[old].own) \in Counts
      <3>1. Heap(shapes) /\ old \in LiveIn(shapes) BY SoundMeans, ObjMeans
      <3>2. shapes[old].own \in Seq(ShapeProperty)
        BY <3>1, LiveMeans, ShapeMeans
      <3> QED BY <1>1, <3>2, ReleasedType
    <2> QED BY <1>1, <2>1, <2>2, <2>3, <2>4 DEF LooseFit
  <1>5. ASSUME NEW o \in Objects, NEW k \in Keys, GetHit(o, k) \/ GetMega(o, k) \/ GetWalk(o, k)
        PROVE  LooseFit'
    <2>1. RefsOnFill(getic, k) \in Counts BY <1>1, <1>2, RefsOnFillType
    <2>2. refs' = refs \/ refs' = RefsOnFill(getic, k)
      <3>1. CASE GetHit(o, k) BY <3>1 DEF GetHit
      <3>2. CASE GetMega(o, k)
        <4>1. refs' = refs \/ Fill(o, k, mega.owner) BY <3>2 DEF GetMega
        <4> QED BY <4>1, FillMeans
      <3>3. CASE GetWalk(o, k)
        <4>1. refs' = refs \/ Fill(o, k, Owner(o, k)) BY <3>3 DEF GetWalk
        <4> QED BY <4>1, FillMeans
      <3> QED BY <1>5, <3>1, <3>2, <3>3
    <2>3. got' \in Values \cup {None, Cleared}
      <3>1. CASE GetHit(o, k)
        <4>1. got' = Read(getic.owner, getic.slot) /\ getic # NoEntry
          BY <3>1 DEF GetHit, ICHit
        <4>2. getic.owner \in Objects /\ getic.slot \in Slot
          BY <1>2, <4>1 DEF SiteIs
        <4> QED BY <4>1, <4>2, ReadType
      <3>2. CASE GetMega(o, k)
        <4>1. got' = Read(mega.owner, mega.slot) /\ mega # NoEntry
          BY <3>2 DEF GetMega, MegaHit
        <4>2. mega.owner \in Objects /\ mega.slot \in Slot
          BY <1>2, <4>1 DEF SiteIs
        <4> QED BY <4>1, <4>2, ReadType
      <3>3. CASE GetWalk(o, k)
        <4>1. CASE Owner(o, k) = None BY <3>3, <4>1 DEF GetWalk
        <4>2. CASE Owner(o, k) # None
          <5> DEFINE w == Owner(o, k)
                     i == FindProp(w, k)
          <5>1. got' = Read(w, i) BY <3>3, <4>2 DEF GetWalk
          <5>2. w \in Objects /\ i # 0 BY <4>2, OwnerMeans
          <5> HIDE DEF w
          <5>3. i \in Slot BY <5>2, FindPropMeans
          <5> HIDE DEF i
          <5> QED BY <5>1, <5>2, <5>3, ReadType
        <4> QED BY <4>1, <4>2
      <3> QED BY <1>5, <3>1, <3>2, <3>3
    <2> QED BY <1>1, <2>1, <2>2, <2>3 DEF LooseFit
  <1>6. ASSUME NEW o \in Objects, NEW k \in Keys, NEW v \in Values,
               AssignHit(o, k, v) \/ AssignSlow(o, k, v)
        PROVE  LooseFit'
    <2>1. RefsOnFill(putic, k) \in Counts BY <1>1, <1>2, RefsOnFillType
    <2>2. got' = got /\ (refs' = refs \/ refs' = RefsOnFill(putic, k))
          BY <1>6 DEF AssignHit, AssignSlow, caches
    <2> QED BY <1>1, <2>1, <2>2 DEF LooseFit
  <1>7. CASE UNCHANGED vars BY <1>1, <1>7 DEF vars, LooseFit
  <1> QED BY <1>3, <1>4, <1>5, <1>6, <1>7 DEF Next

\* The types of the variables.
LEMMA SoundTypes ==
  ASSUME IdsFit, Sound, EpochFits, LooseFit
  PROVE  TypeOK
  <1>1. /\ Heap(shapes) /\ FreeListOk(shapes, head) /\ TransOk(shapes, trans)
        /\ ObjOk(shapes, obj)
        BY SoundMeans
  <1>2. PICK n \in 1 .. MaxShapes : shapes \in [0 .. n - 1 -> LiveShape \cup FreeLink]
        BY <1>1 DEF Heap, IsArray
  <1>3. n \in Nat /\ MaxShapes \in Nat /\ n <= MaxShapes /\ n > 0
    BY MasksAssumption
  <1>4. DOMAIN shapes = 0 .. n - 1 BY <1>2
  <1>5. Cardinality(DOMAIN shapes) = n
    <2>1. Cardinality(0 .. n - 1) = IF 0 > n - 1 THEN 0 ELSE (n - 1) - 0 + 1
      BY <1>3, FS_Interval
    <2> QED BY <1>3, <1>4, <2>1
  <1>6. DOMAIN shapes = 0 .. (Cardinality(DOMAIN shapes) - 1) BY <1>4, <1>5
  <1>7. DOMAIN shapes \subseteq Id /\ LiveIn(shapes) \subseteq Id
    BY <1>3, <1>4 DEF Id, LiveIn
  <1>8. head # FreeEnd => head \in DOMAIN shapes
        BY <1>1, HeadMeans DEF Heap
  <1>9. ASSUME NEW i \in DOMAIN shapes, shapes[i].free PROVE shapes[i].next \in 0 .. LinkMask
    <2>1. PICK q : FreeListIs(shapes, head, q) BY <1>1 DEF FreeListOk
    <2>2. i \in DOMAIN shapes \ LiveIn(shapes) BY <1>9 DEF LiveIn
    <2>3. PICK j \in 1 .. Len(q) : q[j] = i BY <2>1, <2>2 DEF FreeListIs
    <2>4. q \in Seq(Nat) /\ Len(q) \in Nat BY <2>1 DEF FreeListIs
    <2>5. shapes[q[j]].next = IF j = Len(q) THEN FreeEnd ELSE q[j + 1]
      BY <2>1 DEF FreeListIs
    <2>6. LinkMask \in Nat /\ MaxShapes <= LinkMask
      BY MasksAssumption DEF IdsFit
    <2>7. CASE j = Len(q) BY <2>3, <2>5, <2>6, <2>7 DEF FreeEnd
    <2>8. CASE j # Len(q)
      <3>1. j + 1 \in 1 .. Len(q) BY <2>4, <2>8
      <3>2. q[j + 1] \in DOMAIN shapes BY <2>1, <3>1 DEF FreeListIs
      <3>3. q[j + 1] \in 0 .. LinkMask BY <1>3, <1>4, <2>6, <3>2
      <3> QED BY <2>3, <2>5, <2>8, <3>3
    <2> QED BY <2>7, <2>8
  <1>10. ASSUME NEW i \in DOMAIN shapes, ~shapes[i].free
         PROVE  shapes[i].own \in Seq(ShapeProperty) /\ shapes[i].chain \in Seq(Id)
    <2> DEFINE c == shapes[i].chain
    <2>1. i \in LiveIn(shapes) BY <1>10 DEF LiveIn
    <2>2. c \in Seq(Nat) /\ \A j \in 1 .. Len(c) : c[j] \in LiveIn(shapes)
      BY <1>1, <2>1, LiveMeans
    <2>3. shapes[i].own \in Seq(ShapeProperty)
      BY <1>1, <2>1, LiveMeans, ShapeMeans
    <2> HIDE DEF c
    <2>4. \A j \in 1 .. Len(c) : c[j] \in Id BY <1>7, <2>2
    <2>5. c \in Seq(Id) BY <2>2, <2>4
    <2> QED BY <2>3, <2>5 DEF c
  <1>11. trans \subseteq [parent : Id, key : Keys, flags : Flags, child : Id]
    <2> SUFFICES ASSUME NEW t \in trans
                 PROVE  t \in [parent : Id, key : Keys, flags : Flags, child : Id]
        OBVIOUS
    <2>1. t \in Transition /\ t.parent \in Id /\ t.child \in Id
          BY <1>1, <1>7 DEF TransOk, TransitionIs
    <2> QED BY <2>1 DEF Transition
  <1>12. obj \in [Objects -> [shape : Id, count : 0 .. Cardinality(Keys),
                              slots : [Slot -> Values \cup {Cleared}]]]
    <2>1. ASSUME NEW o \in Objects
          PROVE  obj[o] \in [shape : Id, count : 0 .. Cardinality(Keys),
                             slots : [Slot -> Values \cup {Cleared}]]
      <3> DEFINE p == Layout(shapes, obj[o].shape)
      <3>1. /\ obj[o] \in Holder /\ obj[o].shape \in LiveIn(shapes) /\ obj[o].slots \in SlotList
            /\ p \in Seq(ShapeProperty) /\ NoTwice(p) /\ Len(p) \in Nat /\ obj[o].count = Len(p)
            BY <1>1, ObjMeans
      <3>2. Len(p) <= Cardinality(Keys) /\ Cardinality(Keys) \in Nat
        BY <3>1, FewKeys
      <3> HIDE DEF p
      <3>3. obj[o].count \in 0 .. Cardinality(Keys) BY <3>1, <3>2
      <3>4. obj[o].shape \in Id BY <1>7, <3>1
      <3> QED BY <3>1, <3>3, <3>4 DEF Holder, SlotList
    <2>2. obj = [o \in Objects |-> obj[o]] BY <1>1 DEF ObjOk
    <2> QED BY <2>1, <2>2
  <1>13. head \in Id \cup {FreeEnd} BY <1>7, <1>8
  <1>14. refs \in [Keys -> Nat] /\ got \in Values \cup {None, Cleared} /\ epoch \in 0 .. MaxRecycles
         BY DEF LooseFit, Counts, EpochFits
  <1> QED BY <1>6, <1>7, <1>9, <1>10, <1>11, <1>12, <1>13, <1>14 DEF TypeOK

---------------------------------------------------------------------------
(***************************************************************************)
(* The theorems.                                                           *)
(***************************************************************************)

\* create: what was read last, the counts of the keys, the generations and the epoch
\* of an empty heap.
LEMMA InitLoose ==
  ASSUME Init PROVE EpochFits /\ LooseFit /\ GensOk(shapes, epoch) /\ SitesFit
  <1>1. EpochFits BY MasksAssumption DEF Init, EpochFits
  <1>2. LooseFit BY MasksAssumption DEF Init, LooseFit, Counts
  <1>3. GensOk(shapes, epoch) BY DEF Init, GensOk, Shape
  <1>4. SitesFit BY InitMaps DEF CachesSound
  <1> QED BY <1>1, <1>2, <1>3, <1>4

\* The invariant the theorems rest on: a tree of live shapes, a list of freed ones,
\* and objects that agree with their shapes.
THEOREM Invariant ==
  ASSUME IdsFit PROVE Spec => []Sound
  <1>1. Init => Sound BY InitSound
  <1>2. Sound /\ [Next]_vars => Sound' BY StepSound
  <1> QED BY <1>1, <1>2, PTL DEF Spec

\* The type invariant of the shapes, the free list, the transitions, the objects
\* and the reference counts of keys, as heap.c3 and hobject.c3 declare them.
THEOREM TypeCorrect ==
  ASSUME IdsFit PROVE Spec => []TypeOK
  <1> DEFINE Inv == Sound /\ SitesFit /\ EpochFits /\ LooseFit
  <1>1. Init => Inv BY InitSound, InitLoose
  <1>2. Inv /\ [Next]_vars => Inv'
    BY StepSound, StepSites, StepEpoch, StepLoose
  <1>3. Inv => TypeOK BY SoundTypes
  <1> QED BY <1>1, <1>2, <1>3, PTL DEF Spec

\* PrivateUnshared, heap.c3 free_shape_slot: "referenced by exactly one object --
\* the one replacing it right now".  Whatever is added, deleted and redefined, a
\* private shape an object has is no other object's, no other shape's ancestor and
\* in no transition, so make_shape_private and delete_prop may recycle its slot.
THEOREM PrivateShapesAreUnshared ==
  ASSUME IdsFit PROVE Spec => []PrivateUnshared
  <1>1. Sound => PrivateUnshared BY SoundPrivate
  <1> QED BY <1>1, Invariant, PTL

\* FreeListSound, heap.c3 alloc_shape_slot: the list through the reclaimed slots
\* goes through each of them once, through no live shape, and ends.
THEOREM FreeListIsSound ==
  ASSUME IdsFit PROVE Spec => []FreeListSound
  <1>1. Sound => FreeListSound BY SoundFreeList
  <1> QED BY <1>1, Invariant, PTL

\* LinksFree, heap.c3 SHAPE_FREE_LINK_MASK: "Ids stop at 0xFFFE, so 16 bits cover
\* them".  As long as the ids fit no link is cut to the id of a live shape.
THEOREM LinksNameNoLiveSlot ==
  ASSUME IdsFit PROVE Spec => []LinksFree
  <1>1. Sound => LinksFree BY SoundLinks
  <1> QED BY <1>1, Invariant, PTL

\* The generations free_shape_slot stores are whole for as long as no more slots
\* are recycled than SHAPE_FREE_GEN_MASK counts: the hypothesis of the next
\* theorems is met by such runs of the program.
THEOREM GenerationsLast ==
  ASSUME IdsFit, MaxRecycles <= GenMask PROVE Spec => []Unwrapped
  <1> DEFINE Inv == Sound /\ EpochFits /\ GensOk(shapes, epoch)
  <1>1. Init => Inv BY InitSound, InitLoose
  <1>2. Inv /\ [Next]_vars => Inv'
    <2> SUFFICES ASSUME Inv, [Next]_vars PROVE Inv'
        OBVIOUS
    <2>1. GensOk(shapes', epoch') BY StepGens
    <2>2. GensOk(shapes, epoch)' BY <2>1 DEF GensOk
    <2> QED BY <2>2, StepSound, StepEpoch
  <1>3. Inv => Unwrapped BY GensUnwrap
  <1> QED BY <1>1, <1>2, <1>3, PTL DEF Spec

\* The inline caches and the megamorphic cache (vm_property.c3) remember, for every
\* live shape of the generation or epoch they name, where a key is in it.
THEOREM CachesStaySound ==
  ASSUME IdsFit, "getpropc" \notin Caches
  PROVE  Spec /\ []Unwrapped => []CachesSound
  <1>1. Init => Sound /\ CachesSound BY InitSound, InitMaps
  <1>2. Sound /\ CachesSound /\ Unwrapped /\ [Next]_vars => (Sound /\ CachesSound)'
        BY StepSound, StepCachesSound
  <1> QED BY <1>1, <1>2, PTL DEF Spec

\* CachesRight, hobject.c3 ICEntry: "(id, generation) pairs uniquely name one
\* layout".  While no generation wraps, a cache that would answer points at the slot
\* find_prop_idx finds on the nearest object, whatever was shared, privatised,
\* recycled and redefined since it was filled.  GETPROPC's prototype entries are
\* excepted (they compare no generation), and so are PUTPROP's attributes once
\* set_prop_flags has no slot for a private shape.
THEOREM CachesAnswerRight ==
  ASSUME IdsFit, "getpropc" \notin Caches, ~AllocFails \/ "put" \notin Caches
  PROVE  Spec /\ []Unwrapped => []CachesRight
  <1>1. Sound /\ CachesSound => CachesRight BY SoundCaches
  <1> QED BY <1>1, Invariant, CachesStaySound, PTL

\* BehavesAsMap: the shapes, the recycled slots and the caches of heap.c3,
\* hobject.c3 and vm_property.c3 implement PropertyMap.  Each step adds, writes or
\* deletes one property of one object, reads what the nearest object has, or is
\* unseen.  The exceptions are those of CachesAnswerRight, and set_prop_flags without
\* a slot, which changes the attributes in the shape that others share.
THEOREM ObjectsBehaveAsMaps ==
  ASSUME IdsFit, "getpropc" \notin Caches, ~AllocFails
  PROVE  Spec /\ []Unwrapped => BehavesAsMap
  <1>1. Init => Map!Init BY InitMaps
  <1>2. Sound /\ Sound' /\ CachesSound /\ [Next]_vars => [Map!Next]_(Map!vars)
    BY StepMaps
  <1> QED
    BY <1>1, <1>2, Invariant, CachesStaySound, PTL DEF Spec, BehavesAsMap, Map!Spec
==============================================================================
