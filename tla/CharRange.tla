----------------------------- MODULE CharRange -----------------------------
(***************************************************************************)
(* Sets of characters as the engine stores them (CharRange, libunicode.c): *)
(* the sequence of the points where membership changes.  A character is in *)
(* the set when an odd number of points is at or below it.                 *)
(***************************************************************************)
EXTENDS Integers, Sequences, SequencesExt

\* UINT32_MAX, which ends an interval that has no last character.  Any number
\* above every code point will do.
RangeEnd == 2147483647

\* cr_compress: adjacent intervals are joined and empty ones dropped.
cr_compress(pt) ==
    LET n == Len(pt)
        \* the last of the adjoining intervals that start at point i
        join[i \in 1 .. n] ==
            IF i + 3 <= n /\ pt[i + 1] = pt[i + 2] THEN join[i + 2] ELSE i
        from[i \in 1 .. n + 1] ==
            IF i + 1 > n THEN <<>>
            ELSE IF pt[i] = pt[i + 1] THEN from[i + 2]
            ELSE <<pt[i], pt[join[i] + 1]>> \o from[join[i] + 2]
    IN  from[1]

\* Whether a character is in the result when it is in the first operand (a)
\* and in the second (b).
InResult(op, a, b) ==
    CASE op = "union" -> a \/ b
      [] op = "inter" -> a /\ b
      [] op = "xor"   -> a # b
      [] op = "sub"   -> a /\ ~b

\* cr_op: the points of both operands in increasing order; a point goes to the
\* result when membership in the result changes there.  i and j count the
\* points already taken from a and b.
cr_op(a, b, op) ==
    LET in(i, j) == InResult(op, i % 2 = 1, j % 2 = 1)
        merge[i \in 0 .. Len(a), j \in 0 .. Len(b)] ==
            LET takeA == i < Len(a) /\ (j = Len(b) \/ a[i + 1] <= b[j + 1])
                takeB == j < Len(b) /\ (i = Len(a) \/ b[j + 1] <= a[i + 1])
                i1    == IF takeA THEN i + 1 ELSE i
                j1    == IF takeB THEN j + 1 ELSE j
                v     == IF takeA THEN a[i + 1] ELSE b[j + 1]
            IN  IF ~takeA /\ ~takeB THEN <<>>
                ELSE (IF in(i1, j1) # in(i, j) THEN <<v>> ELSE <<>>)
                       \o merge[i1, j1]
    IN  cr_compress(merge[0, 0])

cr_union_interval(cr, c1, c2) == cr_op(cr, <<c1, c2 + 1>>, "union")

cr_invert(cr) == cr_compress(<<0>> \o cr \o <<RangeEnd>>)

\* cr_sort_and_remove_overlap: intervals in any order, overlapping or not.
cr_sort_and_remove_overlap(cr) ==
    LET pairs == [k \in 1 .. Len(cr) \div 2 |-> <<cr[2 * k - 1], cr[2 * k]>>]
        s     == SortSeq(pairs, LAMBDA x, y : x[1] < y[1])
        n     == Len(s)
        Larger(x, y) == IF x < y THEN y ELSE x
        \* the intervals from the k-th on, the last one kept ending at end
        from[k \in 1 .. n + 1, start \in {0} \cup {s[m][1] : m \in 1 .. n},
             end \in {0} \cup {s[m][2] : m \in 1 .. n}] ==
            IF k = n + 1 THEN <<start, end>>
            ELSE IF s[k][1] > end
                 THEN <<start, end>> \o from[k + 1, s[k][1], s[k][2]]
                 ELSE from[k + 1, start, Larger(end, s[k][2])]
    IN  IF n = 0 THEN <<>> ELSE from[2, s[1][1], s[1][2]]

---------------------------------------------------------------------------
\* The set the points stand for, decided for one character.
InPoints(c, points) ==
    Len(SelectSeq(points, LAMBDA p : p <= c)) % 2 = 1

\* The form the operations promise: strictly increasing, even in number.
WellFormedPoints(points) ==
    /\ Len(points) % 2 = 0
    /\ \A k \in 1 .. Len(points) - 1 : points[k] < points[k + 1]

=============================================================================
