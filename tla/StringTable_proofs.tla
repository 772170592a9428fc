------------------------- MODULE StringTable_proofs -------------------------
(***************************************************************************)
(* FindsInterned, OneOwner, HoldersLive, KeysInterned and SweepCollects    *)
(* for every number of strings, texts, slots and references: whatever is   *)
(* interned, dropped, appended to, used as a key, swept and reset, in      *)
(* tables that grow, shrink and fail to, a text that is interned is found, *)
(* a string has one owner, and nothing in use is freed.                    *)
(***************************************************************************)
EXTENDS StringTable, FiniteSetTheorems, WellFoundedInduction, TLAPS

---------------------------------------------------------------------------
(***************************************************************************)
(* Numbers, the sequence of slots a hash probes, and functions defined by  *)
(* recursion.                                                              *)
(***************************************************************************)

\* The order of the numbers, in the form the library's theorem on it uses.
LEMMA LessThan == \A x, y \in Nat : y < x => <<y, x>> \in OpToRel(<, Nat)
  BY DEF OpToRel

\* The numbers are well ordered.
LEMMA Ordered ==
  \E R : IsWellFoundedOn(R, Nat) /\ \A x, y \in Nat : y < x => <<y, x>> \in R
  BY LessThan, NatLessThanWellFounded, Zenon

\* A set of numbers has a least one.
LEMMA Least ==
  ASSUME NEW T, T \subseteq Nat, T # {}
  PROVE  \E x \in T : \A y \in T : x <= y
  <1>1. PICK R : IsWellFoundedOn(R, Nat) /\ \A x, y \in Nat : y < x => <<y, x>> \in R
        BY Ordered
  <1>2. PICK x \in T : \A y \in T : <<y, x>> \notin R BY <1>1, WFMin
  <1>3. \A y \in T : ~(y < x) BY <1>1, <1>2
  <1>4. \A y \in T : x <= y BY <1>3
  <1> QED BY <1>2, <1>4

\* What SelectInSeq takes the least of.
LEMMA MinIsLeast ==
  ASSUME NEW T, T \subseteq Nat, T # {}
  PROVE  Min(T) \in T /\ \A y \in T : Min(T) <= y
  <1> QED BY Least DEF Min

\* Induction over the numbers, for a set instead of a formula.
LEMMA SetInduction ==
  ASSUME NEW T, 0 \in T, \A n \in Nat : n \in T => n + 1 \in T
  PROVE  Nat \subseteq T
  <1>1. SUFFICES ASSUME Nat \ T # {} PROVE FALSE
        OBVIOUS
  <1>2. PICK x \in Nat \ T : \A y \in Nat \ T : x <= y BY <1>1, Least
  <1>3. x # 0 BY <1>2
  <1>4. x - 1 \in Nat /\ ~(x <= x - 1) BY <1>2, <1>3
  <1>5. x - 1 \in T BY <1>2, <1>4
  <1>6. (x - 1) + 1 = x BY <1>2
  <1> QED BY <1>2, <1>4, <1>5, <1>6

\* Remainders.
LEMMA ModRange == ASSUME NEW a \in Int, NEW N \in Nat \ {0} PROVE a % N \in 0 .. N - 1
  <1> QED OBVIOUS

\* A number is a multiple of another and the remainder.
LEMMA ModDiv ==
  ASSUME NEW a \in Nat, NEW N \in Nat, N > 0
  PROVE  \E q \in Int : a = N * q + (a % N)
  <1>1. a \div N \in Int OBVIOUS
  <1>2. a = N * (a \div N) + (a % N) BY SMTT(30)
  <1> QED BY <1>1, <1>2

\* A multiple of N between -N and N is 0.
LEMMA Multiples ==
  ASSUME NEW N \in Nat \ {0}, NEW d \in Int, NEW e \in Int,
         e = N * d, -N < e, e < N
  PROVE  e = 0
  <1>1. CASE d = 0 BY <1>1
  <1>2. CASE d >= 1
    <2>1. PICK k \in Nat : d = 1 + k BY <1>2
    <2>2. N * d = N + N * k BY <2>1
    <2>3. N * k >= 0 OBVIOUS
    <2> QED BY <2>2, <2>3
  <1>3. CASE d <= -1
    <2>1. PICK k \in Nat : d = -1 - k
      <3>1. -1 - d \in Nat BY <1>3
      <3>2. d = -1 - (-1 - d) OBVIOUS
      <3> QED BY <3>1, <3>2
    <2>2. N * d = -N - N * k BY <2>1
    <2>3. N * k >= 0 OBVIOUS
    <2> QED BY <2>2, <2>3
  <1> QED BY <1>1, <1>2, <1>3

\* A remainder is told by one quotient that fits.
LEMMA ModIs ==
  ASSUME NEW a \in Nat, NEW N \in Nat \ {0}, NEW q \in Int, NEW r \in 0 .. N - 1,
         a = N * q + r
  PROVE  a % N = r
  <1>a. N \in Nat /\ N > 0 OBVIOUS
  <1>1. PICK p \in Int : a = N * p + (a % N) BY <1>a, ModDiv
  <1>2. a % N \in 0 .. N - 1 BY ModRange
  <1> DEFINE m == a % N
  <1>3. N * (q - p) = m - r /\ q - p \in Int /\ m - r \in Int
    <2>1. N * (q - p) = N * q - N * p OBVIOUS
    <2>2. N * q \in Int /\ N * p \in Int OBVIOUS
    <2> HIDE DEF m
    <2>3. m \in Int /\ a = N * p + m BY <1>1, <1>2 DEF m
    <2> QED BY <2>1, <2>2, <2>3
  <1> HIDE DEF m
  <1>4. m \in 0 .. N - 1 BY <1>2 DEF m
  <1>5. -N < m - r /\ m - r < N BY <1>4
  <1>6. m - r = 0 BY <1>3, <1>5, Multiples
  <1> QED BY <1>4, <1>6 DEF m

\* The places probed are slots, and every slot is probed.
LEMMA ProbeType ==
  ASSUME NEW t, Len(t) \in Nat \ {0}, NEW hash \in Nat
  PROVE  /\ Probe(t, hash) \in Seq(1 .. Len(t))
         /\ Len(Probe(t, hash)) = Len(t)
         /\ \A i \in 1 .. Len(t) : Probe(t, hash)[i] \in 1 .. Len(t)
  <1> DEFINE N == Len(t)
  <1>1. ASSUME NEW i \in 1 .. N PROVE 1 + ((hash + i - 1) % N) \in 1 .. N
    <2>1. hash + i - 1 \in Int OBVIOUS
    <2>2. (hash + i - 1) % N \in 0 .. N - 1 BY <2>1, ModRange
    <2> QED BY <2>2
  <1> QED BY <1>1 DEF Probe

\* str_table_lookup comes by every slot before it wraps to the first one.
LEMMA ProbeCovers ==
  ASSUME NEW t, Len(t) \in Nat \ {0}, NEW hash \in Nat, NEW pos \in 1 .. Len(t)
  PROVE  \E i \in 1 .. Len(t) : Probe(t, hash)[i] = pos
  <1> DEFINE N == Len(t)
             h == hash % N
             i == IF pos - 1 >= h THEN pos - h ELSE pos - h + N
  <1>3. N \in Nat \ {0} OBVIOUS
  <1>4. pos \in 1 .. N OBVIOUS
  <1> HIDE DEF N, h, i
  <1>a. N \in Nat /\ N > 0 /\ hash \in Int BY <1>3
  <1>1. PICK q \in Int : hash = N * q + h BY <1>a, ModDiv DEF h
  <1>2. h \in 0 .. N - 1 BY <1>3, <1>a, ModRange DEF h
  <1>5. i \in 1 .. N /\ i \in Nat /\ i - 1 \in Nat BY <1>2, <1>3, <1>4 DEF i
  <1>6. (hash + i - 1) % N = pos - 1
    <2> DEFINE a == hash + i - 1
    <2>1. a \in Nat /\ pos - 1 \in 0 .. N - 1 BY <1>3, <1>4, <1>5
    <2>2. CASE pos - 1 >= h
      <3>1. a = N * q + (pos - 1)
        <4>1. N * q \in Int BY <1>3
        <4> QED BY <1>1, <1>2, <1>4, <2>2, <4>1 DEF i
      <3> HIDE DEF a
      <3>2. a % N = pos - 1 BY <1>3, <2>1, <3>1, ModIs
      <3> QED BY <3>2 DEF a
    <2>3. CASE ~(pos - 1 >= h)
      <3>1. N * (q + 1) = N * q + N /\ N * q \in Int /\ q + 1 \in Int BY <1>3
      <3>2. a = N * (q + 1) + (pos - 1)
        BY <1>1, <1>2, <1>3, <1>4, <2>3, <3>1 DEF i
      <3> HIDE DEF a
      <3>3. a % N = pos - 1 BY <1>3, <2>1, <3>1, <3>2, ModIs
      <3> QED BY <3>3 DEF a
    <2> QED BY <2>2, <2>3
  <1>7. Probe(t, hash)[i] = 1 + ((hash + i - 1) % N) BY <1>5 DEF Probe, N
  <1>8. Probe(t, hash)[i] = pos BY <1>4, <1>6, <1>7
  <1> QED BY <1>5, <1>8 DEF N

\* f starts at a and goes on by the steps g.
Iterates(f, n, X, a, g) ==
    f \in [0 .. n -> X] /\ f[0] = a /\ \A i \in 1 .. n : f[i] = g[i][f[i - 1]]
Steps(g, n, X) == g \in [1 .. n -> [X -> X]]

\* A function can be defined by recursion on its argument.
LEMMA Recursion ==
  ASSUME NEW n \in Nat, NEW X, NEW a \in X, NEW g, Steps(g, n, X)
  PROVE  \E f : Iterates(f, n, X, a, g)
  <1> USE DEF Steps
  <1> DEFINE P(k, f) == f[0] = a /\ \A i \in 1 .. k : f[i] = g[i][f[i - 1]]
             T == {k \in Nat : k <= n => \E f \in [0 .. k -> X] : P(k, f)}
  <1>1. 0 \in T
    <2> DEFINE f == [i \in 0 .. 0 |-> a]
    <2>1. f \in [0 .. 0 -> X] /\ f[0] = a OBVIOUS
    <2>2. 1 .. 0 = {} OBVIOUS
    <2> HIDE DEF f
    <2>3. P(0, f) BY <2>1, <2>2
    <2> QED BY <2>1, <2>3
  <1>2. ASSUME NEW k \in Nat, k \in T PROVE k + 1 \in T
    <2> SUFFICES ASSUME k + 1 <= n PROVE \E f \in [0 .. k + 1 -> X] : P(k + 1, f)
        OBVIOUS
    <2>1. PICK e \in [0 .. k -> X] : P(k, e) BY <1>2
    <2> DEFINE f == [i \in 0 .. k + 1 |-> IF i = k + 1 THEN g[k + 1][e[k]] ELSE e[i]]
    <2>2. k + 1 \in 1 .. n /\ k \in 0 .. k /\ e[k] \in X OBVIOUS
    <2>3. g[k + 1][e[k]] \in X BY <2>2
    <2>4. f \in [0 .. k + 1 -> X] BY <2>1, <2>3
    <2>5. \A i \in 0 .. k : f[i] = e[i] OBVIOUS
    <2>6. f[k + 1] = g[k + 1][e[k]] OBVIOUS
    <2> HIDE DEF f
    <2>7. f[0] = a BY <2>1, <2>5
    <2>8. ASSUME NEW i \in 1 .. k + 1 PROVE f[i] = g[i][f[i - 1]]
      <3>1. CASE i = k + 1
        <4>1. i - 1 = k /\ f[k] = e[k] BY <3>1, <2>5
        <4> QED BY <2>6, <3>1, <4>1
      <3>2. CASE i # k + 1
        <4>1. i \in 1 .. k /\ i \in 0 .. k /\ i - 1 \in 0 .. k BY <3>2
        <4> QED BY <2>1, <2>5, <4>1
      <3> QED BY <3>1, <3>2
    <2> QED BY <2>4, <2>7, <2>8
  <1>3. Nat \subseteq T
    <2> HIDE DEF T
    <2> QED BY <1>1, <1>2, SetInduction
  <1>4. n \in T BY <1>3
  <1>5. \E f \in [0 .. n -> X] : P(n, f) BY <1>4
  <1> QED BY <1>5 DEF Iterates

---------------------------------------------------------------------------
(***************************************************************************)
(* The table: chains, lookups, insertions, removals and rehashing.         *)
(***************************************************************************)
Entry == Id \cup {Null, Tombstone}

\* An empty slot and a tombstone are no strings.
LEMMA Names == Null \notin Id /\ Tombstone \notin Id /\ Tombstone # Null /\ MaxStrings \in Nat
  <1> QED BY SizesAssumption DEF Null, Tombstone, Id

\* The first place of a sequence that passes a test.
LEMMA FirstIn ==
  ASSUME NEW n \in Nat, NEW J \in SUBSET (1 .. n)
  PROVE  LET i == IF J # {} THEN Min(J) ELSE 0
         IN  /\ i \in 0 .. n
             /\ i = 0 <=> J = {}
             /\ i # 0 => i \in J
             /\ \A j \in 1 .. n : j \in J => i # 0 /\ i <= j
  <1>1. J \subseteq Nat OBVIOUS
  <1>2. CASE J = {} BY <1>2
  <1>3. CASE J # {}
    <2>1. Min(J) \in J /\ \A j \in J : Min(J) <= j BY <1>1, <1>3, MinIsLeast
    <2>2. Min(J) \in 1 .. n BY <2>1
    <2> QED BY <1>3, <2>1, <2>2
  <1> QED BY <1>2, <1>3

\* A chain ends at the first empty slot.
LEMMA ChainMeans ==
  ASSUME NEW t, Len(t) \in Nat \ {0}, NEW hash \in Nat
  PROVE  /\ Chain(t, hash) \in 0 .. Len(t)
         /\ \A i \in 1 .. Chain(t, hash) : t[Probe(t, hash)[i]] # Null
         /\ Chain(t, hash) # Len(t) =>
               /\ Chain(t, hash) + 1 \in 1 .. Len(t)
               /\ t[Probe(t, hash)[Chain(t, hash) + 1]] = Null
  <1> DEFINE N == Len(t)
             p == Probe(t, hash)
             J == {i \in 1 .. Len(p) : t[p[i]] = Null}
             gap == IF J # {} THEN Min(J) ELSE 0
  <1>1. Len(p) = N /\ N \in Nat \ {0} BY ProbeType
  <1>2. Chain(t, hash) = IF gap = 0 THEN N ELSE gap - 1
    BY DEF Chain, SelectInSeq
  <1> HIDE DEF p, N
  <1>3. J \in SUBSET (1 .. N) BY <1>1
  <1>4. /\ gap \in 0 .. N
        /\ gap = 0 <=> J = {}
        /\ gap # 0 => gap \in J
        /\ \A j \in 1 .. N : j \in J => gap # 0 /\ gap <= j
    <2> HIDE DEF J
    <2> QED BY <1>1, <1>3, FirstIn
  <1>5. \A j \in 1 .. N : j \in J <=> t[p[j]] = Null BY <1>1
  <1> HIDE DEF gap, J
  <1>6. CASE gap = 0 BY <1>1, <1>2, <1>4, <1>5, <1>6 DEF N, p
  <1>7. CASE gap # 0
    <2>1. gap \in 1 .. N /\ gap - 1 \in 0 .. N /\ (gap - 1) + 1 = gap /\ gap - 1 # N
      BY <1>1, <1>4, <1>7
    <2>2. \A i \in 1 .. gap - 1 : i \in 1 .. N /\ ~(gap <= i) BY <1>1, <2>1
    <2>3. \A i \in 1 .. gap - 1 : t[p[i]] # Null BY <1>4, <1>5, <2>2
    <2> QED BY <1>2, <1>4, <1>5, <1>7, <2>1, <2>3 DEF N, p
  <1> QED BY <1>6, <1>7

\* What a lookup finds: an entry of the chain with that hash and that text.
Hit(h, t, c, i) ==
    LET e == t[Probe(t, Hash(c))[i]]
    IN  e \in Id /\ h[e].hash = Hash(c) /\ h[e].content = c

\* Heap.hash_string returns a number, which Deferred is not.
LEMMA HashType == \A c \in Nat : Hash(c) \in Nat
  <1> QED BY DEF Hash

\* str_table_lookup: null if no entry of the chain has the text, else one that has.
LEMMA LookupMeans ==
  ASSUME NEW h, NEW t, Len(t) \in Nat \ {0}, NEW c \in Nat
  PROVE  /\ Lookup(h, t, c) = Null =>
               \A i \in 1 .. Chain(t, Hash(c)) : ~Hit(h, t, c, i)
         /\ Lookup(h, t, c) # Null =>
               \E i \in 1 .. Chain(t, Hash(c)) :
                  Hit(h, t, c, i) /\ Lookup(h, t, c) = t[Probe(t, Hash(c))[i]]
  <1> DEFINE x == Hash(c)
             n == Chain(t, x)
             path == SubSeq(Probe(t, x), 1, n)
             Test(p) == t[p] \in Id /\ h[t[p]].hash = x /\ h[t[p]].content = c
             J == {i \in 1 .. Len(path) : Test(path[i])}
             hit == IF J # {} THEN Min(J) ELSE 0
  <1>1. x \in Nat BY HashType
  <1>2. n \in 0 .. Len(t) BY <1>1, ChainMeans
  <1>3. Probe(t, x) \in Seq(1 .. Len(t)) /\ Len(Probe(t, x)) = Len(t)
    BY <1>1, ProbeType
  <1>4. Lookup(h, t, c) = IF hit = 0 THEN Null ELSE t[path[hit]]
        BY DEF Lookup, SelectInSeq
  <1>5. Len(path) = n /\ \A i \in 1 .. n : path[i] = Probe(t, x)[i]
    <2> DEFINE q == Probe(t, x)
    <2>1. q \in Seq(1 .. Len(t)) /\ Len(q) = Len(t) /\ n \in 0 .. Len(q)
      BY <1>2, <1>3
    <2> HIDE DEF q, n
    <2>2. Len(SubSeq(q, 1, n)) = n /\ \A i \in 1 .. n : SubSeq(q, 1, n)[i] = q[i]
      BY <2>1
    <2> QED BY <2>2 DEF q
  <1> HIDE DEF path
  <1>6. \A i \in 1 .. n : Hit(h, t, c, i) <=> Test(path[i]) BY <1>5 DEF Hit
  <1> HIDE DEF n, x, Test
  <1>7. \A i \in 1 .. n : i \in J <=> Hit(h, t, c, i) BY <1>5, <1>6
  <1>8. n \in Nat /\ J \in SUBSET (1 .. n) BY <1>2, <1>5
  <1> HIDE DEF J
  <1>9. /\ hit \in 0 .. n
        /\ hit = 0 <=> J = {}
        /\ hit # 0 => hit \in J
        BY <1>8, FirstIn
  <1> HIDE DEF hit
  <1>10. CASE hit = 0
    <2>1. Lookup(h, t, c) = Null BY <1>4, <1>10
    <2>2. \A i \in 1 .. n : ~Hit(h, t, c, i) BY <1>7, <1>9, <1>10
    <2> QED BY <2>1, <2>2 DEF n, x
  <1>11. CASE hit # 0
    <2>1. hit \in 1 .. n /\ Hit(h, t, c, hit) BY <1>7, <1>8, <1>9, <1>11
    <2>2. Lookup(h, t, c) = t[Probe(t, x)[hit]] BY <1>4, <1>5, <1>11, <2>1
    <2>3. t[Probe(t, x)[hit]] \in Id BY <2>1 DEF Hit, x
    <2>4. Lookup(h, t, c) # Null BY <2>2, <2>3, Names
    <2> QED BY <2>1, <2>2, <2>4 DEF n, x
  <1> QED BY <1>10, <1>11

\* s is on the chain of its hash.
Reaches(t, s, hash) ==
    \E i \in 1 .. Len(t) :
        /\ t[Probe(t, hash)[i]] = s
        /\ \A j \in 1 .. i : t[Probe(t, hash)[j]] # Null

\* The strings in the table are those of own, each in one slot that a lookup of
\* its hash comes by.
TableOk(h, t, own) ==
    /\ t \in Seq(Entry) /\ Len(t) # 0
    /\ own \subseteq Id
    /\ \A s \in own : h[s].hash \in Nat
    /\ \A i \in 1 .. Len(t) : t[i] \in Id => t[i] \in own
    /\ \A i, j \in 1 .. Len(t) : t[i] = t[j] /\ t[i] \in Id => i = j
    /\ \A s \in own : Reaches(t, s, h[s].hash)

\* A slot that a string may be put in: on the chain of its hash, or next to it.
Open(t, hash, slot) ==
    \E k \in 1 .. Len(t) :
        /\ slot = Probe(t, hash)[k]
        /\ t[slot] \notin Id
        /\ \A j \in 1 .. k - 1 : t[Probe(t, hash)[j]] # Null

\* u is the table t with s in that slot.
IsPut(u, t, slot, s) ==
    Len(u) = Len(t) /\ \A i \in 1 .. Len(t) : u[i] = IF i = slot THEN s ELSE t[i]

\* A chain's slots depend on the size of the table only.
LEMMA ProbeSame ==
  ASSUME NEW t, NEW u, Len(t) = Len(u), NEW hash
  PROVE  Probe(t, hash) = Probe(u, hash)
  <1> QED BY DEF Probe

\* The table does not look at other headers.
LEMMA TableSame ==
  ASSUME NEW h, NEW t, NEW own, TableOk(h, t, own), NEW g,
         \A s \in own : g[s].hash = h[s].hash
  PROVE  TableOk(g, t, own)
  <1> QED BY DEF TableOk

\* A string is put where its chain may go on.
LEMMA PutKeeps ==
  ASSUME NEW h, NEW t, NEW own, TableOk(h, t, own),
         NEW s \in Id, s \notin own, h[s].hash \in Nat,
         NEW slot, Open(t, h[s].hash, slot),
         NEW u, u = [t EXCEPT ![slot] = s]
  PROVE  TableOk(h, u, own \cup {s}) /\ IsPut(u, t, slot, s)
  <1>1. t \in Seq(Entry) /\ Len(t) \in Nat \ {0} BY DEF TableOk
  <1>a. PICK k \in 1 .. Len(t) :
          /\ slot = Probe(t, h[s].hash)[k]
          /\ t[slot] \notin Id
          /\ \A j \in 1 .. k - 1 : t[Probe(t, h[s].hash)[j]] # Null
        BY DEF Open
  <1>2. slot \in 1 .. Len(t) BY <1>1, <1>a, ProbeType
  <1>3. s \in Entry BY DEF Entry
  <1>4. u \in Seq(Entry) /\ Len(u) = Len(t) BY <1>1, <1>2, <1>3
  <1>5. \A i \in 1 .. Len(t) : u[i] = IF i = slot THEN s ELSE t[i]
    BY <1>1, <1>2
  <1>6. \A i \in 1 .. Len(t) : t[i] # s BY DEF TableOk
  <1>7. \A i \in 1 .. Len(u) : u[i] \in Id => u[i] \in own \cup {s}
        BY <1>4, <1>5 DEF TableOk
  <1>8. \A i, j \in 1 .. Len(u) : u[i] = u[j] /\ u[i] \in Id => i = j
        BY <1>4, <1>5, <1>6 DEF TableOk
  <1>9. \A i \in 1 .. Len(t) : t[i] # Null => u[i] # Null BY <1>5, Names
  <1>10. \A hash : Probe(u, hash) = Probe(t, hash) BY <1>4, ProbeSame
  <1>11. ASSUME NEW e \in own PROVE Reaches(u, e, h[e].hash)
    <2> DEFINE p == Probe(t, h[e].hash)
    <2>1. PICK i \in 1 .. Len(t) : t[p[i]] = e /\ \A j \in 1 .. i : t[p[j]] # Null
          BY DEF TableOk, Reaches
    <2>2. h[e].hash \in Nat BY DEF TableOk
    <2>3. \A j \in 1 .. Len(t) : p[j] \in 1 .. Len(t) BY <1>1, <2>2, ProbeType
    <2> HIDE DEF p
    <2>4. e \in Id BY DEF TableOk
    <2>5. p[i] # slot BY <1>a, <2>1, <2>4
    <2>6. u[p[i]] = e BY <1>5, <2>1, <2>3, <2>5
    <2>7. \A j \in 1 .. i : j \in 1 .. Len(t) BY <1>1
    <2>8. \A j \in 1 .. i : u[p[j]] # Null BY <1>9, <2>1, <2>3, <2>7
    <2> QED BY <1>4, <1>10, <2>6, <2>8 DEF Reaches, p
  <1>12. Reaches(u, s, h[s].hash)
    <2> DEFINE p == Probe(t, h[s].hash)
    <2>1. \A j \in 1 .. Len(t) : p[j] \in 1 .. Len(t) BY <1>1, ProbeType
    <2>2. u[p[k]] = s BY <1>2, <1>5, <1>a
    <2>3. \A j \in 1 .. k : j = k \/ (j \in 1 .. k - 1 /\ j \in 1 .. Len(t))
      BY <1>1
    <2>4. \A j \in 1 .. k : u[p[j]] # Null
      BY <1>9, <1>a, <2>1, <2>2, <2>3, Names
    <2> HIDE DEF p
    <2> QED BY <1>4, <1>10, <2>2, <2>4 DEF Reaches, p
  <1>13. \A e \in own \cup {s} : h[e].hash \in Nat BY DEF TableOk
  <1>14. own \cup {s} \subseteq Id BY DEF TableOk
  <1>15. Len(u) # 0 BY <1>1, <1>4
  <1> QED
    BY <1>4, <1>5, <1>7, <1>8, <1>11, <1>12, <1>13, <1>14, <1>15 DEF TableOk, IsPut

\* The slot of str_table_insert.
LEMMA FreeSlotMeans ==
  ASSUME NEW t \in Seq(Entry), Len(t) # 0, NEW hash \in Nat
  PROVE  /\ FreeSlot(t, hash) # 0 =>
               Open(t, hash, FreeSlot(t, hash))
         /\ (\E i \in 1 .. Len(t) : t[i] \notin Id) => FreeSlot(t, hash) # 0
  <1> DEFINE N == Len(t)
             p == Probe(t, hash)
             n == Chain(t, hash)
             q == SubSeq(p, 1, n)
             J == {i \in 1 .. Len(q) : t[q[i]] = Tombstone}
             grave == IF J # {} THEN Min(J) ELSE 0
  <1>1. N \in Nat \ {0} OBVIOUS
  <1>2. p \in Seq(1 .. N) /\ Len(p) = N /\ \A i \in 1 .. N : p[i] \in 1 .. N
        BY <1>1, ProbeType
  <1>3. /\ n \in 0 .. N
        /\ \A i \in 1 .. n : t[p[i]] # Null
        /\ n # N => n + 1 \in 1 .. N /\ t[p[n + 1]] = Null
        BY <1>1, ChainMeans
  <1>4. FreeSlot(t, hash) = CASE grave # 0 -> p[grave]
                              [] grave = 0 /\ n < Len(t) -> p[n + 1]
                              [] OTHER -> 0
        BY DEF FreeSlot, SelectInSeq
  <1>c. \A i \in 1 .. N : \E k \in 1 .. N : p[k] = i BY <1>1, ProbeCovers
  <1> HIDE DEF p, n
  <1>5. Len(q) = n /\ \A i \in 1 .. n : q[i] = p[i]
    <2> HIDE DEF N
    <2> QED BY <1>2, <1>3
  <1> HIDE DEF q
  <1>6. n \in Nat /\ J \in SUBSET (1 .. n) BY <1>3, <1>5
  <1>7. \A i \in 1 .. n : i \in J <=> t[p[i]] = Tombstone BY <1>5
  <1> HIDE DEF J
  <1>8. /\ grave \in 0 .. n
        /\ grave = 0 <=> J = {}
        /\ grave # 0 => grave \in J
        BY <1>6, FirstIn
  <1> HIDE DEF grave
  <1>9. CASE grave # 0
    <2>1. grave \in 1 .. N /\ grave \in 1 .. n BY <1>3, <1>6, <1>8, <1>9
    <2>2. FreeSlot(t, hash) = p[grave] /\ t[p[grave]] = Tombstone
          BY <1>4, <1>7, <1>8, <1>9, <2>1
    <2>3. \A j \in 1 .. grave - 1 : j \in 1 .. n BY <1>6, <2>1
    <2>4. p[grave] # 0 BY <1>2, <2>1
    <2> QED BY <1>3, <2>1, <2>2, <2>3, <2>4, Names DEF p, N, Open
  <1>10. CASE grave = 0 /\ n < N
    <2>1. FreeSlot(t, hash) = p[n + 1] BY <1>4, <1>10 DEF N
    <2>2. n + 1 \in 1 .. N /\ t[p[n + 1]] = Null BY <1>3, <1>10
    <2>3. \A j \in 1 .. (n + 1) - 1 : j \in 1 .. n BY <1>6
    <2>4. p[n + 1] # 0 BY <1>2, <2>2
    <2> QED BY <1>3, <2>1, <2>2, <2>3, <2>4, Names DEF p, N, Open
  <1>11. CASE grave = 0 /\ ~(n < N)
    <2>1. FreeSlot(t, hash) = 0 BY <1>4, <1>11 DEF N
    <2>2. n = N BY <1>1, <1>3, <1>11
    <2>3. \A k \in 1 .. N : t[p[k]] # Null /\ t[p[k]] # Tombstone
          BY <1>3, <1>7, <1>8, <1>11, <2>2
    <2>4. \A i \in 1 .. N : t[i] # Null /\ t[i] # Tombstone BY <1>c, <2>3
    <2>5. \A i \in 1 .. N : t[i] \in Id BY <1>1, <2>4 DEF Entry, N
    <2> QED BY <2>1, <2>5 DEF N
  <1> QED BY <1>9, <1>10, <1>11

\* A removed string leaves a tombstone, over which chains go on.
LEMMA EntombKeeps ==
  ASSUME NEW h, NEW t, NEW own, TableOk(h, t, own), NEW dead, dead \subseteq Id
  PROVE  /\ TableOk(h, Entomb(t, dead), own \ dead)
         /\ Len(Entomb(t, dead)) = Len(t)
  <1> DEFINE u == Entomb(t, dead)
  <1>1. t \in Seq(Entry) /\ Len(t) \in Nat /\ Len(t) # 0 BY DEF TableOk
  <1>2. u = [i \in 1 .. Len(t) |-> IF t[i] \in dead THEN Tombstone ELSE t[i]]
        BY DEF Entomb
  <1>3. \A i \in 1 .. Len(t) : u[i] = IF t[i] \in dead THEN Tombstone ELSE t[i]
        BY <1>2
  <1>4. \A i \in 1 .. Len(t) : (IF t[i] \in dead THEN Tombstone ELSE t[i]) \in Entry
        BY <1>1 DEF Entry
  <1>5. u \in Seq(Entry) /\ Len(u) = Len(t) BY <1>1, <1>2, <1>4
  <1> HIDE DEF u
  <1>6. \A i \in 1 .. Len(t) : u[i] \in Id => u[i] = t[i] /\ t[i] \notin dead
        BY <1>3, Names
  <1>7. \A i \in 1 .. Len(t) : t[i] # Null => u[i] # Null BY <1>3, Names
  <1>8. ASSUME NEW e \in own \ dead PROVE Reaches(u, e, h[e].hash)
    <2> DEFINE p == Probe(t, h[e].hash)
    <2>1. PICK i \in 1 .. Len(t) : t[p[i]] = e /\ \A j \in 1 .. i : t[p[j]] # Null
          BY DEF TableOk, Reaches
    <2>2. h[e].hash \in Nat /\ Len(t) \in Nat \ {0} BY <1>1 DEF TableOk
    <2>3. \A j \in 1 .. Len(t) : p[j] \in 1 .. Len(t) BY <2>2, ProbeType
    <2>4. p = Probe(u, h[e].hash) BY <1>5, ProbeSame
    <2> HIDE DEF p
    <2>5. u[p[i]] = e BY <1>3, <2>1, <2>3
    <2>6. \A j \in 1 .. i : j \in 1 .. Len(t) BY <1>1
    <2>7. \A j \in 1 .. i : u[p[j]] # Null BY <1>7, <2>1, <2>3, <2>6
    <2> QED BY <1>5, <2>4, <2>5, <2>7 DEF Reaches
  <1>9. TableOk(h, u, own \ dead)
    <2>1. own \ dead \subseteq Id /\ \A s \in own \ dead : h[s].hash \in Nat
      BY DEF TableOk
    <2>2. \A i \in 1 .. Len(u) : u[i] \in Id => u[i] \in own \ dead
          BY <1>5, <1>6 DEF TableOk
    <2>3. \A i, j \in 1 .. Len(u) : u[i] = u[j] /\ u[i] \in Id => i = j
          BY <1>5, <1>6 DEF TableOk
    <2> QED BY <1>1, <1>5, <1>8, <2>1, <2>2, <2>3 DEF TableOk
  <1> QED BY <1>5, <1>9 DEF u

\* The strings fit into the slots, and fill them only if there are as many.
LEMMA TableFits ==
  ASSUME NEW h, NEW t, NEW own, TableOk(h, t, own)
  PROVE  /\ IsFiniteSet(own) /\ Cardinality(own) \in Nat
         /\ Cardinality(own) <= Len(t)
         /\ (\A i \in 1 .. Len(t) : t[i] \in Id) => Cardinality(own) = Len(t)
  <1> DEFINE N == Len(t)
             P == {i \in 1 .. N : t[i] \in Id}
             f == [i \in P |-> t[i]]
  <1>1. N \in Nat /\ N # 0 BY DEF TableOk
  <1>2. f \in Bijection(P, own)
    <2>1. f \in [P -> own] BY DEF TableOk
    <2>2. \A i, j \in P : f[i] = f[j] => i = j BY DEF TableOk
    <2>3. ASSUME NEW s \in own PROVE \E i \in P : f[i] = s
      <3> DEFINE p == Probe(t, h[s].hash)
      <3>1. PICK i \in 1 .. N : t[p[i]] = s BY DEF TableOk, Reaches
      <3>2. h[s].hash \in Nat /\ s \in Id BY DEF TableOk
      <3>3. p[i] \in 1 .. N BY <1>1, <3>2, ProbeType
      <3> HIDE DEF p
      <3> QED BY <3>1, <3>2, <3>3
    <2> HIDE DEF f, P
    <2> QED
      BY <2>1, <2>2, <2>3 DEF Bijection, Injection, IsInjective, Surjection
  <1> HIDE DEF f
  <1>3. IsFiniteSet(1 .. N) /\ Cardinality(1 .. N) = N
    <2> HIDE DEF N
    <2>1. IsFiniteSet(1 .. N) /\ Cardinality(1 .. N) = IF 1 > N THEN 0 ELSE N - 1 + 1
          BY <1>1, FS_Interval
    <2> QED BY <1>1, <2>1
  <1>4. P \subseteq 1 .. N OBVIOUS
  <1>5. IsFiniteSet(P) /\ Cardinality(P) <= N
    <2> HIDE DEF P, N
    <2> QED BY <1>3, <1>4, FS_Subset
  <1>6. ExistsBijection(P, own) BY <1>2 DEF ExistsBijection
  <1>7. IsFiniteSet(own) /\ Cardinality(own) = Cardinality(P)
    <2> HIDE DEF P
    <2> QED BY <1>5, <1>6, FS_Bijection
  <1>8. (\A i \in 1 .. N : t[i] \in Id) => P = 1 .. N OBVIOUS
  <1>9. Cardinality(own) \in Nat BY <1>7, FS_CardinalityType
  <1> HIDE DEF P
  <1> QED BY <1>3, <1>5, <1>7, <1>8, <1>9

\* An entry is placed in the first empty slot of its chain.
LEMMA PlaceMeans ==
  ASSUME NEW h, NEW t, Len(t) \in Nat \ {0}, NEW s, h[s].hash \in Nat,
         \E i \in 1 .. Len(t) : t[i] = Null
  PROVE  \E slot : Open(t, h[s].hash, slot) /\ Place(h, t, s) = [t EXCEPT ![slot] = s]
  <1> DEFINE N == Len(t)
             x == h[s].hash
             p == Probe(t, x)
             J == {i \in 1 .. Len(p) : t[p[i]] = Null}
             k == IF J # {} THEN Min(J) ELSE 0
             u == Place(h, t, s)
  <1>1. N \in Nat \ {0} /\ x \in Nat OBVIOUS
  <1>3. u = [t EXCEPT ![p[k]] = s] BY DEF Place, SelectInSeq
  <1>4. PICK i \in 1 .. N : t[i] = Null OBVIOUS
  <1> HIDE DEF J, k, u, x
  <1>2. Len(p) = N BY <1>1, ProbeType
  <1>5. \E j \in 1 .. N : p[j] = i BY <1>1, <1>4, ProbeCovers
  <1> HIDE DEF p, N
  <1>6. PICK j \in 1 .. N : p[j] = i BY <1>5
  <1>7. J \in SUBSET (1 .. N) /\ j \in J /\ N \in Nat
    BY <1>1, <1>2, <1>4, <1>6 DEF J
  <1>8. \A y \in 1 .. N : y \in J <=> t[p[y]] = Null BY <1>2 DEF J
  <1>9. /\ k \in 0 .. N /\ (k = 0 <=> J = {})
        /\ k # 0 => k \in J
        /\ \A y \in 1 .. N : y \in J => k # 0 /\ k <= y
        BY <1>7, FirstIn DEF k
  <1>10. k \in 1 .. N /\ t[p[k]] = Null BY <1>1, <1>7, <1>8, <1>9
  <1>11. \A y \in 1 .. k - 1 : y \in 1 .. N /\ ~(k <= y) BY <1>1, <1>10
  <1>12. \A y \in 1 .. k - 1 : t[p[y]] # Null BY <1>8, <1>9, <1>11
  <1>13. Open(t, x, p[k]) BY <1>10, <1>12, Names DEF Open, p, N
  <1> QED BY <1>3, <1>13 DEF u, x

\* Rehashing in str_table_grow, one entry: the new array gains that string.
LEMMA PlaceKeeps ==
  ASSUME NEW h, NEW t, NEW own, TableOk(h, t, own),
         NEW s \in Id, s \notin own, h[s].hash \in Nat,
         \A i \in 1 .. Len(t) : t[i] # Tombstone,
         \E i \in 1 .. Len(t) : t[i] = Null
  PROVE  /\ TableOk(h, Place(h, t, s), own \cup {s}) /\ Len(Place(h, t, s)) = Len(t)
         /\ \A i \in 1 .. Len(t) : Place(h, t, s)[i] # Tombstone
  <1> DEFINE u == Place(h, t, s)
  <1>1. Len(t) \in Nat \ {0} BY DEF TableOk
  <1>2. PICK slot : Open(t, h[s].hash, slot) /\ u = [t EXCEPT ![slot] = s]
        BY <1>1, PlaceMeans, SMTT(60)
  <1> HIDE DEF u
  <1>3. TableOk(h, u, own \cup {s}) /\ IsPut(u, t, slot, s) BY <1>2, PutKeeps
  <1>4. \A i \in 1 .. Len(t) : u[i] # Tombstone BY <1>3, Names DEF IsPut
  <1> QED BY <1>3, <1>4 DEF u, IsPut

\* f[i] is the new array when the first i slots of t are rehashed.
Rehashing(f, h, t, size) ==
    /\ Rehash(h, t, size) = f[Len(t)]
    /\ f[0] = [p \in 1 .. size |-> Null]
    /\ \A i \in 1 .. Len(t) :
          f[i] = IF t[i] \in Id THEN Place(h, f[i - 1], t[i]) ELSE f[i - 1]

\* The array str_table_grow builds, slot by slot.
LEMMA RehashMeans ==
  ASSUME NEW h, NEW t, Len(t) \in Nat, NEW size
  PROVE  \E f : Rehashing(f, h, t, size)
  <1> DEFINE N == Len(t)
             a == [p \in 1 .. size |-> Null]
             step(i, b) == IF t[i] \in Id THEN Place(h, b, t[i]) ELSE b
             Placed(f) == f = [i \in 0 .. N |-> IF i = 0 THEN a
                                                ELSE IF t[i] \in Id THEN Place(h, f[i - 1], t[i])
                                                ELSE f[i - 1]]
  <1>1. \E f : Placed(f)
    <2> DEFINE X == [1 .. size -> Id \cup {Null}]
               g == [i \in 1 .. N |-> [b \in X |-> step(i, b)]]
    <2>1. a \in X OBVIOUS
    <2>2. ASSUME NEW i \in 1 .. N, NEW b \in X PROVE step(i, b) \in X
          BY DEF Place
    <2>3. g \in [1 .. N -> [X -> X]] BY <2>2
    <2>4. \A i \in 1 .. N : \A b \in X : g[i][b] = step(i, b) OBVIOUS
    <2>a. N \in Nat OBVIOUS
    <2> HIDE DEF g, X, a, step, N
    <2>b. Steps(g, N, X) BY <2>3 DEF Steps
    <2>c. PICK f : Iterates(f, N, X, a, g) BY <2>a, <2>1, <2>b, Recursion
    <2>5. f \in [0 .. N -> X] /\ f[0] = a /\ \A i \in 1 .. N : f[i] = g[i][f[i - 1]]
          BY <2>c DEF Iterates
    <2>6. ASSUME NEW i \in 1 .. N PROVE f[i] = step(i, f[i - 1])
      <3>1. i - 1 \in 0 .. N BY <2>a
      <3>2. f[i - 1] \in X BY <2>5, <3>1
      <3> QED BY <2>4, <2>5, <3>2
    <2> DEFINE e == [i \in 0 .. N |-> IF i = 0 THEN a
                                      ELSE IF t[i] \in Id THEN Place(h, f[i - 1], t[i])
                                      ELSE f[i - 1]]
    <2>7. \A i \in 0 .. N : e[i] = f[i] 
      <3>1. \A i \in 0 .. N : e[i] = IF i = 0 THEN a
                                      ELSE IF t[i] \in Id THEN Place(h, f[i - 1], t[i])
                                      ELSE f[i - 1]
            OBVIOUS
      <3>2. \A i \in 0 .. N : i # 0 => i \in 1 .. N BY <2>a
      <3> HIDE DEF e
      <3> QED BY <2>5, <2>6, <3>1, <3>2 DEF step
    <2>8. e = [i \in 0 .. N |-> e[i]] OBVIOUS
    <2>9. f = [i \in 0 .. N |-> f[i]] BY <2>5
    <2>10. e = f
      <3> HIDE DEF e
      <3> QED BY <2>7, <2>8, <2>9
    <2>11. Placed(f) BY <2>10
    <2> QED BY <2>11
  <1> DEFINE w == CHOOSE f : Placed(f)
  <1>2. Rehash(h, t, size) = w[N] BY DEF Rehash
  <1>3. Placed(w) BY <1>1
  <1> HIDE DEF w
  <1>4. w[0] = a /\ \A i \in 1 .. N : w[i] = IF t[i] \in Id THEN Place(h, w[i - 1], t[i])
                                             ELSE w[i - 1]
    <2>1. \A i \in 0 .. N : w[i] = IF i = 0 THEN a
                                   ELSE IF t[i] \in Id THEN Place(h, w[i - 1], t[i])
                                   ELSE w[i - 1]
      <3> DEFINE e == [i \in 0 .. N |-> IF i = 0 THEN a
                                      ELSE IF t[i] \in Id THEN Place(h, w[i - 1], t[i])
                                      ELSE w[i - 1]]
      <3>1. \A i \in 0 .. N : e[i] = IF i = 0 THEN a
                                      ELSE IF t[i] \in Id THEN Place(h, w[i - 1], t[i])
                                      ELSE w[i - 1]
            OBVIOUS
      <3>2. w = e BY <1>3
      <3> HIDE DEF e
      <3> QED BY <3>1, <3>2
    <2>2. 0 \in 0 .. N /\ \A i \in 1 .. N : i \in 0 .. N /\ i # 0 OBVIOUS
    <2> HIDE DEF a
    <2> QED BY <2>1, <2>2
  <1> QED BY <1>2, <1>4 DEF Rehashing

\* The texts of the strings reached after i slots, in an array without tombstones.
PartOf(t, i) == {t[j] : j \in 1 .. i} \cap Id
IsClean(h, u, own, size) ==
    TableOk(h, u, own) /\ Len(u) = size /\ \A j \in 1 .. size : u[j] # Tombstone

\* A table with fewer strings than slots has a slot without one.
LEMMA HasRoom ==
  ASSUME NEW h, NEW t, NEW own, TableOk(h, t, own), Cardinality(own) < Len(t)
  PROVE  \E i \in 1 .. Len(t) : t[i] \notin Id
  <1>1. Len(t) \in Nat BY DEF TableOk
  <1> QED BY <1>1, TableFits

\* str_table_grow and str_table_shrink carry every string over and leave no
\* tombstone.
LEMMA RehashKeeps ==
  ASSUME NEW h, NEW t, NEW own, TableOk(h, t, own),
         NEW size \in Nat \ {0}, Cardinality(own) <= size
  PROVE  IsClean(h, Rehash(h, t, size), own, size)
  <1> DEFINE N == Len(t)
  <1>1. N \in Nat /\ t \in Seq(Entry) BY DEF TableOk
  <1>2. IsFiniteSet(own) /\ Cardinality(own) \in Nat BY TableFits
  <1>a. PICK f : Rehashing(f, h, t, size) BY <1>1, RehashMeans
  <1>3. /\ Rehash(h, t, size) = f[N]
        /\ f[0] = [p \in 1 .. size |-> Null]
        /\ \A i \in 1 .. N :
              f[i] = IF t[i] \in Id THEN Place(h, f[i - 1], t[i]) ELSE f[i - 1]
        BY <1>a DEF Rehashing
  <1> DEFINE T == {i \in Nat : i <= N => IsClean(h, f[i], PartOf(t, i), size)}
  <1>4. \A i \in 0 .. N : PartOf(t, i) \subseteq own
        BY <1>1 DEF PartOf, TableOk
  <1>5. 0 \in T
    <2>1. PartOf(t, 0) = {} BY DEF PartOf
    <2>2. f[0] \in Seq(Entry) /\ Len(f[0]) = size BY <1>3 DEF Entry
    <2>3. \A j \in 1 .. size : f[0][j] = Null BY <1>3
    <2>4. IsClean(h, f[0], {}, size) BY <2>2, <2>3, Names DEF IsClean, TableOk
    <2> QED BY <2>1, <2>4
  <1>6. ASSUME NEW i \in Nat, i \in T PROVE i + 1 \in T
    <2> SUFFICES ASSUME i + 1 <= N PROVE IsClean(h, f[i + 1], PartOf(t, i + 1), size)
        OBVIOUS
    <2> DEFINE s == t[i + 1]
               u == f[i]
               own1 == PartOf(t, i)
    <2>1. i + 1 \in 1 .. N /\ (i + 1) - 1 = i /\ i \in 0 .. N BY <1>1
    <2>a. i <= N BY <1>1
    <2>2. IsClean(h, u, own1, size) BY <1>6, <2>a
    <2>3. f[i + 1] = IF s \in Id THEN Place(h, u, s) ELSE u BY <1>3, <2>1
    <2>4. PartOf(t, i + 1) = own1 \cup ({s} \cap Id)
      <3>1. 1 .. i + 1 = 1 .. i \cup {i + 1} OBVIOUS
      <3> QED BY <3>1 DEF PartOf
    <2>5. s \in Id => s \in own /\ s \notin own1
      <3>1. \A j \in 1 .. i : j \in 1 .. N /\ j # i + 1 BY <1>1
      <3> QED BY <2>1, <3>1 DEF PartOf, TableOk
    <2>6. own1 \subseteq own BY <1>4, <2>1
    <2> HIDE DEF s, u, own1, N
    <2>7. CASE s \notin Id
      <3>1. PartOf(t, i + 1) = own1 BY <2>4, <2>7
      <3> QED BY <2>2, <2>3, <2>7, <3>1
    <2>8. CASE s \in Id
      <3>1. PartOf(t, i + 1) = own1 \cup {s} BY <2>4, <2>8
      <3>2. h[s].hash \in Nat BY <2>5, <2>8 DEF TableOk
      <3>3. own1 \subseteq own \ {s} BY <2>5, <2>6, <2>8
      <3>4. IsFiniteSet(own \ {s}) /\ Cardinality(own \ {s}) = Cardinality(own) - 1
            BY <1>2, <2>5, <2>8, FS_RemoveElement
      <3>5. Cardinality(own1) <= Cardinality(own) - 1 BY <3>3, <3>4, FS_Subset
      <3>6. TableOk(h, u, own1) /\ Len(u) = size /\ \A j \in 1 .. size : u[j] # Tombstone
            BY <2>2 DEF IsClean
      <3>7. Cardinality(own1) \in Nat BY <3>6, TableFits
      <3>8. Cardinality(own1) < Len(u) BY <1>2, <3>5, <3>6, <3>7
      <3>9. \E j \in 1 .. size : u[j] \notin Id BY <3>6, <3>8, HasRoom
      <3>10. \A j \in 1 .. size : u[j] \in Entry BY <3>6 DEF TableOk
      <3>11. \E j \in 1 .. Len(u) : u[j] = Null BY <3>6, <3>9, <3>10 DEF Entry
      <3>12. \A j \in 1 .. Len(u) : u[j] # Tombstone BY <3>6
      <3>13. s \notin own1 BY <2>5, <2>8
      <3>14. /\ TableOk(h, Place(h, u, s), own1 \cup {s}) /\ Len(Place(h, u, s)) = Len(u)
             /\ \A j \in 1 .. Len(u) : Place(h, u, s)[j] # Tombstone
             BY <2>8, <3>2, <3>6, <3>11, <3>12, <3>13, PlaceKeeps
      <3> QED BY <2>3, <2>8, <3>1, <3>6, <3>14 DEF IsClean
    <2> QED BY <2>7, <2>8
  <1>7. Nat \subseteq T
    <2> HIDE DEF T
    <2> QED BY <1>5, <1>6, SetInduction
  <1>8. IsClean(h, f[N], PartOf(t, N), size) BY <1>1, <1>7
  <1>9. own \subseteq PartOf(t, N)
    <2> SUFFICES ASSUME NEW s \in own PROVE s \in PartOf(t, N)
        OBVIOUS
    <2> DEFINE p == Probe(t, h[s].hash)
    <2>1. PICK i \in 1 .. N : t[p[i]] = s BY DEF TableOk, Reaches
    <2>2. h[s].hash \in Nat /\ s \in Id /\ Len(t) \in Nat \ {0} BY DEF TableOk
    <2>3. p[i] \in 1 .. N BY <2>2, ProbeType
    <2> HIDE DEF p
    <2> QED BY <2>1, <2>2, <2>3 DEF PartOf
  <1>b. N \in 0 .. N BY <1>1
  <1>10. PartOf(t, N) = own BY <1>4, <1>9, <1>b
  <1> QED BY <1>3, <1>8, <1>10

---------------------------------------------------------------------------
(***************************************************************************)
(* The sizes a table can have, and what growing and shrinking keep.        *)
(***************************************************************************)
\* The sizes a table can have: its first one, doubled and halved again.
Doublings ==
    {n \in Nat : \A S \in SUBSET Nat :
        InitialSize \in S /\ (\A m \in S : 2 * m \in S) => n \in S}

\* The sizes are the multiples of the first one by powers of two.
LEMMA Sizes ==
  /\ InitialSize \in Doublings
  /\ \A n \in Doublings : 2 * n \in Doublings
  /\ \A n \in Doublings : n \in Nat /\ InitialSize <= n
  /\ \A n \in Doublings : n > InitialSize => n \div 2 \in Doublings
  <1>1. InitialSize \in Nat \ {0} BY SizesAssumption
  <1>2. InitialSize \in Doublings BY <1>1 DEF Doublings
  <1>3. \A n \in Doublings : 2 * n \in Doublings BY DEF Doublings
  <1>4. ASSUME NEW n \in Doublings PROVE InitialSize <= n
    <2> DEFINE S == {m \in Nat : InitialSize <= m}
    <2>1. S \in SUBSET Nat /\ InitialSize \in S /\ \A m \in S : 2 * m \in S
      BY <1>1
    <2>2. n \in S BY <2>1 DEF Doublings
    <2> QED BY <2>2
  <1>5. ASSUME NEW n \in Doublings, n > InitialSize PROVE n \div 2 \in Doublings
    <2> DEFINE S == {m \in Doublings : m = InitialSize \/ \E k \in Doublings : m = 2 * k}
    <2>1. S \in SUBSET Nat BY DEF Doublings
    <2>2. InitialSize \in S BY <1>2
    <2>3. \A m \in S : 2 * m \in S BY <1>3
    <2>4. n \in S BY <2>1, <2>2, <2>3 DEF Doublings
    <2>5. n # InitialSize
      <3>1. n \in Nat BY DEF Doublings
      <3> QED BY <1>1, <1>5, <3>1
    <2>6. PICK k \in Doublings : n = 2 * k BY <2>4, <2>5
    <2>7. k \in Nat BY DEF Doublings
    <2>8. n \div 2 = k BY <2>6, <2>7
    <2> QED BY <2>8
  <1>6. \A n \in Doublings : n \in Nat BY DEF Doublings
  <1> QED BY <1>2, <1>3, <1>4, <1>5, <1>6

\* A table of a possible size.
Fits(t) == Len(t) \in Doublings /\ Len(t) <= MaxSize

\* str_table_grow, or the insert it fails for: nothing is lost, and a table that
\* grew has room.
LEMMA GrownKeeps ==
  ASSUME NEW h, NEW t, NEW own, TableOk(h, t, own), Fits(t), NEW n, NEW memory
  PROVE  LET u == Grown(h, t, n, memory)
         IN  /\ TableOk(h, u, own) /\ Fits(u)
             /\ u = t \/ \E i \in 1 .. Len(u) : u[i] \notin Id
  <1> DEFINE u == Grown(h, t, n, memory)
             v == Rehash(h, t, 2 * Len(t))
  <1>1. Len(t) \in Nat \ {0} BY DEF TableOk
  <1>2. u = t \/ (u = v /\ 2 * Len(t) <= MaxSize) BY DEF Grown
  <1>3. CASE u = t BY <1>3
  <1>4. CASE u = v /\ 2 * Len(t) <= MaxSize
    <2>1. Cardinality(own) \in Nat /\ Cardinality(own) <= Len(t) BY TableFits
    <2> DEFINE size == 2 * Len(t)
    <2>2. size \in Nat \ {0} /\ Cardinality(own) <= size /\ Cardinality(own) < size
          BY <1>1, <2>1
    <2> HIDE DEF size
    <2>3. IsClean(h, Rehash(h, t, size), own, size) BY <2>2, RehashKeeps
    <2>4. TableOk(h, u, own) /\ Len(u) = size BY <1>4, <2>3 DEF IsClean, size
    <2> HIDE DEF u
    <2>5. \E i \in 1 .. Len(u) : u[i] \notin Id BY <2>2, <2>4, HasRoom
    <2>6. size \in Doublings /\ size <= MaxSize BY <1>4, Sizes DEF Fits, size
    <2> QED BY <2>4, <2>5, <2>6 DEF Fits, u
  <1> QED BY <1>2, <1>3, <1>4

\* str_table_shrink: a table that emptied out keeps what it has.
LEMMA ShrunkKeeps ==
  ASSUME NEW h, NEW t, NEW own, TableOk(h, t, own), Fits(t), NEW memory
  PROVE  LET u == Shrunk(h, t, Cardinality(own), memory)
         IN  TableOk(h, u, own) /\ Fits(u)
  <1> DEFINE n == Cardinality(own)
             u == Shrunk(h, t, n, memory)
             size == Len(t) \div 2
  <1>1. Len(t) \in Nat \ {0} BY DEF TableOk
  <1>2. n \in Nat BY TableFits
  <1>3. \/ u = t
        \/ u = Rehash(h, t, size) /\ n < Len(t) \div 4 /\ Len(t) > InitialSize
        BY DEF Shrunk
  <1>4. CASE u = t BY <1>4
  <1>5. CASE u = Rehash(h, t, size) /\ n < Len(t) \div 4 /\ Len(t) > InitialSize
    <2>1. InitialSize \in Nat \ {0} /\ MaxSize \in Nat BY SizesAssumption
    <2>2. size \in Nat \ {0} /\ n <= size /\ size <= Len(t)
      <3> DEFINE L == Len(t)
      <3> HIDE DEF L, n
      <3>1. L \in Nat /\ L > 1 /\ n < L \div 4 BY <1>1, <1>5, <2>1 DEF L
      <3>2. L \div 2 \in Nat \ {0} /\ n <= L \div 2 /\ L \div 2 <= L
        BY <1>2, <3>1
      <3> QED BY <3>2 DEF L
    <2>3. size \in Doublings BY <1>5, Sizes DEF Fits
    <2>4. size <= MaxSize BY <1>1, <2>1, <2>2 DEF Fits
    <2> HIDE DEF size, n, u
    <2>5. IsClean(h, Rehash(h, t, size), own, size) BY <2>2, RehashKeeps DEF n
    <2>6. TableOk(h, u, own) /\ Len(u) = size BY <1>5, <2>5 DEF IsClean
    <2> QED BY <2>3, <2>4, <2>6 DEF Fits, u, n
  <1> QED BY <1>3, <1>4, <1>5

\* A lookup stays within the strings of the table, and finds one that is there.
LEMMA LookupSound ==
  ASSUME NEW h, NEW t, NEW own, TableOk(h, t, own), NEW c \in Nat, Lookup(h, t, c) # Null
  PROVE  /\ Lookup(h, t, c) \in own
         /\ h[Lookup(h, t, c)].content = c
  <1> DEFINE x == Hash(c)
             s == Lookup(h, t, c)
  <1>1. x \in Nat /\ Len(t) \in Nat \ {0} BY HashType DEF TableOk
  <1>2. PICK i \in 1 .. Chain(t, x) : Hit(h, t, c, i) /\ s = t[Probe(t, x)[i]]
        BY <1>1, LookupMeans
  <1>3. i \in 1 .. Len(t) BY <1>1, <1>2, ChainMeans
  <1>4. Probe(t, x)[i] \in 1 .. Len(t) BY <1>1, <1>3, ProbeType
  <1>5. s \in Id /\ h[s].content = c BY <1>2 DEF Hit
  <1> HIDE DEF s
  <1>6. s \in own BY <1>2, <1>4, <1>5 DEF TableOk
  <1> QED BY <1>5, <1>6 DEF s

\* str_table_lookup finds the text of a string of the table.
LEMMA LookupComplete ==
  ASSUME NEW h, NEW t, NEW own, TableOk(h, t, own), NEW s \in own,
         NEW c \in Nat, h[s].hash = Hash(c), h[s].content = c
  PROVE  Lookup(h, t, c) # Null
  <1> DEFINE x == Hash(c)
             n == Chain(t, x)
             p == Probe(t, x)
  <1>1. x \in Nat /\ Len(t) \in Nat \ {0} BY HashType DEF TableOk
  <1>2. PICK i \in 1 .. Len(t) : t[p[i]] = s /\ \A j \in 1 .. i : t[p[j]] # Null
        BY DEF TableOk, Reaches
  <1>3. /\ n \in 0 .. Len(t)
        /\ n # Len(t) => n + 1 \in 1 .. Len(t) /\ t[p[n + 1]] = Null
        BY <1>1, ChainMeans
  <1>4. s \in Id BY DEF TableOk
  <1>5. Hit(h, t, c, i) BY <1>2, <1>4 DEF Hit
  <1> HIDE DEF n, p
  <1>6. ~(n + 1 <= i)
    <2>1. SUFFICES ASSUME n + 1 <= i PROVE FALSE
          OBVIOUS
    <2>2. n + 1 \in 1 .. i /\ n # Len(t) BY <1>1, <1>3, <2>1
    <2> QED BY <1>2, <1>3, <2>2
  <1>7. i \in 1 .. n BY <1>1, <1>3, <1>6
  <1> QED BY <1>1, <1>5, <1>7, LookupMeans DEF n

---------------------------------------------------------------------------
(***************************************************************************)
(* The registry.                                                           *)
(***************************************************************************)
\* The registry lists each of these strings once.
RegOk(reg, listed) ==
    /\ reg \in Seq(Id)
    /\ \A i \in 1 .. Len(reg) : reg[i] \in listed
    /\ \A i, j \in 1 .. Len(reg) : reg[i] = reg[j] => i = j
    /\ \A s \in listed : \E i \in 1 .. Len(reg) : reg[i] = s

\* The entries of the registry.
LEMMA RegRange ==
  ASSUME NEW reg, NEW listed, RegOk(reg, listed)
  PROVE  Range(reg) = listed
  <1>1. DOMAIN reg = 1 .. Len(reg) BY DEF RegOk
  <1> QED BY <1>1 DEF RegOk, Range

\* large_string_register.
LEMMA AppendKeeps ==
  ASSUME NEW reg, NEW listed, RegOk(reg, listed), NEW s \in Id, s \notin listed
  PROVE  RegOk(Append(reg, s), listed \cup {s})
  <1> DEFINE q == Append(reg, s)
             n == Len(reg)
  <1>1. reg \in Seq(Id) /\ n \in Nat BY DEF RegOk
  <1>2. q \in Seq(Id) /\ Len(q) = n + 1 BY <1>1
  <1>3. \A i \in 1 .. n : q[i] = reg[i] BY <1>1
  <1>4. q[n + 1] = s BY <1>1
  <1> HIDE DEF q
  <1>5. \A i \in 1 .. n + 1 : i = n + 1 \/ i \in 1 .. n BY <1>1
  <1>6. n + 1 \in 1 .. n + 1 /\ \A i \in 1 .. n : i \in 1 .. n + 1 BY <1>1
  <1>7. \A i \in 1 .. n : reg[i] \in listed BY DEF RegOk
  <1>8. \A i \in 1 .. Len(q) : q[i] \in listed \cup {s}
    BY <1>2, <1>3, <1>4, <1>5, <1>7
  <1>9. \A i, j \in 1 .. Len(q) : q[i] = q[j] => i = j
        BY <1>2, <1>3, <1>4, <1>5, <1>7 DEF RegOk
  <1>10. \A e \in listed \cup {s} : \E i \in 1 .. Len(q) : q[i] = e
        BY <1>2, <1>3, <1>4, <1>6 DEF RegOk
  <1> QED BY <1>2, <1>8, <1>9, <1>10 DEF RegOk, q

\* large_string_unregister: the last entry takes the place of the one removed.
LEMMA UnregisterKeeps ==
  ASSUME NEW reg, NEW listed, RegOk(reg, listed), NEW s
  PROVE  RegOk(Unregister(reg, s), listed \ {s})
  <1> DEFINE n == Len(reg)
             J == {i \in 1 .. n : reg[i] = s}
             k == IF J # {} THEN Min(J) ELSE 0
             e == [reg EXCEPT ![k] = Last(reg)]
             q == Front(e)
  <1>1. reg \in Seq(Id) /\ n \in Nat BY DEF RegOk
  <1>2. Unregister(reg, s) = IF k = 0 THEN reg ELSE q
    BY DEF Unregister, SelectInSeq
  <1>3. J \in SUBSET (1 .. n) OBVIOUS
  <1>4. \A i \in 1 .. n : i \in J <=> reg[i] = s OBVIOUS
  <1> HIDE DEF J
  <1>5. /\ k \in 0 .. n /\ (k = 0 <=> J = {})
        /\ k # 0 => k \in J
        BY <1>1, <1>3, FirstIn
  <1> HIDE DEF k
  <1>6. CASE k = 0
    <2>1. \A i \in 1 .. n : reg[i] # s BY <1>4, <1>5, <1>6
    <2>2. s \notin listed BY <2>1 DEF RegOk
    <2>3. listed \ {s} = listed BY <2>2
    <2> QED BY <1>2, <1>6, <2>3
  <1>7. CASE k # 0
    <2>1. k \in 1 .. n /\ reg[k] = s /\ n \in 1 .. n /\ n - 1 \in Nat
      BY <1>1, <1>4, <1>5, <1>7
    <2>2. Last(reg) = reg[n] BY DEF Last
    <2>3. reg[n] \in Id BY <1>1, <2>1
    <2>4. e \in Seq(Id) /\ Len(e) = n BY <1>1, <2>1, <2>2, <2>3
    <2>5. \A i \in 1 .. n : e[i] = IF i = k THEN reg[n] ELSE reg[i]
      BY <1>1, <2>1, <2>2
    <2> HIDE DEF e
    <2>6. q = SubSeq(e, 1, n - 1) BY <2>4 DEF Front
    <2>7. q \in Seq(Id) /\ Len(q) = n - 1 /\ \A i \in 1 .. n - 1 : q[i] = e[i]
      <3>1. n - 1 \in 0 .. Len(e) BY <2>1, <2>4
      <3> DEFINE m == n - 1
      <3> HIDE DEF m
      <3>2. m \in 0 .. Len(e) BY <3>1 DEF m
      <3>3. SubSeq(e, 1, m) \in Seq(Id) /\ Len(SubSeq(e, 1, m)) = m
            /\ \A i \in 1 .. m : SubSeq(e, 1, m)[i] = e[i] BY <2>4, <3>2
      <3> QED BY <2>6, <3>3 DEF m
    <2> HIDE DEF q
    <2>8. \A i \in 1 .. n - 1 : i \in 1 .. n /\ i # n BY <1>1
    <2>9. \A i \in 1 .. n - 1 : q[i] = IF i = k THEN reg[n] ELSE reg[i]
          BY <2>5, <2>7, <2>8
    <2>10. \A i, j \in 1 .. n : reg[i] = reg[j] => i = j BY DEF RegOk
    <2>11. \A i \in 1 .. n - 1 : q[i] \in listed \ {s}
      <3>1. \A i \in 1 .. n : reg[i] \in listed BY DEF RegOk
      <3> QED BY <2>1, <2>8, <2>9, <2>10, <3>1
    <2>12. \A i, j \in 1 .. n - 1 : q[i] = q[j] => i = j
      BY <2>1, <2>8, <2>9, <2>10
    <2>13. ASSUME NEW x \in listed \ {s} PROVE \E i \in 1 .. n - 1 : q[i] = x
      <3>1. PICK i \in 1 .. n : reg[i] = x BY DEF RegOk
      <3>2. i # k BY <2>1, <3>1
      <3>3. CASE i = n
        <4>1. k \in 1 .. n - 1 BY <1>1, <2>1, <3>2, <3>3
        <4>2. q[k] = x BY <2>9, <3>1, <3>3, <4>1
        <4> QED BY <4>1, <4>2
      <3>4. CASE i # n
        <4>1. i \in 1 .. n - 1 BY <1>1, <3>4
        <4>2. q[i] = x BY <2>9, <3>1, <3>2, <4>1
        <4> QED BY <4>1, <4>2
      <3> QED BY <3>3, <3>4
    <2>14. RegOk(q, listed \ {s}) BY <2>7, <2>11, <2>12, <2>13 DEF RegOk
    <2> QED BY <1>2, <1>7, <2>14
  <1> QED BY <1>6, <1>7

\* f[i] is what is left of the first i entries.
Compacting(f, reg, gone) ==
    /\ Compacted(reg, gone) = f[Len(reg)]
    /\ f[0] = <<>>
    /\ \A i \in 1 .. Len(reg) :
          f[i] = IF reg[i] \in gone THEN f[i - 1] ELSE Append(f[i - 1], reg[i])

\* The registry sweep_large_strings leaves, entry by entry.
LEMMA CompactedMeans ==
  ASSUME NEW reg \in Seq(Id), NEW gone
  PROVE  \E f : Compacting(f, reg, gone)
  <1> DEFINE N == Len(reg)
             step(i, b) == IF reg[i] \in gone THEN b ELSE Append(b, reg[i])
             Kept(f) == f = [i \in 0 .. N |-> IF i = 0 THEN <<>>
                                              ELSE IF reg[i] \in gone THEN f[i - 1]
                                              ELSE Append(f[i - 1], reg[i])]
  <1>0. N \in Nat OBVIOUS
  <1>1. \E f : Kept(f)
    <2> DEFINE X == Seq(Id)
               g == [i \in 1 .. N |-> [b \in X |-> step(i, b)]]
    <2>1. <<>> \in X OBVIOUS
    <2>2. ASSUME NEW i \in 1 .. N, NEW b \in X PROVE step(i, b) \in X
      <3>1. reg[i] \in Id OBVIOUS
      <3> QED BY <3>1
    <2>3. g \in [1 .. N -> [X -> X]] BY <2>2
    <2>4. \A i \in 1 .. N : \A b \in X : g[i][b] = step(i, b) OBVIOUS
    <2> HIDE DEF g, X, step, N
    <2>b. Steps(g, N, X) BY <2>3 DEF Steps
    <2>c. PICK f : Iterates(f, N, X, <<>>, g) BY <1>0, <2>1, <2>b, Recursion
    <2>5. f \in [0 .. N -> X] /\ f[0] = <<>> /\ \A i \in 1 .. N : f[i] = g[i][f[i - 1]]
          BY <2>c DEF Iterates
    <2>6. ASSUME NEW i \in 1 .. N PROVE f[i] = step(i, f[i - 1])
      <3>1. i - 1 \in 0 .. N BY <1>0
      <3>2. f[i - 1] \in X BY <2>5, <3>1
      <3> QED BY <2>4, <2>5, <3>2
    <2> DEFINE e == [i \in 0 .. N |-> IF i = 0 THEN <<>>
                                      ELSE IF reg[i] \in gone THEN f[i - 1]
                                      ELSE Append(f[i - 1], reg[i])]
    <2>7. \A i \in 0 .. N : e[i] = f[i]
      <3>1. \A i \in 0 .. N : e[i] = IF i = 0 THEN <<>>
                                      ELSE IF reg[i] \in gone THEN f[i - 1]
                                      ELSE Append(f[i - 1], reg[i])
            OBVIOUS
      <3>2. \A i \in 0 .. N : i # 0 => i \in 1 .. N BY <1>0
      <3> HIDE DEF e
      <3> QED BY <2>5, <2>6, <3>1, <3>2 DEF step
    <2>8. e = [i \in 0 .. N |-> e[i]] OBVIOUS
    <2>9. f = [i \in 0 .. N |-> f[i]] BY <2>5
    <2>10. e = f
      <3> HIDE DEF e
      <3> QED BY <2>7, <2>8, <2>9
    <2>11. Kept(f) BY <2>10
    <2> QED BY <2>11
  <1> DEFINE w == CHOOSE f : Kept(f)
  <1>2. Compacted(reg, gone) = w[N] BY DEF Compacted
  <1>3. Kept(w) BY <1>1
  <1> HIDE DEF w
  <1>4. \A i \in 0 .. N : w[i] = IF i = 0 THEN <<>>
                                 ELSE IF reg[i] \in gone THEN w[i - 1]
                                 ELSE Append(w[i - 1], reg[i])
    <2> DEFINE e == [i \in 0 .. N |-> IF i = 0 THEN <<>>
                                      ELSE IF reg[i] \in gone THEN w[i - 1]
                                      ELSE Append(w[i - 1], reg[i])]
    <2>1. \A i \in 0 .. N : e[i] = IF i = 0 THEN <<>>
                                   ELSE IF reg[i] \in gone THEN w[i - 1]
                                   ELSE Append(w[i - 1], reg[i])
          OBVIOUS
    <2>2. w = e BY <1>3
    <2> HIDE DEF e
    <2> QED BY <2>1, <2>2
  <1>5. 0 \in 0 .. N /\ \A i \in 1 .. N : i \in 0 .. N /\ i # 0 BY <1>0
  <1> QED BY <1>2, <1>4, <1>5 DEF Compacting

\* sweep_large_strings: the survivors stay, each one once.
LEMMA CompactedKeeps ==
  ASSUME NEW reg, NEW listed, RegOk(reg, listed), NEW gone
  PROVE  RegOk(Compacted(reg, gone), listed \ gone)
  <1> DEFINE N == Len(reg)
             upto(i) == {reg[j] : j \in 1 .. i} \ gone
  <1>1. N \in Nat /\ reg \in Seq(Id) BY DEF RegOk
  <1>a. PICK f : Compacting(f, reg, gone) BY <1>1, CompactedMeans
  <1>2. /\ Compacted(reg, gone) = f[N]
        /\ f[0] = <<>>
        /\ \A i \in 1 .. N :
              f[i] = IF reg[i] \in gone THEN f[i - 1] ELSE Append(f[i - 1], reg[i])
        BY <1>a DEF Compacting
  <1> DEFINE T == {i \in Nat : i <= N => RegOk(f[i], upto(i))}
  <1>3. 0 \in T
    <2>1. upto(0) = {} OBVIOUS
    <2>2. <<>> \in Seq(Id) /\ Len(<<>>) = 0 OBVIOUS
    <2>3. RegOk(<<>>, {}) BY <2>2 DEF RegOk
    <2> QED BY <1>2, <2>1, <2>3
  <1>4. ASSUME NEW i \in Nat, i \in T PROVE i + 1 \in T
    <2> SUFFICES ASSUME i + 1 <= N PROVE RegOk(f[i + 1], upto(i + 1))
        OBVIOUS
    <2> DEFINE s == reg[i + 1]
    <2>1. i <= N /\ i + 1 \in 1 .. N /\ (i + 1) - 1 = i BY <1>1
    <2>2. RegOk(f[i], upto(i)) BY <1>4, <2>1
    <2>3. f[i + 1] = IF s \in gone THEN f[i] ELSE Append(f[i], s) BY <1>2, <2>1
    <2>4. upto(i + 1) = IF s \in gone THEN upto(i) ELSE upto(i) \cup {s}
      <3>1. 1 .. i + 1 = 1 .. i \cup {i + 1} OBVIOUS
      <3> QED BY <3>1
    <2>5. s \notin upto(i)
      <3>1. \A j \in 1 .. i : j \in 1 .. N /\ j # i + 1 BY <1>1, <2>1
      <3>2. \A j \in 1 .. i : reg[j] # reg[i + 1] BY <2>1, <3>1 DEF RegOk
      <3> QED BY <3>2
    <2>6. s \in Id BY <1>1, <2>1
    <2> HIDE DEF s, upto
    <2>7. RegOk(Append(f[i], s), upto(i) \cup {s})
      BY <2>2, <2>5, <2>6, AppendKeeps
    <2> QED BY <2>2, <2>3, <2>4, <2>7
  <1>5. Nat \subseteq T
    <2> HIDE DEF T
    <2> QED BY <1>3, <1>4, SetInduction
  <1>6. RegOk(f[N], upto(N))
    <2> HIDE DEF upto, N
    <2>1. N \in T /\ N <= N BY <1>1, <1>5
    <2> QED BY <2>1
  <1>7. upto(N) = listed \ gone
    <2>1. {reg[j] : j \in 1 .. N} = listed BY DEF RegOk
    <2> QED BY <2>1
  <1> QED BY <1>2, <1>6, <1>7

---------------------------------------------------------------------------
(***************************************************************************)
(* The inductive invariant: the headers, the table, the registry and the   *)
(* local of a builtin.                                                     *)
(***************************************************************************)

LiveIn(h) == {s \in Id : h[s].live}
OwnedIn(h) == {s \in LiveIn(h) : h[s].interned}
ListedIn(h, out) == (LiveIn(h) \ OwnedIn(h)) \ out

\* References are counted, only an interned string has one that nobody holds, and
\* a text is interned once.
Headers(h, n) ==
    /\ h \in [Id -> Header \cup {Dead}]
    /\ n \in [Id -> 0 .. MaxHeld]
    /\ \A s \in LiveIn(h) : h[s].refcount = n[s] + (IF h[s].interned THEN 1 ELSE 0)
    /\ \A s \in Id \ LiveIn(h) : h[s] = Dead /\ n[s] = 0
    /\ \A s \in LiveIn(h) : h[s].hash \in {Hash(h[s].content), Deferred}
    /\ \A s \in OwnedIn(h) : h[s].hash = Hash(h[s].content)
    /\ \A s, u \in OwnedIn(h) : h[s].content = h[u].content => s = u
Tabled == TableOk(str, table, OwnedIn(str)) /\ Fits(table) /\ used = Cardinality(OwnedIn(str))
Listing ==
    /\ RegOk(registry, ListedIn(str, unlisted))
    /\ unlisted \subseteq LiveIn(str) \ OwnedIn(str)
Builtin ==
    /\ native \in BOOLEAN /\ local \in Id \cup {Null}
    /\ local # Null => native /\ local \in LiveIn(str)
IInv == Headers(str, held) /\ Tabled /\ Listing /\ Builtin /\ keys \subseteq Id

\* The fields of a live header.
LEMMA HeaderMeans ==
  ASSUME NEW x \in Header
  PROVE  /\ x.live = TRUE /\ x.content \in Contents /\ x.refcount \in 0 .. (MaxHeld + 1)
         /\ x.interned \in BOOLEAN
         /\ x.hash \in {Hash(c) : c \in Contents} \cup {Deferred}
         /\ x = [live |-> TRUE, content |-> x.content, refcount |-> x.refcount,
                 interned |-> x.interned, hash |-> x.hash]
  <1> QED BY DEF Header

\* The headers that steps write.
Fresh(c, hash) ==
    [live |-> TRUE, content |-> c, refcount |-> 0, interned |-> FALSE, hash |-> hash]
Counted(r, k) == [r EXCEPT !.refcount = k]
AdoptedHeader(r, k) == [r EXCEPT !.interned = TRUE, !.refcount = k]
Rehashed(r, x) == [r EXCEPT !.hash = x]
Rewritten(r, c, x) == [r EXCEPT !.content = c, !.hash = x]

Hashes == {Hash(c) : c \in Contents} \cup {Deferred}

\* A header with another reference count.
LEMMA CountedIs ==
  ASSUME NEW r \in Header, NEW k \in 0 .. (MaxHeld + 1)
  PROVE  LET q == Counted(r, k)
         IN  /\ q \in Header
             /\ q.refcount = k /\ q.content = r.content /\ q.interned = r.interned /\ q.hash = r.hash
  <1> DEFINE q == Counted(r, k)
             B == 0 .. (MaxHeld + 1)
             R == [live : {TRUE}, content : Contents, refcount : B, interned : BOOLEAN,
                   hash : Hashes]
  <1>1. R = Header BY DEF Header, Hashes
  <1>2. r \in R /\ k \in B BY <1>1
  <1> HIDE DEF B
  <1>3. q \in R /\ q.refcount = k /\ q.content = r.content /\ q.interned = r.interned /\ q.hash = r.hash
    BY <1>2 DEF Counted
  <1> QED BY <1>1, <1>3

\* A header the table adopts.
LEMMA AdoptedIs ==
  ASSUME NEW r \in Header, NEW k \in 0 .. (MaxHeld + 1)
  PROVE  LET q == AdoptedHeader(r, k)
         IN  /\ q \in Header
             /\ q.refcount = k /\ q.content = r.content /\ q.interned = TRUE /\ q.hash = r.hash
  <1> DEFINE q == AdoptedHeader(r, k)
             B == 0 .. (MaxHeld + 1)
             R == [live : {TRUE}, content : Contents, refcount : B, interned : BOOLEAN,
                   hash : Hashes]
  <1>1. R = Header BY DEF Header, Hashes
  <1>2. r \in R /\ k \in B BY <1>1
  <1> HIDE DEF B
  <1>3. q \in R /\ q.refcount = k /\ q.content = r.content /\ q.interned = TRUE /\ q.hash = r.hash
    BY <1>2 DEF AdoptedHeader
  <1> QED BY <1>1, <1>3

\* A header whose hash was computed.
LEMMA RehashedIs ==
  ASSUME NEW r \in Header, NEW x \in Hashes
  PROVE  LET q == Rehashed(r, x)
         IN  /\ q \in Header
             /\ q.refcount = r.refcount /\ q.content = r.content /\ q.interned = r.interned /\ q.hash = x
  <1> DEFINE q == Rehashed(r, x)
             B == 0 .. (MaxHeld + 1)
             R == [live : {TRUE}, content : Contents, refcount : B, interned : BOOLEAN,
                   hash : Hashes]
  <1>1. R = Header BY DEF Header, Hashes
  <1>2. r \in R BY <1>1
  <1> HIDE DEF B
  <1>3. q \in R /\ q.refcount = r.refcount /\ q.content = r.content /\ q.interned = r.interned /\ q.hash = x
    BY <1>2 DEF Rehashed
  <1> QED BY <1>1, <1>3

\* A header whose text was appended to.
LEMMA RewrittenIs ==
  ASSUME NEW r \in Header, NEW c \in Contents, NEW x \in Hashes
  PROVE  LET q == Rewritten(r, c, x)
         IN  /\ q \in Header
             /\ q.refcount = r.refcount /\ q.content = c /\ q.interned = r.interned /\ q.hash = x
  <1> DEFINE q == Rewritten(r, c, x)
             B == 0 .. (MaxHeld + 1)
             R == [live : {TRUE}, content : Contents, refcount : B, interned : BOOLEAN,
                   hash : Hashes]
  <1>1. R = Header BY DEF Header, Hashes
  <1>2. r \in R BY <1>1
  <1> HIDE DEF B
  <1>3. q \in R /\ q.refcount = r.refcount /\ q.content = c /\ q.interned = r.interned /\ q.hash = x
    BY <1>2 DEF Rewritten
  <1> QED BY <1>1, <1>3

\* A header hstring_alloc_cap returns.
LEMMA FreshIs ==
  ASSUME NEW c \in Contents, NEW x \in Hashes
  PROVE  LET q == Fresh(c, x)
         IN  /\ q \in Header
             /\ q.refcount = 0 /\ q.content = c /\ q.interned = FALSE /\ q.hash = x
  <1> DEFINE q == Fresh(c, x)
             B == 0 .. (MaxHeld + 1)
             R == [live : {TRUE}, content : Contents, refcount : B, interned : BOOLEAN,
                   hash : Hashes]
  <1>1. R = Header BY DEF Header, Hashes
  <1>2. 0 \in B BY SizesAssumption
  <1> HIDE DEF B
  <1>3. q \in R /\ q.refcount = 0 /\ q.content = c /\ q.interned = FALSE /\ q.hash = x
    BY <1>2 DEF Fresh
  <1> QED BY <1>1, <1>3

\* A live string has a header.
LEMMA LiveMeans ==
  ASSUME NEW h, NEW n, Headers(h, n), NEW s \in LiveIn(h)
  PROVE  h[s] \in Header /\ s \in Id
  <1>1. s \in Id /\ h[s].live = TRUE BY DEF LiveIn, Headers, Header, Dead
  <1>2. h[s] \in Header \cup {Dead} BY <1>1 DEF Headers
  <1>3. h[s] # Dead BY <1>1 DEF Dead
  <1> QED BY <1>1, <1>2, <1>3

\* An interned string has its hash.
LEMMA OwnedHash ==
  ASSUME NEW h, NEW n, Headers(h, n), NEW s \in OwnedIn(h)
  PROVE  h[s].hash \in Nat /\ h[s].content \in Nat /\ s \in Id
  <1>1. s \in LiveIn(h) BY DEF OwnedIn
  <1>2. h[s] \in Header /\ s \in Id BY <1>1, LiveMeans
  <1>3. h[s].content \in Nat BY <1>2, HeaderMeans, ContentsAssumption
  <1>4. h[s].hash = Hash(h[s].content) BY DEF Headers
  <1> QED BY <1>2, <1>3, <1>4, HashType

\* A step writes the header of one string.
Revised(g, h, s, q) == g = [h EXCEPT ![s] = q]
Recounted(m, n, s) == m \in [Id -> 0 .. MaxHeld] /\ \A e \in Id \ {s} : m[e] = n[e]
Suits(q, h, s, held_s) ==
    \/ q = Dead /\ held_s = 0
    \/ /\ q \in Header
       /\ q.refcount = held_s + (IF q.interned THEN 1 ELSE 0)
       /\ q.hash \in {Hash(q.content), Deferred}
       /\ q.interned => /\ q.hash = Hash(q.content)
                        /\ \A e \in OwnedIn(h) \ {s} : h[e].content # q.content

\* A header that suits its reference count and its hash may be written.
LEMMA ReviseKeeps ==
  ASSUME NEW h, NEW n, Headers(h, n), NEW s \in Id, NEW q, NEW g, Revised(g, h, s, q),
         NEW m, Recounted(m, n, s), Suits(q, h, s, m[s])
  PROVE  /\ Headers(g, m)
         /\ LiveIn(g) = IF q.live THEN LiveIn(h) \cup {s} ELSE LiveIn(h) \ {s}
         /\ OwnedIn(g) = IF q.live /\ q.interned THEN OwnedIn(h) \cup {s} ELSE OwnedIn(h) \ {s}
         /\ g[s] = q /\ \A e \in Id \ {s} : g[e] = h[e]
  <1>a. \A x \in Header : x.live = TRUE BY HeaderMeans
  <1>b. Dead.live = FALSE /\ Dead \notin Header BY <1>a DEF Dead
  <1>c. /\ q \in Header \cup {Dead}
        /\ q.live => q.refcount = m[s] + (IF q.interned THEN 1 ELSE 0)
        /\ q.live => q.hash \in {Hash(q.content), Deferred}
        /\ ~q.live => q = Dead /\ m[s] = 0
        /\ q.live /\ q.interned =>
              /\ q.hash = Hash(q.content)
              /\ \A e \in OwnedIn(h) \ {s} : h[e].content # q.content
        BY <1>a, <1>b DEF Suits
  <1>d. m \in [Id -> 0 .. MaxHeld] /\ \A e \in Id \ {s} : m[e] = n[e]
    BY DEF Recounted
  <1>1. h \in [Id -> Header \cup {Dead}] BY DEF Headers
  <1>2. /\ g[s] = q /\ \A e \in Id \ {s} : g[e] = h[e]
        /\ DOMAIN g = Id /\ g = [e \in Id |-> g[e]]
        BY <1>1 DEF Revised
  <1>3. g \in [Id -> Header \cup {Dead}] BY <1>c, <1>1, <1>2
  <1>4. \A e \in Id : /\ e \in LiveIn(h) <=> h[e].live
                      /\ e \in LiveIn(g) <=> g[e].live
        BY DEF LiveIn
  <1>5. \A e \in Id : /\ e \in OwnedIn(h) <=> h[e].live /\ h[e].interned
                      /\ e \in OwnedIn(g) <=> g[e].live /\ g[e].interned
        BY DEF OwnedIn, LiveIn
  <1>6. LiveIn(h) \subseteq Id /\ LiveIn(g) \subseteq Id
        /\ OwnedIn(h) \subseteq Id /\ OwnedIn(g) \subseteq Id
        BY DEF OwnedIn, LiveIn
  <1>7. LiveIn(g) = IF q.live THEN LiveIn(h) \cup {s} ELSE LiveIn(h) \ {s}
        BY <1>2, <1>4, <1>6
  <1>8. OwnedIn(g) = IF q.live /\ q.interned THEN OwnedIn(h) \cup {s} ELSE OwnedIn(h) \ {s}
        BY <1>2, <1>5, <1>6
  <1>9. \A e \in LiveIn(g) : g[e].refcount = m[e] + (IF g[e].interned THEN 1 ELSE 0)
        BY <1>c, <1>d, <1>2, <1>4, <1>6 DEF Headers
  <1>10. \A e \in Id \ LiveIn(g) : g[e] = Dead /\ m[e] = 0
         BY <1>c, <1>d, <1>2, <1>4, <1>6 DEF Headers
  <1>e. \A e \in LiveIn(g) : g[e].hash \in {Hash(g[e].content), Deferred}
         BY <1>c, <1>2, <1>4, <1>6 DEF Headers
  <1>11. \A e \in OwnedIn(g) : g[e].hash = Hash(g[e].content)
         BY <1>c, <1>2, <1>5, <1>6 DEF Headers
  <1>12. \A e, u \in OwnedIn(g) : g[e].content = g[u].content => e = u
    <2>1. \A e \in OwnedIn(g) : /\ e \in Id
                                /\ e = s \/ (e \in OwnedIn(h) \ {s} /\ g[e] = h[e])
                                /\ e = s => q.live /\ q.interned
          BY <1>2, <1>5, <1>6
    <2>2. \A e, u \in OwnedIn(h) : h[e].content = h[u].content => e = u
      BY DEF Headers
    <2> QED BY <1>c, <1>2, <2>1, <2>2
  <1> QED
    BY <1>d, <1>e, <1>2, <1>3, <1>7, <1>8, <1>9, <1>10, <1>11, <1>12 DEF Headers

\* The table adopts a string, with a reference of its own.
AdoptedFrom(g, h, s) == g = [h EXCEPT ![s].interned = TRUE, ![s].refcount = @ + 1]

\* str_table_insert sets the interned flag and takes a reference.
LEMMA AdoptKeeps ==
  ASSUME NEW h, NEW n, Headers(h, n),
         NEW s \in LiveIn(h), ~h[s].interned, h[s].hash = Hash(h[s].content),
         \A e \in OwnedIn(h) : h[e].content # h[s].content,
         NEW g, AdoptedFrom(g, h, s)
  PROVE  /\ Headers(g, n) /\ LiveIn(g) = LiveIn(h) /\ OwnedIn(g) = OwnedIn(h) \cup {s}
         /\ \A e \in Id : g[e].hash = h[e].hash
  <1> DEFINE k == h[s].refcount + 1
             q == AdoptedHeader(h[s], k)
  <1>1. h[s] \in Header /\ s \in Id BY LiveMeans
  <1>2. n \in [Id -> 0 .. MaxHeld] BY DEF Headers
  <1>3. h[s].refcount = n[s] BY <1>1, <1>2 DEF Headers
  <1>4. MaxHeld \in Nat BY SizesAssumption
  <1>5. k \in 0 .. (MaxHeld + 1) /\ k = n[s] + 1 BY <1>1, <1>2, <1>3, <1>4
  <1> HIDE DEF k
  <1>7. /\ q \in Header /\ q.refcount = k /\ q.content = h[s].content
        /\ q.interned = TRUE /\ q.hash = h[s].hash
    <2>1. k \in 0 .. (MaxHeld + 1) /\ h[s] \in Header BY <1>1, <1>5
    <2> DEFINE r == h[s]
    <2> HIDE DEF r
    <2>2. r \in Header /\ k \in 0 .. (MaxHeld + 1) BY <2>1 DEF r
    <2>3. LET p == AdoptedHeader(r, k)
          IN  /\ p \in Header
              /\ p.refcount = k /\ p.content = r.content /\ p.interned = TRUE /\ p.hash = r.hash
          BY <2>2, AdoptedIs
    <2> QED BY <2>3 DEF r
  <1>8. q.live = TRUE BY <1>7, HeaderMeans
  <1>9. Revised(g, h, s, q) BY DEF AdoptedFrom, Revised, AdoptedHeader, k
  <1> HIDE DEF q
  <1>10. /\ Headers(g, n)
         /\ LiveIn(g) = LiveIn(h) \cup {s} /\ OwnedIn(g) = OwnedIn(h) \cup {s}
         /\ g[s] = q /\ \A e \in Id \ {s} : g[e] = h[e]
    <2>1. Recounted(n, n, s) BY <1>2 DEF Recounted
    <2>2. Suits(q, h, s, n[s]) BY <1>5, <1>7 DEF Suits
    <2> QED BY <1>1, <1>7, <1>8, <1>9, <2>1, <2>2, ReviseKeeps
  <1>11. \A e \in Id : g[e].hash = h[e].hash BY <1>7, <1>10
  <1> QED BY <1>10, <1>11

---------------------------------------------------------------------------
(***************************************************************************)
(* Insertion: the string is adopted by the table or left to the registry.  *)
(***************************************************************************)
\* What an insert does: the table adopts the string, or the registry is asked to.
Adopted(h, reg, s, own) ==
    /\ TableOk(h, table', own \cup {s}) /\ used' = used + 1
    /\ registry' = reg /\ unlisted' = unlisted \ {s}
    /\ AdoptedFrom(str', h, s)
Refused(h, reg, s, own) ==
    /\ TableOk(h, table', own) /\ used' = used
    /\ \/ registry' = Append(reg, s) /\ unlisted' = unlisted \ {s}
       \/ registry' = reg /\ unlisted' = unlisted \cup {s}
    /\ str' = h

\* The table has room for another string.
Room == \E i \in DOMAIN table : table[i] \notin Id

\* str_table_insert adopts the string, unless no slot is free for it; then it is
\* left to the registry.
LEMMA InsertMeans ==
  ASSUME NEW h, NEW reg, NEW s \in Id, NEW own, TableOk(h, table, own), Fits(table),
         s \notin own, h[s].hash \in Nat, NEW memory, Insert(h, reg, s, memory)
  PROVE  /\ Fits(table')
         /\ Adopted(h, reg, s, own) \/ Refused(h, reg, s, own)
         /\ Room => Adopted(h, reg, s, own)
  <1> DEFINE t == Grown(h, table, used, memory)
             slot == FreeSlot(t, h[s].hash)
  <1>1. /\ TableOk(h, t, own) /\ Fits(t)
        /\ t = table \/ \E i \in 1 .. Len(t) : t[i] \notin Id
        BY GrownKeeps
  <1>2. Insert(h, reg, s, memory) <=>
          IF slot # 0
          THEN /\ table' = [t EXCEPT ![slot] = s]
               /\ used' = used + 1
               /\ registry' = reg
               /\ unlisted' = unlisted \ {s}
               /\ str' = [h EXCEPT ![s].interned = TRUE, ![s].refcount = @ + 1]
          ELSE /\ table' = t
               /\ Register(reg, s, memory)
               /\ str' = h
               /\ used' = used
        BY DEF Insert
  <1> HIDE DEF t
  <1>3. t \in Seq(Entry) /\ Len(t) # 0 BY <1>1 DEF TableOk
  <1>4. /\ slot # 0 => Open(t, h[s].hash, slot)
        /\ (\E i \in 1 .. Len(t) : t[i] \notin Id) => slot # 0
        BY <1>3, FreeSlotMeans
  <1> HIDE DEF slot
  <1>5. CASE slot # 0
    <2>1. TableOk(h, table', own \cup {s}) /\ IsPut(table', t, slot, s)
          BY <1>1, <1>2, <1>4, <1>5, PutKeeps
    <2>2. Fits(table') BY <1>1, <2>1 DEF Fits, IsPut
    <2>3. Adopted(h, reg, s, own) BY <1>2, <1>5, <2>1 DEF Adopted, AdoptedFrom
    <2> QED BY <2>2, <2>3
  <1>6. CASE slot = 0
    <2>1. Refused(h, reg, s, own) BY <1>1, <1>2, <1>6 DEF Refused, Register
    <2>2. Fits(table') BY <1>1, <1>2, <1>6
    <2>3. ~Room
      <3>1. \A i \in 1 .. Len(t) : t[i] \in Id BY <1>4, <1>6
      <3>2. t = table BY <1>1, <3>1
      <3>3. DOMAIN t = 1 .. Len(t) BY <1>3
      <3> QED BY <3>1, <3>2, <3>3 DEF Room
    <2> QED BY <2>1, <2>2, <2>3
  <1> QED BY <1>5, <1>6

\* The sets of strings of the model and of this proof.
LEMMA SetsOf ==
  /\ Live = LiveIn(str) /\ Unused = Id \ LiveIn(str)
  /\ \A h : OwnedIn(h) \subseteq LiveIn(h) /\ LiveIn(h) \subseteq Id
  <1> QED BY DEF Live, LiveIn, Unused, OwnedIn

\* Whatever becomes of the insertion, the string has an owner.
LEMMA InsertKeeps ==
  ASSUME NEW h, Headers(h, held), NEW s \in LiveIn(h), ~h[s].interned,
         h[s].hash = Hash(h[s].content), h[s].content \in Nat,
         \A e \in OwnedIn(h) : h[e].content # h[s].content,
         TableOk(h, table, OwnedIn(h)), Fits(table), used = Cardinality(OwnedIn(h)),
         NEW reg, RegOk(reg, ListedIn(h, unlisted) \ {s}),
         unlisted \subseteq LiveIn(h) \ OwnedIn(h),
         NEW memory, Insert(h, reg, s, memory)
  PROVE  /\ Headers(str', held) /\ Tabled' /\ Listing'
         /\ LiveIn(str') = LiveIn(h) /\ OwnedIn(h) \subseteq OwnedIn(str')
         /\ Room => s \in OwnedIn(str')
  <1> DEFINE own == OwnedIn(h)
             live == LiveIn(h)
             rest == ListedIn(h, unlisted) \ {s}
  <1>1. /\ s \in Id /\ h[s].hash \in Nat /\ s \notin own
        /\ own \subseteq live /\ live \subseteq Id
        BY HashType, SetsOf DEF OwnedIn
  <1>a. rest = ((live \ own) \ unlisted) \ {s} BY DEF ListedIn
  <1>b. TableOk(h, table, own) /\ used = Cardinality(own) /\ RegOk(reg, rest) OBVIOUS
  <1> HIDE DEF own, rest, live
  <1>2. /\ Fits(table')
        /\ Adopted(h, reg, s, own) \/ Refused(h, reg, s, own)
        /\ Room => Adopted(h, reg, s, own)
        BY <1>1, <1>b, InsertMeans
  <1>3. IsFiniteSet(own) /\ Cardinality(own) \in Nat BY <1>b, TableFits
  <1>4. CASE Adopted(h, reg, s, own)
    <2>1. /\ TableOk(h, table', own \cup {s}) /\ used' = used + 1
          /\ registry' = reg /\ unlisted' = unlisted \ {s}
          /\ AdoptedFrom(str', h, s)
          BY <1>4 DEF Adopted
    <2>2. /\ Headers(str', held) /\ LiveIn(str') = live /\ OwnedIn(str') = own \cup {s}
          /\ \A e \in Id : str'[e].hash = h[e].hash
          BY <2>1, AdoptKeeps DEF own, live
    <2>3. \A e \in own \cup {s} : str'[e].hash = h[e].hash BY <1>1, <2>2
    <2>4. TableOk(str', table', own \cup {s}) BY <2>1, <2>3, TableSame
    <2>5. used' = Cardinality(own \cup {s})
      BY <1>1, <1>3, <1>b, <2>1, FS_AddElement
    <2>6. Tabled' BY <1>2, <2>2, <2>4, <2>5 DEF Tabled
    <2>7. ListedIn(str', unlisted') = rest BY <1>a, <2>1, <2>2 DEF ListedIn
    <2>8. Listing' BY <1>b, <2>1, <2>2, <2>7 DEF Listing, own, live
    <2> QED BY <2>2, <2>6, <2>8 DEF own, live
  <1>5. CASE Refused(h, reg, s, own)
    <2>1. /\ TableOk(h, table', own) /\ used' = used
          /\ \/ registry' = Append(reg, s) /\ unlisted' = unlisted \ {s}
             \/ registry' = reg /\ unlisted' = unlisted \cup {s}
          /\ str' = h
          BY <1>5 DEF Refused
    <2>2. Tabled' BY <1>2, <1>b, <2>1 DEF Tabled, own
    <2>3. unlisted' \subseteq LiveIn(str') \ OwnedIn(str')
          BY <1>1, <2>1 DEF own, live
    <2>4. Listing'
      <3>4. CASE registry' = Append(reg, s) /\ unlisted' = unlisted \ {s}
        <4>1. RegOk(registry', rest \cup {s})
          BY <1>1, <1>a, <1>b, <3>4, AppendKeeps
        <4>2. ListedIn(str', unlisted') = rest \cup {s}
              BY <1>1, <1>a, <2>1, <3>4 DEF ListedIn, own, live
        <4> QED BY <2>3, <4>1, <4>2 DEF Listing
      <3>5. CASE registry' = reg /\ unlisted' = unlisted \cup {s}
        <4>1. ListedIn(str', unlisted') = rest
              BY <1>1, <1>a, <2>1, <3>5 DEF ListedIn, own, live
        <4> QED BY <1>b, <2>3, <3>5, <4>1 DEF Listing
      <3> QED BY <2>1, <3>4, <3>5
    <2>6. ~Room \/ s \in OwnedIn(str')
      <3>1. CASE Adopted(h, reg, s, own)
        <4>1. AdoptedFrom(str', h, s) BY <3>1 DEF Adopted
        <4>2. OwnedIn(str') = own \cup {s} BY <4>1, AdoptKeeps DEF own
        <4> QED BY <4>2
      <3> QED BY <1>2, <3>1
    <2> QED BY <2>1, <2>2, <2>4, <2>6 DEF own, live
  <1> QED BY <1>2, <1>4, <1>5

\* A step that only writes the header of a string outside the table.
LEMMA OutsideKeeps ==
  ASSUME NEW h, NEW t, NEW own, TableOk(h, t, own), NEW s, s \notin own, NEW g,
         \A e \in Id \ {s} : g[e] = h[e]
  PROVE  TableOk(g, t, own)
  <1>1. \A e \in own : g[e].hash = h[e].hash BY DEF TableOk
  <1> QED BY <1>1, TableSame

\* hstring_alloc_cap takes a header nobody uses.
LEMMA NewIsUnused == ASSUME Unused # {} PROVE NewString \in Unused
  <1>1. Unused \subseteq Nat BY DEF Unused, Id
  <1> QED BY <1>1, Least DEF NewString

\* A new header.
LEMMA AllocKeeps ==
  ASSUME IInv, Unused # {}, NEW c \in Contents, NEW x \in {Hash(c), Deferred}, NEW h, h = Alloc(c, x)
  PROVE  /\ Headers(h, held) /\ NewString \in Id /\ NewString \notin LiveIn(str)
         /\ LiveIn(h) = LiveIn(str) \cup {NewString} /\ OwnedIn(h) = OwnedIn(str)
         /\ TableOk(h, table, OwnedIn(str))
         /\ h[NewString].content = c /\ h[NewString].hash = x /\ ~h[NewString].interned
         /\ \A e \in Id \ {NewString} : h[e] = str[e]
  <1> DEFINE s == NewString
             q == Fresh(c, x)
  <1>1. s \in Id /\ s \notin LiveIn(str) BY NewIsUnused, SetsOf
  <1>2. Revised(h, str, s, q) BY DEF Alloc, Revised, Fresh
  <1>3. /\ q \in Header /\ q.refcount = 0 /\ q.content = c
        /\ q.interned = FALSE /\ q.hash = x
    <2>1. x \in Hashes BY DEF Hashes
    <2> QED BY <2>1, FreshIs
  <1>4. q.live = TRUE BY <1>3, HeaderMeans
  <1> HIDE DEF s, q
  <1>5. held \in [Id -> 0 .. MaxHeld] /\ held[s] = 0 BY <1>1 DEF IInv, Headers
  <1>6. Recounted(held, held, s) /\ Suits(q, str, s, held[s])
        BY <1>3, <1>5 DEF Recounted, Suits
  <1>7. /\ Headers(h, held)
        /\ LiveIn(h) = LiveIn(str) \cup {s} /\ OwnedIn(h) = OwnedIn(str) \ {s}
        /\ h[s] = q /\ \A e \in Id \ {s} : h[e] = str[e]
        BY <1>1, <1>2, <1>3, <1>4, <1>6, ReviseKeeps DEF IInv
  <1>8. s \notin OwnedIn(str) BY <1>1, SetsOf
  <1>9. TableOk(h, table, OwnedIn(str))
    BY <1>7, <1>8, OutsideKeeps DEF IInv, Tabled
  <1> QED BY <1>1, <1>3, <1>7, <1>8, <1>9 DEF s

---------------------------------------------------------------------------
(***************************************************************************)
(* Every action keeps it.                                                  *)
(***************************************************************************)

\* Keys are interned, as long as the table has room for them.
KeyInv == keys \subseteq OwnedIn(str)
KeysStay == KeyInv /\ Room => KeyInv'

\* create leaves an empty table.
LEMMA InitKeeps ==
  ASSUME Init PROVE IInv /\ KeyInv
  <1>1. /\ table = [i \in 1 .. InitialSize |-> Null] /\ used = 0 /\ registry = <<>>
        /\ unlisted = {} /\ str = [s \in Id |-> Dead] /\ held = [s \in Id |-> 0]
        /\ keys = {} /\ native = FALSE /\ local = Null
        BY DEF Init
  <1>2. InitialSize \in Nat \ {0} /\ InitialSize <= MaxSize /\ MaxHeld \in Nat
        BY SizesAssumption
  <1>3. \A s \in Id : str[s] = Dead /\ held[s] = 0 BY <1>1
  <1>4. LiveIn(str) = {} BY <1>3 DEF LiveIn, Dead
  <1>5. OwnedIn(str) = {} BY <1>4 DEF OwnedIn
  <1>6. Headers(str, held) BY <1>1, <1>2, <1>3, <1>4, <1>5 DEF Headers
  <1>7. Len(table) = InitialSize /\ table \in Seq(Entry) /\ \A i \in 1 .. Len(table) : table[i] = Null
        BY <1>1, <1>2 DEF Entry
  <1>8. TableOk(str, table, {}) BY <1>2, <1>7, Names DEF TableOk
  <1>9. Tabled
    BY <1>1, <1>2, <1>5, <1>7, <1>8, Sizes, FS_EmptySet DEF Tabled, Fits
  <1>10. ListedIn(str, unlisted) = {} BY <1>4 DEF ListedIn
  <1>11. <<>> \in Seq(Id) /\ Len(<<>>) = 0 OBVIOUS
  <1>12. RegOk(registry, {}) BY <1>1, <1>11 DEF RegOk
  <1>13. Listing BY <1>1, <1>10, <1>12 DEF Listing
  <1>14. Builtin BY <1>1 DEF Builtin
  <1> QED BY <1>1, <1>6, <1>9, <1>13, <1>14 DEF IInv, KeyInv

\* str_intern_normalized finds the text.
LEMMA InternKnownKeeps ==
  ASSUME IInv, NEW c \in Contents, InternKnown(c) PROVE IInv' /\ KeysStay
  <1>1. /\ native /\ Lookup(str, table, c) # Null /\ local' = Lookup(str, table, c)
        /\ UNCHANGED <<table, used, registry, unlisted, str, held, keys, native>>
        BY DEF InternKnown
  <1>2. TableOk(str, table, OwnedIn(str)) BY DEF IInv, Tabled
  <1>3. c \in Nat BY ContentsAssumption
  <1>4. local' \in OwnedIn(str) BY <1>1, <1>2, <1>3, LookupSound
  <1>5. local' \in LiveIn(str) /\ local' \in Id BY <1>4, SetsOf
  <1>6. Builtin' BY <1>1, <1>5 DEF IInv, Builtin
  <1> QED BY <1>1, <1>6 DEF IInv, Tabled, Listing, KeysStay, KeyInv

\* str_intern_normalized puts a new string in the table.
LEMMA InternNewKeeps ==
  ASSUME IInv, NEW c \in Contents, NEW memory, InternNew(c, memory)
  PROVE  IInv' /\ KeysStay
  <1> DEFINE s == NewString
             x == Hash(c)
  <1>1. PICK h : h = Alloc(c, x) OBVIOUS
  <1>2. /\ native /\ Lookup(str, table, c) = Null /\ Unused # {}
        /\ Insert(h, registry, s, memory) /\ local' = s
        /\ held' = held /\ keys' = keys /\ native' = native
        BY <1>1 DEF InternNew
  <1>3. c \in Nat BY ContentsAssumption
  <1>4. /\ Headers(h, held) /\ s \in Id /\ s \notin LiveIn(str)
        /\ LiveIn(h) = LiveIn(str) \cup {s} /\ OwnedIn(h) = OwnedIn(str)
        /\ TableOk(h, table, OwnedIn(str))
        /\ h[s].content = c /\ h[s].hash = x /\ ~h[s].interned
        /\ \A e \in Id \ {s} : h[e] = str[e]
        BY <1>1, <1>2, <1>3, AllocKeeps
  <1> HIDE DEF s
  <1>5. ASSUME NEW e \in OwnedIn(str) PROVE h[e].content # c
    <2>1. e # s /\ e \in Id BY <1>4, SetsOf
    <2>2. Headers(str, held) /\ TableOk(str, table, OwnedIn(str))
      BY DEF IInv, Tabled
    <2>3. str[e].hash = Hash(str[e].content) BY <2>2 DEF Headers
    <2>4. str[e].content # c BY <1>2, <1>3, <2>2, <2>3, LookupComplete
    <2> QED BY <1>4, <2>1, <2>4
  <1>6. /\ Fits(table) /\ used = Cardinality(OwnedIn(h))
        /\ RegOk(registry, ListedIn(str, unlisted))
        /\ unlisted \subseteq LiveIn(str) \ OwnedIn(str)
        BY <1>4 DEF IInv, Tabled, Listing
  <1>7. ListedIn(h, unlisted) \ {s} = ListedIn(str, unlisted)
    BY <1>4 DEF ListedIn
  <1>8. unlisted \subseteq LiveIn(h) \ OwnedIn(h) BY <1>4, <1>6
  <1>9. s \in LiveIn(h) BY <1>4
  <1>10. RegOk(registry, ListedIn(h, unlisted) \ {s}) BY <1>6, <1>7
  <1>11. TableOk(h, table, OwnedIn(h)) BY <1>4
  <1>12. \A e \in OwnedIn(h) : h[e].content # h[s].content BY <1>4, <1>5
  <1>13. h[s].hash = Hash(h[s].content) /\ h[s].content \in Nat BY <1>3, <1>4
  <1>14. /\ Headers(str', held) /\ Tabled' /\ Listing'
         /\ LiveIn(str') = LiveIn(h) /\ OwnedIn(h) \subseteq OwnedIn(str')
         BY <1>2, <1>4, <1>6, <1>8, <1>9, <1>10, <1>11, <1>12, <1>13, InsertKeeps
  <1>15. Builtin' BY <1>2, <1>4, <1>9, <1>14 DEF IInv, Builtin
  <1>16. KeysStay BY <1>2, <1>4, <1>14 DEF KeysStay, KeyInv
  <1> QED BY <1>2, <1>14, <1>15, <1>16 DEF IInv

\* alloc_concat_accumulator registers a string of its own.
LEMMA AllocUninternedKeeps ==
  ASSUME IInv, NEW c \in Contents, NEW memory, AllocUninterned(c, memory)
  PROVE  IInv' /\ KeysStay
  <1> DEFINE s == NewString
             rest == ListedIn(str, unlisted)
  <1>2. /\ native /\ Unused # {} /\ str' = Alloc(c, Deferred)
        /\ Register(registry, s, memory) /\ local' = s
        /\ UNCHANGED <<table, used, held, keys, native>>
        BY DEF AllocUninterned
  <1>4. /\ Headers(str', held) /\ s \in Id /\ s \notin LiveIn(str)
        /\ LiveIn(str') = LiveIn(str) \cup {s} /\ OwnedIn(str') = OwnedIn(str)
        /\ TableOk(str', table, OwnedIn(str))
    <2>1. PICK h : h = Alloc(c, Deferred) OBVIOUS
    <2>2. /\ Headers(h, held) /\ s \in Id /\ s \notin LiveIn(str)
          /\ LiveIn(h) = LiveIn(str) \cup {s} /\ OwnedIn(h) = OwnedIn(str)
          /\ TableOk(h, table, OwnedIn(str))
          BY <1>2, <2>1, AllocKeeps
    <2> QED BY <1>2, <2>1, <2>2
  <1> HIDE DEF s
  <1>5. Tabled' BY <1>2, <1>4 DEF IInv, Tabled
  <1>6. RegOk(registry, rest) /\ unlisted \subseteq LiveIn(str) \ OwnedIn(str)
        BY DEF IInv, Listing
  <1>a. OwnedIn(str) \subseteq LiveIn(str) BY SetsOf
  <1>7. s \notin rest /\ s \notin unlisted /\ s \notin OwnedIn(str)
        BY <1>4, <1>6, <1>a DEF ListedIn
  <1>8. Listing'
    <2>1. CASE registry' = Append(registry, s) /\ unlisted' = unlisted \ {s}
      <3>1. RegOk(registry', rest \cup {s})
        BY <1>4, <1>6, <1>7, <2>1, AppendKeeps
      <3>2. ListedIn(str', unlisted') = rest \cup {s}
        BY <1>4, <1>7, <2>1 DEF ListedIn
      <3>3. unlisted' \subseteq LiveIn(str') \ OwnedIn(str')
        BY <1>4, <1>6, <2>1
      <3> QED BY <3>1, <3>2, <3>3 DEF Listing
    <2>2. CASE registry' = registry /\ unlisted' = unlisted \cup {s}
      <3>1. ListedIn(str', unlisted') = rest BY <1>4, <1>7, <2>2 DEF ListedIn
      <3>2. unlisted' \subseteq LiveIn(str') \ OwnedIn(str')
        BY <1>4, <1>6, <1>7, <2>2
      <3> QED BY <1>6, <2>2, <3>1, <3>2 DEF Listing
    <2> QED BY <1>2, <2>1, <2>2 DEF Register
  <1>9. Builtin' BY <1>2, <1>4 DEF IInv, Builtin
  <1>10. KeysStay BY <1>2, <1>4 DEF KeysStay, KeyInv
  <1> QED BY <1>2, <1>4, <1>5, <1>8, <1>9, <1>10 DEF IInv

\* TVal.set_string counts a reference.
LEMMA HoldKeeps ==
  ASSUME IInv, Hold PROVE IInv' /\ KeysStay
  <1> DEFINE s == local
             r == str[s]
             k == r.refcount + 1
             q == Counted(r, k)
  <1>1. /\ s # Null /\ held[s] < MaxHeld
        /\ str' = [str EXCEPT ![s].refcount = @ + 1]
        /\ held' = [held EXCEPT ![s] = @ + 1]
        /\ UNCHANGED <<table, used, registry, unlisted, keys, native, local>>
        BY DEF Hold
  <1>2. Headers(str, held) /\ s \in LiveIn(str) BY <1>1 DEF IInv, Builtin
  <1>3. r \in Header /\ s \in Id BY <1>2, LiveMeans
  <1>4. Revised(str', str, s, q) BY <1>1 DEF Revised, Counted
  <1>5. held \in [Id -> 0 .. MaxHeld] /\ r.refcount = held[s] + (IF r.interned THEN 1 ELSE 0)
        BY <1>2 DEF Headers
  <1>6. Recounted(held', held, s) /\ held'[s] = held[s] + 1
        BY <1>1, <1>3, <1>5, SizesAssumption DEF Recounted
  <1>7. held[s] \in Nat /\ MaxHeld \in Nat BY <1>3, <1>5, SizesAssumption
  <1>8. k \in 0 .. (MaxHeld + 1) BY <1>1, <1>5, <1>7
  <1> HIDE DEF r, s
  <1>9. k = held'[s] + (IF r.interned THEN 1 ELSE 0) BY <1>5, <1>6, <1>7
  <1> HIDE DEF k
  <1>10. /\ q \in Header /\ q.refcount = k /\ q.content = r.content
         /\ q.interned = r.interned /\ q.hash = r.hash
         BY <1>3, <1>8, CountedIs
  <1>11. q.live = TRUE BY <1>10, HeaderMeans
  <1> HIDE DEF q
  <1>12. s \in OwnedIn(str) <=> r.interned BY <1>2, <1>3 DEF OwnedIn, r
  <1>13. /\ \A e \in OwnedIn(str) : str[e].hash = Hash(str[e].content)
         /\ \A e, u \in OwnedIn(str) : str[e].content = str[u].content => e = u
         /\ r.hash \in {Hash(r.content), Deferred}
         BY <1>2 DEF Headers, r
  <1>14. Suits(q, str, s, held'[s]) BY <1>9, <1>10, <1>12, <1>13 DEF Suits, r
  <1>15. /\ Headers(str', held') /\ LiveIn(str') = LiveIn(str) \cup {s}
         /\ OwnedIn(str') = IF q.live /\ q.interned THEN OwnedIn(str) \cup {s} ELSE OwnedIn(str) \ {s}
         /\ str'[s] = q /\ \A e \in Id \ {s} : str'[e] = str[e]
         BY <1>2, <1>3, <1>4, <1>6, <1>11, <1>14, ReviseKeeps
  <1>16. LiveIn(str') = LiveIn(str) /\ OwnedIn(str') = OwnedIn(str)
         BY <1>2, <1>10, <1>11, <1>12, <1>15
  <1>17. TableOk(str', table, OwnedIn(str))
    <2>1. \A e \in OwnedIn(str) : str'[e].hash = str[e].hash
      <3>1. OwnedIn(str) \subseteq Id BY SetsOf
      <3> QED BY <1>10, <1>15, <3>1 DEF r
    <2> QED BY <2>1, TableSame DEF IInv, Tabled
  <1>18. Tabled' BY <1>1, <1>16, <1>17 DEF IInv, Tabled
  <1>19. Listing' BY <1>1, <1>16 DEF IInv, Listing, ListedIn
  <1>20. Builtin' BY <1>1, <1>16 DEF IInv, Builtin
  <1>21. KeysStay BY <1>1, <1>16 DEF KeysStay, KeyInv
  <1> QED BY <1>1, <1>15, <1>18, <1>19, <1>20, <1>21 DEF IInv

\* Heap.decref: the last reference to an un-interned string frees it, and the
\* registry forgets it.
LEMMA DropKeeps ==
  ASSUME IInv, NEW s \in Live, Drop(s) PROVE IInv' /\ KeysStay
  <1> DEFINE r == str[s]
  <1>1. /\ held[s] > 0 /\ (s = local => held[s] > 1)
        /\ held' = [held EXCEPT ![s] = @ - 1]
        /\ keys' = keys /\ native' = native /\ local' = local
        BY DEF Drop
  <1>2. Headers(str, held) /\ s \in LiveIn(str) BY SetsOf DEF IInv
  <1>3. r \in Header /\ s \in Id BY <1>2, LiveMeans
  <1>4. held \in [Id -> 0 .. MaxHeld] /\ r.refcount = held[s] + (IF r.interned THEN 1 ELSE 0)
        BY <1>2 DEF Headers
  <1>5. held[s] \in Nat /\ MaxHeld \in Nat BY <1>3, <1>4, SizesAssumption
  <1>6. Recounted(held', held, s) /\ held'[s] = held[s] - 1
        BY <1>1, <1>3, <1>4, <1>5 DEF Recounted
  <1>7. s \in OwnedIn(str) <=> r.interned BY <1>2, <1>3 DEF OwnedIn
  <1>8. /\ \A e \in OwnedIn(str) : str[e].hash = Hash(str[e].content)
        /\ \A e, u \in OwnedIn(str) : str[e].content = str[u].content => e = u
        /\ r.hash \in {Hash(r.content), Deferred}
        BY <1>2 DEF Headers
  <1>9. OwnedIn(str) \subseteq Id /\ OwnedIn(str) \subseteq LiveIn(str)
    BY SetsOf
  <1>10. CASE r.refcount > 1
    <2> DEFINE k == r.refcount - 1
               q == Counted(r, k)
    <2>1. /\ str' = [str EXCEPT ![s].refcount = @ - 1]
          /\ UNCHANGED <<table, used, registry, unlisted>>
          BY <1>10 DEF Drop
    <2>2. Revised(str', str, s, q) BY <2>1 DEF Revised, Counted
    <2>3. r.refcount \in 0 .. (MaxHeld + 1) BY <1>3, HeaderMeans
    <2> HIDE DEF r
    <2>4. k \in 0 .. (MaxHeld + 1) /\ k = held'[s] + (IF r.interned THEN 1 ELSE 0)
          BY <1>4, <1>5, <1>6, <1>10, <2>3
    <2> HIDE DEF k
    <2>5. /\ q \in Header /\ q.refcount = k /\ q.content = r.content
          /\ q.interned = r.interned /\ q.hash = r.hash
          BY <1>3, <2>4, CountedIs
    <2>6. q.live = TRUE BY <2>5, HeaderMeans
    <2> HIDE DEF q
    <2>7. Suits(q, str, s, held'[s]) BY <1>7, <1>8, <2>4, <2>5 DEF Suits, r
    <2>8. /\ Headers(str', held') /\ LiveIn(str') = LiveIn(str) \cup {s}
          /\ OwnedIn(str') = IF q.live /\ q.interned THEN OwnedIn(str) \cup {s} ELSE OwnedIn(str) \ {s}
          /\ str'[s] = q /\ \A e \in Id \ {s} : str'[e] = str[e]
          BY <1>2, <1>3, <1>6, <2>2, <2>6, <2>7, ReviseKeeps
    <2>9. LiveIn(str') = LiveIn(str) /\ OwnedIn(str') = OwnedIn(str)
          BY <1>2, <1>7, <2>5, <2>6, <2>8
    <2>10. \A e \in OwnedIn(str) : str'[e].hash = str[e].hash
      BY <1>9, <2>5, <2>8 DEF r
    <2>11. TableOk(str', table, OwnedIn(str))
      BY <2>10, TableSame DEF IInv, Tabled
    <2>12. Tabled' BY <2>1, <2>9, <2>11 DEF IInv, Tabled
    <2>13. Listing' BY <2>1, <2>9 DEF IInv, Listing, ListedIn
    <2>14. Builtin' BY <1>1, <2>9 DEF IInv, Builtin
    <2>15. KeysStay BY <1>1, <2>9 DEF KeysStay, KeyInv
    <2> QED BY <1>1, <2>8, <2>12, <2>13, <2>14, <2>15 DEF IInv
  <1>11. CASE ~(r.refcount > 1)
    <2>1. ~r.interned /\ held[s] = 1 BY <1>1, <1>4, <1>5, <1>11
    <2>2. /\ str' = [str EXCEPT ![s] = Dead] /\ table' = table /\ used' = used
          /\ registry' = Unregister(registry, s) /\ unlisted' = unlisted \ {s}
          BY <1>11, <2>1 DEF Drop
    <2>3. Revised(str', str, s, Dead) BY <2>2 DEF Revised
    <2>4. held'[s] = 0 /\ s \notin OwnedIn(str) /\ s # local
      BY <1>1, <1>6, <1>7, <2>1
    <2>5. Suits(Dead, str, s, held'[s]) BY <2>4 DEF Suits
    <2>6. Dead.live = FALSE BY DEF Dead
    <2>7. /\ Headers(str', held') /\ LiveIn(str') = LiveIn(str) \ {s}
          /\ OwnedIn(str') = OwnedIn(str) \ {s}
          /\ \A e \in Id \ {s} : str'[e] = str[e]
          BY <1>2, <1>3, <1>6, <2>3, <2>5, <2>6, ReviseKeeps
    <2>8. OwnedIn(str') = OwnedIn(str) BY <2>4, <2>7
    <2>9. TableOk(str', table, OwnedIn(str))
      BY <2>4, <2>7, OutsideKeeps DEF IInv, Tabled
    <2>10. Tabled' BY <2>2, <2>8, <2>9 DEF IInv, Tabled
    <2>11. /\ RegOk(registry, ListedIn(str, unlisted))
           /\ unlisted \subseteq LiveIn(str) \ OwnedIn(str)
           BY DEF IInv, Listing
    <2>12. RegOk(registry', ListedIn(str, unlisted) \ {s})
      BY <2>2, <2>11, UnregisterKeeps
    <2>13. ListedIn(str', unlisted') = ListedIn(str, unlisted) \ {s}
           BY <2>2, <2>7, <2>8 DEF ListedIn
    <2>14. Listing' BY <2>2, <2>7, <2>8, <2>11, <2>12, <2>13 DEF Listing
    <2>15. Builtin' BY <1>1, <2>4, <2>7 DEF IInv, Builtin
    <2>16. KeysStay BY <1>1, <2>8 DEF KeysStay, KeyInv
    <2> QED BY <1>1, <2>7, <2>10, <2>14, <2>15, <2>16 DEF IInv
  <1> QED BY <1>10, <1>11

\* ensure_interned gives a string its hash, which nobody looks at before.
LEMMA HashedKeeps ==
  ASSUME IInv, NEW s \in LiveIn(str), ~str[s].interned, NEW h, h = Hashed(s)
  PROVE  /\ Headers(h, held) /\ LiveIn(h) = LiveIn(str) /\ OwnedIn(h) = OwnedIn(str)
         /\ TableOk(h, table, OwnedIn(str))
         /\ h[s].content = str[s].content /\ ~h[s].interned
         /\ h[s].hash = Hash(h[s].content)
         /\ \A e \in Id \ {s} : h[e] = str[e]
  <1> DEFINE r == str[s]
             x == IF r.hash = Deferred THEN Hash(r.content) ELSE r.hash
             q == Rehashed(r, x)
  <1>1. Headers(str, held) BY DEF IInv
  <1>2. r \in Header /\ s \in Id BY <1>1, LiveMeans
  <1>3. held \in [Id -> 0 .. MaxHeld] /\ r.refcount = held[s] + (IF r.interned THEN 1 ELSE 0)
        BY <1>1 DEF Headers
  <1>4. Revised(h, str, s, q) BY DEF Hashed, Revised, Rehashed
  <1>5. x \in Hashes BY <1>2, HeaderMeans DEF Hashes
  <1>a. ~r.interned OBVIOUS
  <1>b. x = Hash(r.content) BY <1>1 DEF Headers
  <1> HIDE DEF x, r
  <1>6. /\ q \in Header /\ q.refcount = r.refcount /\ q.content = r.content
        /\ q.interned = r.interned /\ q.hash = x
        BY <1>2, <1>5, RehashedIs
  <1>7. q.live = TRUE BY <1>6, HeaderMeans
  <1> HIDE DEF q
  <1>8. Recounted(held, held, s) /\ Suits(q, str, s, held[s])
        BY <1>3, <1>a, <1>b, <1>6 DEF Recounted, Suits
  <1>9. /\ Headers(h, held) /\ LiveIn(h) = LiveIn(str) \cup {s}
        /\ OwnedIn(h) = OwnedIn(str) \ {s}
        /\ h[s] = q /\ \A e \in Id \ {s} : h[e] = str[e]
        BY <1>1, <1>2, <1>4, <1>a, <1>6, <1>7, <1>8, ReviseKeeps
  <1>10. s \notin OwnedIn(str) BY DEF OwnedIn
  <1>11. TableOk(h, table, OwnedIn(str))
    BY <1>9, <1>10, OutsideKeeps DEF IInv, Tabled
  <1>12. q.hash = Hash(q.content) BY <1>b, <1>6
  <1> QED BY <1>6, <1>a, <1>9, <1>10, <1>11, <1>12 DEF r

\* ensure_interned: the key is the string itself, the string found, or the string
\* put in the table, which then has left the registry.
LEMMA UseAsKeyKeeps ==
  ASSUME IInv, NEW s \in Live, NEW memory, UseAsKey(s, memory) PROVE IInv' /\ KeysStay
  <1>1. s \in LiveIn(str) /\ s \in Id BY SetsOf
  <1>2. PICK h : h = Hashed(s) OBVIOUS
  <1> DEFINE c == str[s].content
             found == Lookup(h, table, c)
  <1>3. /\ held' = held /\ native' = native /\ local' = local
        /\ IF str[s].interned
           THEN keys' = keys \cup {s} /\ UNCHANGED <<table, used, registry, unlisted, str>>
           ELSE IF found # Null
           THEN /\ keys' = keys \cup {found} /\ str' = h
                /\ UNCHANGED <<table, used, registry, unlisted>>
           ELSE /\ Insert(h, Unregister(registry, s), s, memory)
                /\ keys' = keys \cup {s}
        BY <1>2 DEF UseAsKey
  <1>4. CASE str[s].interned
    <2>1. keys' = keys \cup {s} /\ UNCHANGED <<table, used, registry, unlisted, str>>
          BY <1>3, <1>4
    <2>2. s \in OwnedIn(str) BY <1>1, <1>4 DEF OwnedIn
    <2>3. KeysStay BY <2>1, <2>2 DEF KeysStay, KeyInv
    <2> QED BY <1>1, <1>3, <2>1, <2>3 DEF IInv, Tabled, Listing, Builtin
  <1>5. CASE ~str[s].interned
    <2>1. /\ Headers(h, held) /\ LiveIn(h) = LiveIn(str) /\ OwnedIn(h) = OwnedIn(str)
          /\ TableOk(h, table, OwnedIn(str))
          /\ h[s].content = c /\ ~h[s].interned
          /\ h[s].hash = Hash(h[s].content)
          /\ \A e \in Id \ {s} : h[e] = str[e]
          BY <1>1, <1>2, <1>5, HashedKeeps
    <2>2. c \in Nat
      <3>1. Headers(str, held) BY DEF IInv
      <3>2. str[s] \in Header BY <1>1, <3>1, LiveMeans
      <3> QED BY <3>2, HeaderMeans, ContentsAssumption
    <2> HIDE DEF c
    <2>3. ListedIn(h, unlisted) = ListedIn(str, unlisted) BY <2>1 DEF ListedIn
    <2>4. CASE found # Null
      <3>1. keys' = keys \cup {found} /\ str' = h /\ UNCHANGED <<table, used, registry, unlisted>>
            BY <1>3, <1>5, <2>4
      <3>2. found \in OwnedIn(h) BY <2>1, <2>2, <2>4, LookupSound
      <3> HIDE DEF found
      <3>3. found \in Id BY <3>2, SetsOf
      <3>4. Tabled' BY <2>1, <3>1 DEF IInv, Tabled
      <3>5. Listing' BY <2>1, <2>3, <3>1 DEF IInv, Listing
      <3>6. Builtin' BY <1>3, <2>1, <3>1 DEF IInv, Builtin
      <3>7. KeysStay BY <2>1, <3>1, <3>2 DEF KeysStay, KeyInv
      <3> QED BY <1>3, <2>1, <3>1, <3>3, <3>4, <3>5, <3>6, <3>7 DEF IInv
    <2>5. CASE found = Null
      <3> DEFINE reg == Unregister(registry, s)
      <3>1. Insert(h, reg, s, memory) /\ keys' = keys \cup {s}
        BY <1>3, <1>5, <2>5
      <3>2. ASSUME NEW e \in OwnedIn(h) PROVE h[e].content # h[s].content
        <4>1. h[e].hash = Hash(h[e].content) BY <2>1 DEF Headers
        <4> QED BY <2>1, <2>2, <2>5, <4>1, LookupComplete
      <3>3. /\ RegOk(registry, ListedIn(str, unlisted))
            /\ unlisted \subseteq LiveIn(str) \ OwnedIn(str)
            /\ Fits(table) /\ used = Cardinality(OwnedIn(str))
            BY DEF IInv, Listing, Tabled
      <3>4. RegOk(reg, ListedIn(h, unlisted) \ {s})
        BY <2>3, <3>3, UnregisterKeeps
      <3> HIDE DEF reg
      <3>5. /\ Fits(table) /\ used = Cardinality(OwnedIn(h))
            /\ unlisted \subseteq LiveIn(h) \ OwnedIn(h) /\ TableOk(h, table, OwnedIn(h))
            /\ s \in LiveIn(h)
            BY <1>1, <2>1, <3>3
      <3>6. h[s].content \in Nat BY <2>1, <2>2
      <3>7. /\ Headers(str', held) /\ Tabled' /\ Listing'
            /\ LiveIn(str') = LiveIn(h) /\ OwnedIn(h) \subseteq OwnedIn(str')
            /\ Room => s \in OwnedIn(str')
            BY <2>1, <3>1, <3>2, <3>4, <3>5, <3>6, InsertKeeps
      <3>8. Builtin' BY <1>3, <2>1, <3>7 DEF IInv, Builtin
      <3>9. KeysStay BY <2>1, <3>1, <3>7 DEF KeysStay, KeyInv
      <3> QED BY <1>1, <1>3, <3>1, <3>7, <3>8, <3>9 DEF IInv
    <2> QED BY <2>4, <2>5
  <1> QED BY <1>4, <1>5

\* delete_prop forgets a key.
LEMMA DropKeyKeeps ==
  ASSUME IInv, NEW k \in keys, DropKey(k) PROVE IInv' /\ KeysStay
  <1> QED BY DEF DropKey, IInv, Tabled, Listing, Builtin, KeysStay, KeyInv

\* try_append_in_place rewrites the text of a string outside the table and
\* defers its hash.
LEMMA AppendInPlaceKeeps ==
  ASSUME IInv, NEW s \in Live, NEW c \in Contents, AppendInPlace(s, c)
  PROVE  IInv' /\ KeysStay
  <1> DEFINE r == str[s]
             q == Rewritten(r, c, Deferred)
  <1>1. /\ held[s] = 1 /\ r.refcount = 1 /\ ~r.interned
        /\ str' = [str EXCEPT ![s].content = c, ![s].hash = Deferred]
        /\ UNCHANGED <<table, used, registry, unlisted, held, keys, native, local>>
        BY DEF AppendInPlace
  <1>2. Headers(str, held) /\ s \in LiveIn(str) BY SetsOf DEF IInv
  <1>3. r \in Header /\ s \in Id BY <1>2, LiveMeans
  <1>4. held \in [Id -> 0 .. MaxHeld] BY <1>2 DEF Headers
  <1>5. Revised(str', str, s, q) BY <1>1 DEF Revised, Rewritten
  <1>6. Deferred \in Hashes BY DEF Hashes
  <1> HIDE DEF r
  <1>7. /\ q \in Header /\ q.refcount = r.refcount /\ q.content = c
        /\ q.interned = r.interned /\ q.hash = Deferred
        BY <1>3, <1>6, RewrittenIs
  <1>8. q.live = TRUE BY <1>7, HeaderMeans
  <1> HIDE DEF q
  <1>9. Recounted(held', held, s) /\ Suits(q, str, s, held'[s])
        BY <1>1, <1>4, <1>7 DEF Recounted, Suits
  <1>10. /\ Headers(str', held') /\ LiveIn(str') = LiveIn(str) \cup {s}
         /\ OwnedIn(str') = OwnedIn(str) \ {s}
         /\ \A e \in Id \ {s} : str'[e] = str[e]
    <2>1. ~q.interned BY <1>1, <1>7
    <2>2. /\ Headers(str', held')
          /\ LiveIn(str') = IF q.live THEN LiveIn(str) \cup {s} ELSE LiveIn(str) \ {s}
          /\ OwnedIn(str') = IF q.live /\ q.interned THEN OwnedIn(str) \cup {s}
                             ELSE OwnedIn(str) \ {s}
          /\ \A e \in Id \ {s} : str'[e] = str[e]
          BY <1>2, <1>3, <1>5, <1>9, ReviseKeeps
    <2> QED BY <1>8, <2>1, <2>2
  <1>11. s \notin OwnedIn(str) BY <1>1 DEF OwnedIn, r
  <1>12. LiveIn(str') = LiveIn(str) /\ OwnedIn(str') = OwnedIn(str)
    BY <1>2, <1>10, <1>11
  <1>13. TableOk(str', table, OwnedIn(str))
    BY <1>10, <1>11, OutsideKeeps DEF IInv, Tabled
  <1>14. Tabled' BY <1>1, <1>12, <1>13 DEF IInv, Tabled
  <1>15. Listing' BY <1>1, <1>12 DEF IInv, Listing, ListedIn
  <1>16. Builtin' BY <1>1, <1>12 DEF IInv, Builtin
  <1>17. KeysStay BY <1>1, <1>12 DEF KeysStay, KeyInv
  <1> QED BY <1>1, <1>10, <1>14, <1>15, <1>16, <1>17 DEF IInv

\* A builtin's frame comes and goes.
LEMMA NativeKeeps ==
  ASSUME IInv, EnterNative \/ LeaveNative PROVE IInv' /\ KeysStay
  <1>1. UNCHANGED <<table, used, registry, unlisted, str, held, keys>>
        BY DEF EnterNative, LeaveNative
  <1>2. Builtin' BY <1>1 DEF EnterNative, LeaveNative, IInv, Builtin
  <1> QED BY <1>1, <1>2 DEF IInv, Tabled, Listing, KeysStay, KeyInv

\* The strings of a set die, or all others do.
Dying(g, m, h, n, gone) ==
    /\ g = [s \in Id |-> IF s \in gone THEN Dead ELSE h[s]]
    /\ m \in [Id -> 0 .. MaxHeld]
    /\ \A s \in Id : m[s] = IF s \in gone THEN 0 ELSE n[s]

\* sweep_strings, sweep_large_strings and reset: what dies is dead in every list,
\* what survives keeps its header.
LEMMA DieKeeps ==
  ASSUME NEW h, NEW n, Headers(h, n), NEW gone, NEW g, NEW m, Dying(g, m, h, n, gone)
  PROVE  /\ Headers(g, m)
         /\ LiveIn(g) = LiveIn(h) \ gone /\ OwnedIn(g) = OwnedIn(h) \ gone
         /\ \A s \in Id \ gone : g[s] = h[s]
  <1>a. /\ g = [s \in Id |-> IF s \in gone THEN Dead ELSE h[s]]
        /\ m \in [Id -> 0 .. MaxHeld]
        /\ \A s \in Id : m[s] = IF s \in gone THEN 0 ELSE n[s]
        BY DEF Dying
  <1>1. \A s \in Id : g[s] = IF s \in gone THEN Dead ELSE h[s] BY <1>a
  <1>2. Dead.live = FALSE BY DEF Dead
  <1>3. h \in [Id -> Header \cup {Dead}] BY DEF Headers
  <1>4. g \in [Id -> Header \cup {Dead}] BY <1>a, <1>3
  <1>5. LiveIn(g) = LiveIn(h) \ gone BY <1>1, <1>2 DEF LiveIn
  <1>6. OwnedIn(g) = OwnedIn(h) \ gone
    <2>1. \A s \in LiveIn(h) \ gone : g[s] = h[s] BY <1>1 DEF LiveIn
    <2> QED BY <1>5, <2>1 DEF OwnedIn
  <1>7. \A s \in LiveIn(h) \ gone : g[s] = h[s] /\ m[s] = n[s] /\ s \in LiveIn(h)
        BY <1>a, <1>1 DEF LiveIn
  <1>8. \A s \in OwnedIn(h) \ gone : g[s] = h[s] /\ s \in OwnedIn(h)
        BY <1>7, SetsOf
  <1>9. \A s \in LiveIn(g) : g[s].refcount = m[s] + (IF g[s].interned THEN 1 ELSE 0)
        BY <1>5, <1>7 DEF Headers
  <1>10. \A s \in Id \ LiveIn(g) : g[s] = Dead /\ m[s] = 0
         BY <1>a, <1>1, <1>5 DEF Headers
  <1>11. \A s \in LiveIn(g) : g[s].hash \in {Hash(g[s].content), Deferred}
         BY <1>5, <1>7 DEF Headers
  <1>12. \A s \in OwnedIn(g) : g[s].hash = Hash(g[s].content)
         BY <1>6, <1>8 DEF Headers
  <1>13. \A s, u \in OwnedIn(g) : g[s].content = g[u].content => s = u
         BY <1>6, <1>8 DEF Headers
  <1> QED
    BY <1>a, <1>1, <1>4, <1>5, <1>6, <1>9, <1>10, <1>11, <1>12, <1>13 DEF Headers

\* mark_and_sweep: what dies leaves the table and the registry, and the table may
\* shrink.
LEMMA SafepointKeeps ==
  ASSUME IInv, NEW memory, Safepoint(memory) PROVE IInv' /\ KeysStay
  <1> DEFINE SI == SweptInterned
             SL == SweptLarge
             gone == SI \cup SL
             live == LiveIn(str)
             own == OwnedIn(str)
             n == used - Cardinality(SI)
  <1>1. PICK h : h = [s \in Id |-> IF s \in gone THEN Dead ELSE str[s]] OBVIOUS
  <1>2. /\ ~native /\ str' = h /\ used' = n
        /\ table' = Shrunk(h, Entomb(table, SI), n, memory)
        /\ registry' = Compacted(registry, SL)
        /\ unlisted' = unlisted /\ held' = held /\ keys' = keys
        /\ native' = native /\ local' = local
        BY <1>1 DEF Safepoint, SweepSafe
  <1>3. /\ Headers(str, held) /\ TableOk(str, table, own) /\ Fits(table)
        /\ used = Cardinality(own)
        /\ RegOk(registry, ListedIn(str, unlisted)) /\ unlisted \subseteq live \ own
        /\ local = Null
        BY <1>2 DEF IInv, Tabled, Listing, Builtin
  <1>4. held \in [Id -> 0 .. MaxHeld] BY <1>3 DEF Headers
  <1>5. Live = live /\ own \subseteq live /\ live \subseteq Id BY SetsOf
  <1>6. SL \subseteq ListedIn(str, unlisted) BY <1>3, RegRange DEF SweptLarge
  <1>7. SI \subseteq own BY <1>5 DEF SweptInterned, OwnedIn
  <1>8. \A s \in gone : ~Marked(s) BY DEF SweptInterned, SweptLarge
  <1>9. gone \subseteq Id BY <1>5, <1>6, <1>7 DEF ListedIn
  <1>10. \A s \in gone : held[s] = 0 /\ s \notin keys
    <2>1. \A s \in gone : ~(held[s] > 0) /\ s \notin keys BY <1>8 DEF Marked
    <2> HIDE DEF gone
    <2>2. \A s \in gone : held[s] \in Nat BY <1>4, <1>9, SizesAssumption
    <2> QED BY <2>1, <2>2
  <1> HIDE DEF SI, SL
  <1>11. /\ Headers(h, held) /\ LiveIn(h) = live \ gone /\ OwnedIn(h) = own \ gone
         /\ \A s \in Id \ gone : h[s] = str[s]
    <2> HIDE DEF gone
    <2>1. Dying(h, held, str, held, gone) BY <1>1, <1>4, <1>10 DEF Dying
    <2> QED BY <1>3, <2>1, DieKeeps
  <1>12. own \ gone = own \ SI BY <1>6 DEF ListedIn
  <1>13. n = Cardinality(own \ SI)
    <2>1. IsFiniteSet(own) BY <1>3, TableFits
    <2>2. Cardinality(own \ SI) = Cardinality(own) - Cardinality(own \cap SI)
          BY <2>1, FS_Difference
    <2>3. own \cap SI = SI BY <1>7
    <2> QED BY <1>3, <2>2, <2>3
  <1>14. TableOk(str, Entomb(table, SI), own \ SI) /\ Len(Entomb(table, SI)) = Len(table)
         BY <1>3, <1>5, <1>7, EntombKeeps
  <1>15. \A s \in own \ SI : h[s].hash = str[s].hash BY <1>5, <1>11, <1>12
  <1>16. TableOk(h, Entomb(table, SI), own \ SI) BY <1>14, <1>15, TableSame
  <1>17. Fits(Entomb(table, SI)) BY <1>3, <1>14 DEF Fits
  <1>18. TableOk(h, table', own \ SI) /\ Fits(table')
    <2> DEFINE t == Entomb(table, SI)
               rest == own \ SI
    <2>1. TableOk(h, t, rest) /\ Fits(t) BY <1>16, <1>17
    <2>2. table' = Shrunk(h, t, Cardinality(rest), memory) BY <1>2, <1>13
    <2> HIDE DEF t, rest
    <2>3. TableOk(h, table', rest) /\ Fits(table') BY <2>1, <2>2, ShrunkKeeps
    <2> QED BY <2>3 DEF rest
  <1>19. Tabled' BY <1>2, <1>11, <1>12, <1>13, <1>18 DEF Tabled
  <1>20. ListedIn(h, unlisted) = ListedIn(str, unlisted) \ SL
         BY <1>5, <1>7, <1>11, <1>12 DEF ListedIn
  <1>21. RegOk(registry', ListedIn(str, unlisted) \ SL)
    BY <1>2, <1>3, CompactedKeeps
  <1>22. unlisted \subseteq LiveIn(h) \ OwnedIn(h)
         BY <1>3, <1>6, <1>7, <1>11, <1>12 DEF ListedIn
  <1>23. Listing' BY <1>2, <1>20, <1>21, <1>22 DEF Listing
  <1>24. Builtin' BY <1>2, <1>3 DEF IInv, Builtin
  <1>25. KeysStay BY <1>2, <1>10, <1>11 DEF KeysStay, KeyInv
  <1> QED BY <1>2, <1>11, <1>19, <1>23, <1>24, <1>25 DEF IInv

\* reset: nothing survives it; a table far larger than its first size is replaced.
LEMMA ResetKeeps ==
  ASSUME IInv, Reset PROVE IInv' /\ KeysStay
  <1> DEFINE gone == Id \ Leaked
             live == LiveIn(str)
             own == OwnedIn(str)
  <1>1. /\ ~native /\ str' = [s \in Id |-> IF s \in Leaked THEN str[s] ELSE Dead]
        /\ unlisted' = Leaked /\ held' = [s \in Id |-> 0] /\ keys' = {}
        /\ registry' = <<>> /\ used' = 0 /\ native' = native /\ local' = local
        /\ table' = IF Len(table) > ResetSlack * InitialSize
                    THEN [i \in 1 .. InitialSize |-> Null]
                    ELSE [i \in 1 .. Len(table) |-> IF table[i] \in Id THEN Null ELSE table[i]]
        BY DEF Reset
  <1>2. /\ Headers(str, held) /\ TableOk(str, table, own) /\ Fits(table)
        /\ unlisted \subseteq live \ own /\ local = Null
        BY <1>1 DEF IInv, Tabled, Listing, Builtin
  <1>3. MaxHeld \in Nat /\ InitialSize \in Nat \ {0} /\ InitialSize <= MaxSize
        BY SizesAssumption
  <1>4. Leaked \subseteq live \ own /\ live \subseteq Id
    BY <1>2, SetsOf DEF Leaked
  <1>5. str' = [s \in Id |-> IF s \in gone THEN Dead ELSE str[s]] BY <1>1
  <1>6. held' \in [Id -> 0 .. MaxHeld] /\ \A s \in Id : held'[s] = 0
    BY <1>1, <1>3
  <1>7. \A s \in Id : s \notin gone => held'[s] = held[s] BY <1>6 DEF Leaked
  <1> HIDE DEF gone
  <1>8. Headers(str', held') /\ LiveIn(str') = live \ gone /\ OwnedIn(str') = own \ gone
    <2>1. Dying(str', held', str, held, gone) BY <1>5, <1>6, <1>7 DEF Dying
    <2> QED BY <1>2, <2>1, DieKeeps
  <1>9. OwnedIn(str') = {} /\ LiveIn(str') = Leaked
        BY <1>4, <1>8, SetsOf DEF gone
  <1>10. Len(table) \in Nat \ {0} /\ table \in Seq(Entry) BY <1>2 DEF TableOk
  <1>11. /\ table' \in Seq(Entry) /\ Fits(table') /\ Len(table') # 0
         /\ \A i \in 1 .. Len(table') : table'[i] \notin Id
    <2>1. CASE Len(table) > ResetSlack * InitialSize
      <3>1. table' = [i \in 1 .. InitialSize |-> Null] BY <1>1, <2>1
      <3>2. table' \in Seq(Entry) /\ Len(table') = InitialSize
            /\ \A i \in 1 .. InitialSize : table'[i] = Null
            BY <1>3, <3>1 DEF Entry
      <3> QED BY <1>3, <3>2, Sizes, Names DEF Fits
    <2>2. CASE ~(Len(table) > ResetSlack * InitialSize)
      <3> DEFINE N == Len(table)
                 e(i) == IF table[i] \in Id THEN Null ELSE table[i]
      <3>1. table' = [i \in 1 .. N |-> e(i)] BY <1>1, <2>2
      <3>2. \A i \in 1 .. N : e(i) \in Entry /\ e(i) \notin Id
        BY <1>10, Names DEF Entry
      <3>3. N \in Nat BY <1>10
      <3> HIDE DEF N, e
      <3>4. table' \in Seq(Entry) /\ Len(table') = N
            /\ \A i \in 1 .. N : table'[i] \notin Id
            BY <3>1, <3>2, <3>3
      <3> QED BY <1>2, <1>10, <3>4 DEF Fits, N
    <2> QED BY <2>1, <2>2
  <1>12. TableOk(str', table', {}) BY <1>11 DEF TableOk
  <1>13. Tabled' BY <1>1, <1>9, <1>11, <1>12, FS_EmptySet DEF Tabled
  <1>14. ListedIn(str', unlisted') = {} BY <1>1, <1>9 DEF ListedIn
  <1>15. <<>> \in Seq(Id) /\ Len(<<>>) = 0 OBVIOUS
  <1>16. RegOk(registry', {}) BY <1>1, <1>15 DEF RegOk
  <1>17. Listing' BY <1>1, <1>9, <1>14, <1>16 DEF Listing
  <1>18. Builtin' BY <1>1, <1>2 DEF IInv, Builtin
  <1>19. KeysStay BY <1>1 DEF KeysStay, KeyInv
  <1> QED BY <1>1, <1>8, <1>13, <1>17, <1>18, <1>19 DEF IInv

---------------------------------------------------------------------------
(***************************************************************************)
(* The theorems.                                                           *)
(***************************************************************************)

\* Every step keeps the invariant, and the keys while there is room.
LEMMA StepKeeps ==
  ASSUME IInv, [Next]_vars PROVE IInv' /\ KeysStay
  <1>1. CASE Next
    <2>1. CASE \E c \in Contents : InternKnown(c) BY <2>1, InternKnownKeeps
    <2>2. CASE \E c \in Contents, memory \in BOOLEAN :
                  InternNew(c, memory) \/ AllocUninterned(c, memory)
          BY <2>2, InternNewKeeps, AllocUninternedKeeps
    <2>3. CASE Hold BY <2>3, HoldKeeps
    <2>4. CASE \E s \in Live : Drop(s) BY <2>4, DropKeeps
    <2>5. CASE \E s \in Live, memory \in BOOLEAN : UseAsKey(s, memory)
      BY <2>5, UseAsKeyKeeps
    <2>6. CASE \E k \in keys : DropKey(k) BY <2>6, DropKeyKeeps
    <2>7. CASE \E s \in Live, c \in Contents : AppendInPlace(s, c)
      BY <2>7, AppendInPlaceKeeps
    <2>8. CASE EnterNative \/ LeaveNative BY <2>8, NativeKeeps
    <2>9. CASE \E memory \in BOOLEAN : Safepoint(memory)
      BY <2>9, SafepointKeeps
    <2>10. CASE Reset BY <2>10, ResetKeeps
    <2> QED
      BY <1>1, <2>1, <2>2, <2>3, <2>4, <2>5, <2>6, <2>7, <2>8, <2>9, <2>10 DEF Next
  <1>2. CASE UNCHANGED vars
    BY <1>2 DEF vars, IInv, Tabled, Listing, Builtin, KeysStay, KeyInv
  <1> QED BY <1>1, <1>2

\* IInv is an invariant of the table, the registry and the headers.
THEOREM Invariant == Spec => []IInv
  <1>1. Init => IInv BY InitKeeps
  <1>2. IInv /\ [Next]_vars => IInv' BY StepKeeps
  <1> QED BY <1>1, <1>2, PTL DEF Spec

\* What occurs at most once occurs once or never.
LEMMA Counting ==
  ASSUME NEW q, NEW s, NEW n \in Nat, DOMAIN q = 1 .. n,
         \A i, j \in 1 .. n : q[i] = q[j] /\ q[i] = s => i = j
  PROVE  Cardinality({i \in DOMAIN q : q[i] = s}) = IF \E i \in 1 .. n : q[i] = s THEN 1 ELSE 0
  <1> DEFINE J == {i \in DOMAIN q : q[i] = s}
  <1>1. CASE \E i \in 1 .. n : q[i] = s
    <2>1. PICK i \in 1 .. n : q[i] = s BY <1>1
    <2>2. J = {i} BY <2>1
    <2>3. Cardinality(J) = 1 BY <2>2, FS_Singleton
    <2> QED BY <1>1, <2>3
  <1>2. CASE ~\E i \in 1 .. n : q[i] = s
    <2>1. J = {} BY <1>2
    <2>2. Cardinality(J) = 0 BY <2>1, FS_EmptySet
    <2> QED BY <1>2, <2>2
  <1> QED BY <1>1, <1>2

\* The strings of the table are the interned ones.
LEMMA TableHolds ==
  ASSUME NEW h, NEW t, NEW own, TableOk(h, t, own), NEW s \in Id
  PROVE  (\E i \in 1 .. Len(t) : t[i] = s) <=> s \in own
  <1>1. ASSUME s \in own PROVE \E i \in 1 .. Len(t) : t[i] = s
    <2> DEFINE p == Probe(t, h[s].hash)
    <2>1. PICK i \in 1 .. Len(t) : t[p[i]] = s BY <1>1 DEF TableOk, Reaches
    <2>2. h[s].hash \in Nat /\ Len(t) \in Nat \ {0} BY <1>1 DEF TableOk
    <2>3. p[i] \in 1 .. Len(t) BY <2>2, ProbeType
    <2> HIDE DEF p
    <2> QED BY <2>1, <2>3
  <1> QED BY <1>1 DEF TableOk

\* The type invariant; used counts the strings of the table (str_table_used).
THEOREM TypeCorrect == Spec => []TypeOK
  <1>1. IInv => TypeOK
    <2> SUFFICES ASSUME IInv PROVE TypeOK
        OBVIOUS
    <2>1. /\ Headers(str, held) /\ TableOk(str, table, OwnedIn(str)) /\ Fits(table)
          /\ used = Cardinality(OwnedIn(str)) /\ RegOk(registry, ListedIn(str, unlisted))
          /\ unlisted \subseteq LiveIn(str)
          BY DEF IInv, Tabled, Listing
    <2>2. OwnedIn(str) \subseteq Id /\ LiveIn(str) \subseteq Id BY SetsOf
    <2>3. MaxStrings \in Nat BY SizesAssumption
    <2>4. IsFiniteSet(Id) /\ Cardinality(Id) = MaxStrings
      <3>1. IsFiniteSet(1 .. MaxStrings)
            /\ Cardinality(1 .. MaxStrings) = IF 1 > MaxStrings THEN 0 ELSE MaxStrings - 1 + 1
            BY <2>3, FS_Interval
      <3> QED BY <2>3, <3>1 DEF Id
    <2>5. used \in 0 .. MaxStrings
      <3>1. Cardinality(OwnedIn(str)) <= Cardinality(Id) /\ IsFiniteSet(OwnedIn(str))
            BY <2>2, <2>4, FS_Subset
      <3>2. Cardinality(OwnedIn(str)) \in Nat BY <3>1, FS_CardinalityType
      <3> QED BY <2>1, <2>3, <2>4, <3>1, <3>2
    <2>6. Len(table) \in InitialSize .. MaxSize
      BY <2>1, Sizes, SizesAssumption DEF Fits
    <2>7. table \in Seq(Id \cup {Null, Tombstone}) BY <2>1 DEF TableOk, Entry
    <2>8. registry \in Seq(Id) BY <2>1 DEF RegOk
    <2>9. str \in [Id -> Header \cup {Dead}] /\ held \in [Id -> 0 .. MaxHeld]
          BY <2>1 DEF Headers
    <2> QED
      BY <2>1, <2>2, <2>5, <2>6, <2>7, <2>8, <2>9 DEF TypeOK, IInv, Builtin
  <1> QED BY <1>1, Invariant, PTL

\* FindsInterned: str_table_lookup finds every interned string by its text and
\* no other one with it, whatever was inserted, removed, grown, shrunk and swept
\* before.
THEOREM InternedAreFound == Spec => []FindsInterned
  <1>1. IInv => FindsInterned
    <2> SUFFICES ASSUME IInv, NEW s \in Live, str[s].interned
                 PROVE  Lookup(str, table, str[s].content) = s
        BY DEF FindsInterned
    <2> DEFINE c == str[s].content
               found == Lookup(str, table, c)
    <2>1. Headers(str, held) /\ TableOk(str, table, OwnedIn(str))
      BY DEF IInv, Tabled
    <2>2. s \in OwnedIn(str) BY SetsOf DEF OwnedIn
    <2>3. c \in Nat /\ str[s].hash = Hash(c)
      BY <2>1, <2>2, OwnedHash DEF Headers
    <2> HIDE DEF c
    <2>4. found # Null BY <2>1, <2>2, <2>3, LookupComplete DEF c
    <2>5. found \in OwnedIn(str) /\ str[found].content = c
      BY <2>1, <2>3, <2>4, LookupSound
    <2> HIDE DEF found
    <2>6. found = s BY <2>1, <2>2, <2>5 DEF Headers, c
    <2> QED BY <2>6 DEF found, c
  <1> QED BY <1>1, Invariant, PTL

\* OneOwner: a live string is in one slot of the table or in one entry of the
\* registry, never in both, and in neither only when the registry had no memory
\* for it.
THEOREM StringsHaveOneOwner == Spec => []OneOwner
  <1>1. IInv => OneOwner
    <2> SUFFICES ASSUME IInv PROVE OneOwner
        OBVIOUS
    <2>1. /\ TableOk(str, table, OwnedIn(str)) /\ used = Cardinality(OwnedIn(str))
          /\ RegOk(registry, ListedIn(str, unlisted))
          BY DEF IInv, Tabled, Listing
    <2>2. Live = LiveIn(str) BY SetsOf
    <2>3. OwnedIn(str) = {s \in Live : str[s].interned} BY <2>2 DEF OwnedIn
    <2>4. ASSUME NEW s \in Id
          PROVE  Cardinality({i \in DOMAIN table : table[i] = s})
                    = IF str[s].live /\ str[s].interned THEN 1 ELSE 0
      <3>1. DOMAIN table = 1 .. Len(table) /\ Len(table) \in Nat
        BY <2>1 DEF TableOk
      <3>2. \A i, j \in 1 .. Len(table) : table[i] = table[j] /\ table[i] = s => i = j
            BY <2>1 DEF TableOk
      <3>3. Cardinality({i \in DOMAIN table : table[i] = s})
               = IF \E i \in 1 .. Len(table) : table[i] = s THEN 1 ELSE 0
            BY <3>1, <3>2, Counting
      <3>4. (\E i \in 1 .. Len(table) : table[i] = s) <=> s \in OwnedIn(str)
            BY <2>1, TableHolds
      <3>5. s \in OwnedIn(str) <=> str[s].live /\ str[s].interned
        BY DEF OwnedIn, LiveIn
      <3> QED BY <3>3, <3>4, <3>5
    <2>5. ASSUME NEW s \in Id
          PROVE  Cardinality({i \in DOMAIN registry : registry[i] = s})
                    = IF str[s].live /\ ~str[s].interned /\ s \notin unlisted THEN 1 ELSE 0
      <3>1. DOMAIN registry = 1 .. Len(registry) /\ Len(registry) \in Nat
        BY <2>1 DEF RegOk
      <3>2. \A i, j \in 1 .. Len(registry) : registry[i] = registry[j] /\ registry[i] = s => i = j
            BY <2>1 DEF RegOk
      <3>3. Cardinality({i \in DOMAIN registry : registry[i] = s})
               = IF \E i \in 1 .. Len(registry) : registry[i] = s THEN 1 ELSE 0
            BY <3>1, <3>2, Counting
      <3>4. (\E i \in 1 .. Len(registry) : registry[i] = s) <=> s \in ListedIn(str, unlisted)
            BY <2>1 DEF RegOk
      <3>5. s \in ListedIn(str, unlisted) <=> str[s].live /\ ~str[s].interned /\ s \notin unlisted
            BY DEF ListedIn, OwnedIn, LiveIn
      <3> QED BY <3>3, <3>4, <3>5
    <2> QED BY <2>1, <2>3, <2>4, <2>5 DEF OneOwner
  <1> QED BY <1>1, Invariant, PTL

\* HoldersLive: no string is freed, by decref or by sweep_strings and
\* sweep_large_strings, that a register, a property or a builtin's local holds.
THEOREM HoldersAreLive == Spec => []HoldersLive
  <1>1. IInv => HoldersLive
    <2> SUFFICES ASSUME IInv PROVE HoldersLive
        OBVIOUS
    <2>1. \A s \in Id \ LiveIn(str) : held[s] = 0 BY DEF IInv, Headers
    <2>2. \A s \in Id : s \in LiveIn(str) <=> str[s].live BY DEF LiveIn
    <2>3. local # Null => local \in LiveIn(str) /\ local \in Id
      BY SetsOf DEF IInv, Builtin
    <2> QED BY <2>1, <2>2, <2>3 DEF HoldersLive
  <1> QED BY <1>1, Invariant, PTL

\* KeysInterned: ensure_interned stores canonical strings only, as
\* src/src/hobject.c3:1379 demands, and no sweep frees one, provided that the
\* table always has a slot without a string.  The proviso is needed: with a full
\* table str_table_insert fails and the key stays un-interned (heap.c3:4115).
THEOREM KeysAreInterned == Spec /\ []Room => []KeysInterned
  <1>1. Init => KeyInv BY InitKeeps
  <1>2. IInv /\ Room /\ KeyInv /\ [Next]_vars => KeyInv'
    BY StepKeeps DEF KeysStay
  <1>3. KeyInv => KeysInterned BY DEF KeyInv, KeysInterned, OwnedIn, LiveIn
  <1> QED BY <1>1, <1>2, <1>3, Invariant, PTL DEF Spec

\* SweepCollects: after a safepoint no unmarked string is left but those the
\* registry had no room for.
THEOREM SweepsCollect == Spec => SweepCollects
  <1> DEFINE A == (\E memory \in BOOLEAN : Safepoint(memory)) =>
                     \A s \in Id : str'[s].live => Marked(s) \/ s \in unlisted
  <1>1. IInv => A
    <2> SUFFICES ASSUME IInv, NEW memory \in BOOLEAN, Safepoint(memory),
                        NEW s \in Id, str'[s].live, ~Marked(s), s \notin unlisted
                 PROVE  FALSE
        OBVIOUS
    <2>1. str' = [e \in Id |-> IF e \in SweptInterned \cup SweptLarge THEN Dead ELSE str[e]]
          BY DEF Safepoint
    <2>2. ~Dead.live BY DEF Dead
    <2>3. s \notin SweptInterned /\ s \notin SweptLarge /\ str[s].live
      BY <2>1, <2>2
    <2>4. Headers(str, held) /\ RegOk(registry, ListedIn(str, unlisted))
          BY DEF IInv, Listing
    <2>5. s \in LiveIn(str) BY <2>3 DEF LiveIn
    <2>6. CASE str[s].interned
      <3>1. str[s].refcount # 1 BY <2>3, <2>5, <2>6, SetsOf DEF SweptInterned
      <3>2. str[s].refcount = held[s] + 1 BY <2>4, <2>5, <2>6 DEF Headers
      <3>3. held[s] \in 0 .. MaxHeld /\ MaxHeld \in Nat
        BY <2>4, SizesAssumption DEF Headers
      <3>4. held[s] > 0 BY <3>1, <3>2, <3>3
      <3> QED BY <3>4 DEF Marked
    <2>7. CASE ~str[s].interned
      <3>1. s \in ListedIn(str, unlisted) BY <2>5, <2>7 DEF ListedIn, OwnedIn
      <3>2. s \in Range(registry) BY <2>4, <3>1, RegRange
      <3> QED BY <2>3, <3>2 DEF SweptLarge
    <2> QED BY <2>6, <2>7
  <1>2. IInv /\ [Next]_vars => [A]_vars BY <1>1
  <1>3. SweepCollects <=> [][A]_vars BY DEF SweepCollects
  <1> HIDE DEF A
  <1> QED BY <1>2, <1>3, Invariant, PTL DEF Spec
=============================================================================
