------------------------ MODULE StringConcat_proofs ------------------------
(***************************************************************************)
(* The properties of StringConcat for every number of headers, chunks,     *)
(* variables and slots, and every length: reference counts are exact, keys *)
(* are canonical, interned text is frozen, and, where the emitted code     *)
(* stores the sum in the variable it read, appends cannot be observed.     *)
(***************************************************************************)
EXTENDS StringConcat, FiniteSetTheorems, SequenceTheorems, TLAPS

---------------------------------------------------------------------------
(* The inductive invariant, over a heap h, the places a and the keys ks,   *)
(* so that the heap operations can be reasoned about one at a time.        *)

HoldersIn(a, s) == {p \in Places : a[p] = s}
TableRef(h, s) == IF h[s].interned THEN 1 ELSE 0

CountedString(h, a, s) ==
    /\ IsFiniteSet(HoldersIn(a, s))
    /\ IF h[s].live
       THEN h[s].refcount = Cardinality(HoldersIn(a, s)) + TableRef(h, s)
       ELSE HoldersIn(a, s) = {}

Counted(h, a) == \A s \in String : CountedString(h, a, s)

\* The hash is the text's or not computed; an interned text has one string.
Canonical(h) ==
    \A s \in String : h[s].live =>
        /\ h[s].hash \in {Deferred, h[s].text}
        /\ h[s].interned =>
             /\ h[s].hash = h[s].text
             /\ \A u \in String :
                    h[u].live /\ h[u].interned /\ h[u].text = h[s].text => u = s

KeysHeld(h, ks) == \A k \in ks : h[k].live /\ h[k].interned

HeapOk(h, a, ks) ==
    /\ h \in [String -> Header \cup {Free}]
    /\ a \in [Places -> String \cup {Undef}]
    /\ ks \subseteq String
    /\ Counted(h, a)
    /\ Canonical(h)
    /\ KeysHeld(h, ks)

\* The registers a statement still needs are set.
Control ==
    /\ pc \in {"idle", "rhs", "add", "copy", "put"}
    /\ IF pc = "idle" THEN stmt = NoStatement
       ELSE stmt \in Shapes /\ at[Register] # Undef
    /\ pc = "add" => at[Rhs] # Undef
    /\ pc \in {"copy", "put"} => stmt.kind = "variable"

\* The text a place reads; it is never shorter than the language's.
Reads(h, a, p) == IF a[p] = Undef THEN <<>> ELSE h[a[p]].text

Meant(h, a, j) ==
    /\ j \in [Places -> Text \cup {<<>>}]
    /\ \A p \in Places : Len(j[p]) <= Len(Reads(h, a, p))

IInv == HeapOk(str, at, keys) /\ Control /\ Meant(str, at, js)

\* What every heap operation but an append leaves alone.
SameTexts(h, g) ==
    \A s \in String : h[s].live /\ g[s].live =>
        /\ g[s].text = h[s].text
        /\ h[s].interned => g[s].interned

Recount(x, n) == [x EXCEPT !.refcount = n]

\* g is h after one reference moved from old to new.
Transferred(h, g, old, new) ==
    /\ g \in [String -> Header \cup {Free}]
    /\ \A u \in String :
        IF u = old /\ u # new
        THEN g[u] = IF h[u].refcount = 1 THEN Free
                    ELSE Recount(h[u], h[u].refcount - 1)
        ELSE IF u = new /\ u # old
        THEN g[u] = Recount(h[u], h[u].refcount + 1)
        ELSE g[u] = h[u]

---------------------------------------------------------------------------
(* Names, texts and headers.                                               *)

LEMMA Names ==
    /\ Acc \in Places /\ Rhs \in Places /\ Acc # Rhs
    /\ Locals \subseteq Places /\ Bindings \subseteq Places /\ Slots \subseteq Places
    /\ Acc \notin Bindings \cup Slots \cup Locals
    /\ Rhs \notin Bindings \cup Slots \cup Locals
    /\ Locals \cap (Bindings \cup Slots) = {} /\ Bindings \cap Slots = {}
    /\ ConstBindings \subseteq Bindings
    /\ Undef \notin String
BY PlacesAssumption, BoundsAssumption DEF Places, Registers, Acc, Rhs, Undef, String

LEMMA TextIsSeq ==
    ASSUME NEW t
    PROVE  t \in Text <=> t \in Seq(Chunks) /\ Len(t) \in 1..MaxLen
<1>1. ASSUME t \in Text PROVE t \in Seq(Chunks) /\ Len(t) \in 1..MaxLen
  <2>1. PICK n \in 1..MaxLen : t \in [1..n -> Chunks]
    BY <1>1 DEF Text
  <2>2. n \in Nat /\ n >= 1 /\ n <= MaxLen
    BY <2>1, BoundsAssumption
  <2>3. t \in Seq(Chunks)
    BY <2>1, <2>2, SeqDef
  <2>4. 1..Len(t) = 1..n /\ Len(t) \in Nat
    BY <2>1, <2>3
  <2>5. Len(t) = n
    BY <2>2, <2>4
  <2> QED
    BY <2>2, <2>3, <2>5
<1>2. ASSUME t \in Seq(Chunks), Len(t) \in 1..MaxLen PROVE t \in Text
  <2>1. t \in [1..Len(t) -> Chunks]
    BY <1>2
  <2> QED
    BY <1>2, <2>1 DEF Text
<1> QED
  BY <1>1, <1>2

LEMMA Joined ==
    ASSUME NEW t \in Text \cup {<<>>}, NEW u \in Text \cup {<<>>},
           Len(t) + Len(u) <= MaxLen
    PROVE  /\ t \o u \in Text \cup {<<>>}
           /\ Len(t \o u) = Len(t) + Len(u)
           /\ t \in Text => t \o u \in Text
<1>1. t \in Seq(Chunks) /\ u \in Seq(Chunks)
  <2>1. <<>> \in Seq(Chunks)
    OBVIOUS
  <2>2. (t \in Text => t \in Seq(Chunks)) /\ (u \in Text => u \in Seq(Chunks))
    BY TextIsSeq
  <2> QED
    BY <2>1, <2>2
<1>2. t \o u \in Seq(Chunks) /\ Len(t \o u) = Len(t) + Len(u)
  BY <1>1
<1>3. t \in Text => Len(t) >= 1
  BY TextIsSeq
<1>4. Len(t) \in Nat /\ Len(u) \in Nat
  BY <1>1
<1>5. Len(t) + Len(u) = 0 => t \o u = <<>>
  BY <1>1, <1>2, <1>4
<1>6. t \o u \in Text <=> Len(t \o u) \in 1..MaxLen
  BY <1>2, TextIsSeq
<1> QED
  BY <1>2, <1>3, <1>4, <1>5, <1>6, BoundsAssumption

LEMMA ChunkText ==
    ASSUME NEW c \in Chunks
    PROVE  <<c>> \in Text /\ Len(<<c>>) = 1
<1>1. <<c>> \in Seq(Chunks) /\ Len(<<c>>) = 1 /\ 1 \in 1..MaxLen
  BY BoundsAssumption
<1>2. <<c>> \in Text <=> <<c>> \in Seq(Chunks) /\ Len(<<c>>) \in 1..MaxLen
  BY TextIsSeq
<1> QED
  BY <1>1, <1>2

LEMMA FreeHeader ==
    /\ Free.live = FALSE /\ Free.interned = FALSE /\ Free.refcount = 0
    /\ Free \notin Header
<1>1. Free.live = FALSE /\ Free.interned = FALSE /\ Free.refcount = 0
  BY DEF Free
<1>2. \A y \in Header : y.live = TRUE
  BY DEF Header
<1> QED
  BY <1>1, <1>2

LEMMA LiveHeader ==
    \A x \in Header :
        /\ x.live = TRUE /\ x.interned \in BOOLEAN /\ x.refcount \in Nat
        /\ x.text \in Text /\ x.capacity \in 1..(2 * MaxLen + 1)
        /\ x.hash \in Text \cup {Deferred}
BY DEF Header

LEMMA Headers ==
    \A x \in Header \cup {Free} :
        /\ x \in Header <=> x.live
        /\ x.refcount \in Nat
        /\ ~x.live => x = Free /\ ~x.interned
<1> SUFFICES ASSUME NEW x \in Header \cup {Free}
             PROVE  /\ x \in Header <=> x.live
                    /\ x.refcount \in Nat
                    /\ ~x.live => x = Free /\ ~x.interned
  OBVIOUS
<1>1. CASE x \in Header
  BY <1>1, LiveHeader
<1>2. CASE x = Free
  BY <1>2, FreeHeader
<1> QED
  BY <1>1, <1>2

LEMMA Recounted ==
    \A x \in Header, n \in Nat :
        /\ Recount(x, n) \in Header
        /\ Recount(x, n).live = TRUE /\ Recount(x, n).text = x.text
        /\ Recount(x, n).hash = x.hash /\ Recount(x, n).interned = x.interned
        /\ Recount(x, n).refcount = n
        /\ Recount(Recount(x, n), x.refcount) = x
BY DEF Header, Recount

---------------------------------------------------------------------------
(* Counting holders.                                                       *)

\* One place changes hands.
LEMMA HoldersMove ==
    ASSUME NEW a \in [Places -> String \cup {Undef}], NEW p \in Places,
           NEW s \in String \cup {Undef}, NEW u \in String,
           IsFiniteSet(HoldersIn(a, u)),
           NEW b, b[p] = s, \A q \in Places : q # p => b[q] = a[q]
    PROVE  /\ IsFiniteSet(HoldersIn(b, u))
           /\ Cardinality(HoldersIn(a, u)) \in Nat
           /\ Cardinality(HoldersIn(b, u)) =
                IF u = s /\ u # a[p] THEN Cardinality(HoldersIn(a, u)) + 1
                ELSE IF u = a[p] /\ u # s THEN Cardinality(HoldersIn(a, u)) - 1
                ELSE Cardinality(HoldersIn(a, u))
<1>1. u = s => HoldersIn(b, u) = HoldersIn(a, u) \cup {p}
  BY DEF HoldersIn
<1>2. u # s => HoldersIn(b, u) = HoldersIn(a, u) \ {p}
  BY DEF HoldersIn
<1>3. p \in HoldersIn(a, u) <=> a[p] = u
  BY DEF HoldersIn
<1>4. Cardinality(HoldersIn(a, u)) \in Nat
  BY FS_CardinalityType
<1> DEFINE n == Cardinality(HoldersIn(a, u))
           m == Cardinality(HoldersIn(b, u))
<1>6. ASSUME u = s
      PROVE  IsFiniteSet(HoldersIn(b, u)) /\ m = IF a[p] = u THEN n ELSE n + 1
  <2>1. /\ IsFiniteSet(HoldersIn(a, u) \cup {p})
        /\ Cardinality(HoldersIn(a, u) \cup {p}) =
             IF p \in HoldersIn(a, u) THEN n ELSE n + 1
    BY FS_AddElement
  <2> QED
    BY <1>1, <1>3, <1>6, <2>1
<1>7. ASSUME u # s
      PROVE  IsFiniteSet(HoldersIn(b, u)) /\ m = IF a[p] = u THEN n - 1 ELSE n
  <2>1. /\ IsFiniteSet(HoldersIn(a, u) \ {p})
        /\ Cardinality(HoldersIn(a, u) \ {p}) =
             IF p \in HoldersIn(a, u) THEN n - 1 ELSE n
    BY FS_RemoveElement
  <2> QED
    BY <1>2, <1>3, <1>7, <2>1
<1> HIDE DEF n, m
<1>8. /\ IsFiniteSet(HoldersIn(b, u))
      /\ m = IF u = s /\ u # a[p] THEN n + 1
             ELSE IF u = a[p] /\ u # s THEN n - 1 ELSE n
  BY <1>6, <1>7
<1> QED
  BY <1>4, <1>8 DEF n, m

LEMMA Held ==
    ASSUME NEW h, NEW a, NEW ks, HeapOk(h, a, ks), NEW p \in Places, a[p] # Undef
    PROVE  /\ a[p] \in String /\ h[a[p]].live /\ h[a[p]] \in Header
           /\ h[a[p]].refcount >= 1
           /\ h[a[p]].interned => h[a[p]].refcount >= 2
<1>1. a[p] \in String
  BY DEF HeapOk
<1>2. p \in HoldersIn(a, a[p]) /\ CountedString(h, a, a[p])
  BY <1>1 DEF HoldersIn, HeapOk, Counted
<1>3. h[a[p]].live
  BY <1>2 DEF CountedString
<1>4. Cardinality(HoldersIn(a, a[p])) \in Nat
  BY <1>2, FS_CardinalityType DEF CountedString
<1>5. Cardinality(HoldersIn(a, a[p])) # 0
  BY <1>2, FS_EmptySet DEF CountedString
<1>6. h[a[p]] \in Header
  BY <1>1, <1>3, Headers DEF HeapOk
<1> QED
  BY <1>1, <1>2, <1>3, <1>4, <1>5, <1>6, Headers DEF CountedString, TableRef

---------------------------------------------------------------------------
(* Moving one reference.                                                   *)

LEMMA TransferCounts ==
    ASSUME NEW h, NEW a, NEW ks, HeapOk(h, a, ks),
           NEW p \in Places, NEW s \in String \cup {Undef}, s # Undef => h[s].live,
           NEW g, Transferred(h, g, a[p], s), NEW u \in String
    PROVE  /\ CountedString(g, [a EXCEPT ![p] = s], u)
           /\ g[u].live => /\ h[u].live /\ g[u].text = h[u].text
                           /\ g[u].hash = h[u].hash /\ g[u].interned = h[u].interned
           /\ h[u].live /\ ~g[u].live => ~h[u].interned
<1> DEFINE b == [a EXCEPT ![p] = s]
<1>b. b = [a EXCEPT ![p] = s]
  OBVIOUS
<1> HIDE DEF b
<1> DEFINE n == Cardinality(HoldersIn(a, u))
           m == Cardinality(HoldersIn(b, u))
<1>1. a \in [Places -> String \cup {Undef}] /\ h[u] \in Header \cup {Free}
  BY DEF HeapOk
<1>2. CountedString(h, a, u) /\ IsFiniteSet(HoldersIn(a, u))
  BY DEF HeapOk, Counted, CountedString
<1>c. /\ IsFiniteSet(HoldersIn(b, u))
      /\ Cardinality(HoldersIn(a, u)) \in Nat
      /\ Cardinality(HoldersIn(b, u)) =
           IF u = s /\ u # a[p] THEN Cardinality(HoldersIn(a, u)) + 1
           ELSE IF u = a[p] /\ u # s THEN Cardinality(HoldersIn(a, u)) - 1
           ELSE Cardinality(HoldersIn(a, u))
  <2>1. b[p] = s /\ \A q \in Places : q # p => b[q] = a[q]
    BY <1>1, <1>b
  <2> QED
    BY <1>1, <1>2, <2>1, HoldersMove
<1>3. /\ IsFiniteSet(HoldersIn(b, u)) /\ n \in Nat
      /\ m = IF u = s /\ u # a[p] THEN n + 1
             ELSE IF u = a[p] /\ u # s THEN n - 1 ELSE n
  BY <1>c
<1>4. u = a[p] => /\ h[u].live /\ h[u] \in Header /\ h[u].refcount >= 1
                  /\ h[u].interned => h[u].refcount >= 2
  BY Held, Names
<1>5. m = 0 => HoldersIn(b, u) = {}
  BY <1>3, FS_EmptySet
<1> HIDE DEF n, m
<1>6. CASE u = a[p] /\ u # s
  <2>1. h[u].refcount = n + TableRef(h, u) /\ m = n - 1
    BY <1>2, <1>3, <1>4, <1>6 DEF CountedString, n
  <2>2. CASE h[u].refcount = 1
    <3>1. g[u] = Free /\ ~h[u].interned
      BY <1>4, <1>6, <2>2 DEF Transferred
    <3>2. m = 0
      BY <2>1, <2>2, <3>1, <1>3 DEF TableRef
    <3> QED
      BY <1>3, <1>5, <3>1, <3>2, FreeHeader DEF CountedString, b
  <2>3. CASE h[u].refcount # 1
    <3>1. g[u] = Recount(h[u], h[u].refcount - 1)
      BY <1>6, <2>3 DEF Transferred
    <3>2. h[u].refcount - 1 \in Nat
      BY <1>4, <1>6, Headers
    <3>3. /\ g[u].live /\ g[u].text = h[u].text /\ g[u].hash = h[u].hash
          /\ g[u].interned = h[u].interned /\ g[u].refcount = h[u].refcount - 1
      <4> DEFINE x == Recount(h[u], h[u].refcount - 1)
      <4>1. /\ x.live = TRUE /\ x.text = h[u].text /\ x.hash = h[u].hash
            /\ x.interned = h[u].interned /\ x.refcount = h[u].refcount - 1
        BY <1>4, <1>6, <3>2, Recounted
      <4> QED
        BY <3>1, <4>1
    <3> QED
      BY <1>3, <1>4, <1>6, <2>1, <3>3 DEF CountedString, TableRef, b, m
  <2> QED
    BY <2>2, <2>3
<1>7. CASE u = s /\ u # a[p]
  <2>1. h[u].live /\ h[u] \in Header /\ h[u].refcount \in Nat
    BY <1>1, <1>7, Names, Headers
  <2>2. h[u].refcount = n + TableRef(h, u) /\ m = n + 1
    BY <1>2, <1>3, <1>7, <2>1 DEF CountedString, n
  <2>3. g[u] = Recount(h[u], h[u].refcount + 1)
    BY <1>7 DEF Transferred
  <2>4. /\ g[u].live /\ g[u].text = h[u].text /\ g[u].hash = h[u].hash
        /\ g[u].interned = h[u].interned /\ g[u].refcount = h[u].refcount + 1
    <3>1. h[u].refcount + 1 \in Nat
      BY <2>1
    <3> DEFINE x == Recount(h[u], h[u].refcount + 1)
    <3>2. /\ x.live = TRUE /\ x.text = h[u].text /\ x.hash = h[u].hash
          /\ x.interned = h[u].interned /\ x.refcount = h[u].refcount + 1
      BY <2>1, <3>1, Recounted
    <3> QED
      BY <2>3, <3>2
  <2> QED
    BY <1>3, <2>1, <2>2, <2>4 DEF CountedString, TableRef, b, m
<1>8. CASE ~(u = a[p] /\ u # s) /\ ~(u = s /\ u # a[p])
  <2>1. g[u] = h[u] /\ m = n
    BY <1>3, <1>8 DEF Transferred
  <2>2. n = 0 => HoldersIn(b, u) = {}
    BY <1>5, <2>1
  <2>3. ~h[u].live => n = 0
    BY <1>2, FS_EmptySet DEF CountedString, n
  <2> QED
    BY <1>2, <1>3, <2>1, <2>2, <2>3 DEF CountedString, TableRef, b, m, n
<1> QED
  BY <1>6, <1>7, <1>8

LEMMA Transfer ==
    ASSUME NEW h, NEW a, NEW ks, HeapOk(h, a, ks),
           NEW p \in Places, NEW s \in String \cup {Undef}, s # Undef => h[s].live,
           NEW g, Transferred(h, g, a[p], s)
    PROVE  /\ HeapOk(g, [a EXCEPT ![p] = s], ks)
           /\ SameTexts(h, g)
<1>1. \A u \in String :
        /\ CountedString(g, [a EXCEPT ![p] = s], u)
        /\ g[u].live => /\ h[u].live /\ g[u].text = h[u].text
                        /\ g[u].hash = h[u].hash /\ g[u].interned = h[u].interned
        /\ h[u].live /\ ~g[u].live => ~h[u].interned
  BY TransferCounts
<1>2. g \in [String -> Header \cup {Free}]
  BY DEF Transferred
<1>3. [a EXCEPT ![p] = s] \in [Places -> String \cup {Undef}] /\ ks \subseteq String
  BY DEF HeapOk
<1>4. Canonical(g)
  BY <1>1 DEF Canonical, HeapOk
<1>5. KeysHeld(g, ks)
  BY <1>1, <1>3 DEF KeysHeld, HeapOk
<1>6. SameTexts(h, g)
  BY <1>1 DEF SameTexts
<1> QED
  BY <1>1, <1>2, <1>3, <1>4, <1>5, <1>6 DEF HeapOk, Counted

LEMMA IncrefAt ==
    ASSUME NEW h \in [String -> Header \cup {Free}], NEW s \in String, h[s] \in Header
    PROVE  /\ Incref(h, s) \in [String -> Header \cup {Free}]
           /\ Incref(h, s)[s] = Recount(h[s], h[s].refcount + 1)
           /\ \A u \in String : u # s => Incref(h, s)[u] = h[u]
<1>1. h[s].refcount + 1 \in Nat
  BY LiveHeader
<1>2. Recount(h[s], h[s].refcount + 1) \in Header
  BY <1>1, Recounted
<1>3. Incref(h, s) = [h EXCEPT ![s] = Recount(h[s], h[s].refcount + 1)]
  BY Names DEF Incref, Count, Recount
<1> QED
  BY <1>2, <1>3

LEMMA DecrefAt ==
    ASSUME NEW h \in [String -> Header \cup {Free}], NEW s \in String, h[s] \in Header,
           h[s].refcount >= 1
    PROVE  /\ Decref(h, s) \in [String -> Header \cup {Free}]
           /\ Decref(h, s)[s] = IF h[s].refcount = 1 THEN Free
                                ELSE Recount(h[s], h[s].refcount - 1)
           /\ \A u \in String : u # s => Decref(h, s)[u] = h[u]
<1>1. h[s].refcount - 1 \in Nat
  BY LiveHeader
<1>2. Recount(h[s], h[s].refcount - 1) \in Header
  BY <1>1, Recounted
<1>3. Decref(h, s) = IF h[s].refcount = 1 THEN [h EXCEPT ![s] = Free]
                     ELSE [h EXCEPT ![s] = Recount(h[s], h[s].refcount - 1)]
  BY Names DEF Decref, Count, Recount
<1> QED
  BY <1>2, <1>3

\* A place is emptied.
LEMMA Release ==
    ASSUME NEW h, NEW a, NEW ks, HeapOk(h, a, ks), NEW p \in Places
    PROVE  /\ HeapOk(Decref(h, a[p]), [a EXCEPT ![p] = Undef], ks)
           /\ SameTexts(h, Decref(h, a[p]))
<1>1. h \in [String -> Header \cup {Free}] /\ a[p] \in String \cup {Undef}
  BY DEF HeapOk
<1>2. Transferred(h, Decref(h, a[p]), a[p], Undef)
  <2>1. CASE a[p] = Undef
    BY <1>1, <2>1, Names DEF Transferred, Decref
  <2>2. CASE a[p] # Undef
    <3>1. a[p] \in String /\ h[a[p]] \in Header /\ h[a[p]].refcount >= 1
      BY <2>2, Held
    <3> QED
      BY <1>1, <2>2, <3>1, DecrefAt, Names DEF Transferred
  <2> QED
    BY <2>1, <2>2
<1> QED
  BY <1>2, Transfer

\* set_reg_string: the old string is released first, so the new one must not
\* depend on the register's own reference.
LEMMA SetRegOk ==
    ASSUME NEW h, NEW a, NEW ks, HeapOk(h, a, ks), NEW p \in Places,
           NEW s \in String, h[s].live, a[p] = s => h[s].refcount # 1
    PROVE  /\ HeapOk(Incref(Decref(h, a[p]), s), [a EXCEPT ![p] = s], ks)
           /\ SameTexts(h, Incref(Decref(h, a[p]), s))
<1> DEFINE d == Decref(h, a[p])
<1>1. h \in [String -> Header \cup {Free}] /\ a[p] \in String \cup {Undef}
  BY DEF HeapOk
<1>2. h[s] \in Header
  BY <1>1, Headers
<1>3. CASE a[p] = Undef
  <2>1. d = h
    BY <1>3 DEF Decref
  <2>2. Transferred(h, Incref(h, s), a[p], s)
    BY <1>1, <1>2, <1>3, IncrefAt, Names DEF Transferred
  <2> QED
    BY <2>1, <2>2, Transfer
<1>4. CASE a[p] # Undef
  <2>1. a[p] \in String /\ h[a[p]] \in Header /\ h[a[p]].refcount >= 1
    BY <1>4, Held
  <2>2. /\ d \in [String -> Header \cup {Free}]
        /\ d[a[p]] = IF h[a[p]].refcount = 1 THEN Free
                     ELSE Recount(h[a[p]], h[a[p]].refcount - 1)
        /\ \A u \in String : u # a[p] => d[u] = h[u]
    BY <1>1, <2>1, DecrefAt
  <2> HIDE DEF d
  <2>3. CASE a[p] # s
    <3>1. d[s] = h[s]
      BY <2>2, <2>3
    <3>2. /\ Incref(d, s) \in [String -> Header \cup {Free}]
          /\ Incref(d, s)[s] = Recount(h[s], h[s].refcount + 1)
          /\ \A u \in String : u # s => Incref(d, s)[u] = d[u]
      BY <1>2, <2>2, <3>1, IncrefAt
    <3>3. Transferred(h, Incref(d, s), a[p], s)
      BY <2>1, <2>2, <2>3, <3>2 DEF Transferred
    <3> QED
      BY <3>3, Transfer DEF d
  <2>4. CASE a[p] = s
    <3> DEFINE x == h[s]
               y == Recount(x, x.refcount - 1)
    <3>1. d[s] = y /\ x.refcount \in Nat /\ x.refcount - 1 \in Nat
      BY <1>2, <2>1, <2>2, <2>4, LiveHeader
    <3>2. y \in Header /\ y.refcount + 1 = x.refcount
      <4>1. y \in Header /\ y.refcount = x.refcount - 1
        BY <1>2, <3>1, Recounted
      <4> QED
        BY <3>1, <4>1
    <3>3. Recount(y, y.refcount + 1) = x
      BY <1>2, <3>1, <3>2, Recounted
    <3>4. /\ Incref(d, s) \in [String -> Header \cup {Free}]
          /\ Incref(d, s)[s] = Recount(d[s], d[s].refcount + 1)
          /\ \A u \in String : u # s => Incref(d, s)[u] = d[u]
      BY <2>2, <3>1, <3>2, IncrefAt
    <3>5. Incref(d, s)[s] = h[s]
      BY <3>1, <3>3, <3>4
    <3>6. Transferred(h, Incref(d, s), a[p], s)
      BY <2>2, <2>4, <3>4, <3>5 DEF Transferred
    <3> QED
      BY <3>6, Transfer DEF d
  <2> QED
    BY <2>3, <2>4
<1> QED
  BY <1>3, <1>4

\* tval_copy_ref: the source is retained before the destination is released.
LEMMA CopyOk ==
    ASSUME NEW h, NEW a, NEW ks, HeapOk(h, a, ks), NEW p \in Places,
           NEW q \in Places, a[q] # Undef
    PROVE  /\ HeapOk(Decref(Incref(h, a[q]), a[p]), [a EXCEPT ![p] = a[q]], ks)
           /\ SameTexts(h, Decref(Incref(h, a[q]), a[p]))
<1> DEFINE s == a[q]
           d == Incref(h, s)
<1>1. h \in [String -> Header \cup {Free}] /\ a[p] \in String \cup {Undef}
  BY DEF HeapOk
<1>2. s \in String /\ h[s].live /\ h[s] \in Header /\ h[s].refcount \in Nat
      /\ h[s].refcount >= 1
  BY Held, LiveHeader
<1>3. /\ d \in [String -> Header \cup {Free}]
      /\ d[s] = Recount(h[s], h[s].refcount + 1)
      /\ \A u \in String : u # s => d[u] = h[u]
  BY <1>1, <1>2, IncrefAt
<1>4. d[s] \in Header /\ d[s].refcount = h[s].refcount + 1
  BY <1>2, <1>3, Recounted
<1> HIDE DEF d
<1>5. CASE a[p] = Undef
  <2>1. Decref(d, a[p]) = d
    BY <1>5 DEF Decref
  <2>2. Transferred(h, d, a[p], s)
    BY <1>2, <1>3, <1>5, Names DEF Transferred
  <2> QED
    BY <1>2, <2>1, <2>2, Transfer DEF d
<1>6. CASE a[p] # Undef
  <2>1. a[p] \in String /\ h[a[p]] \in Header /\ h[a[p]].refcount >= 1
    BY <1>6, Held
  <2>2. CASE a[p] # s
    <3>1. d[a[p]] = h[a[p]]
      BY <1>3, <2>1, <2>2
    <3>2. /\ Decref(d, a[p]) \in [String -> Header \cup {Free}]
          /\ Decref(d, a[p])[a[p]] = IF h[a[p]].refcount = 1 THEN Free
                     ELSE Recount(h[a[p]], h[a[p]].refcount - 1)
          /\ \A u \in String : u # a[p] => Decref(d, a[p])[u] = d[u]
      BY <1>3, <2>1, <3>1, DecrefAt
    <3>3. Transferred(h, Decref(d, a[p]), a[p], s)
      BY <1>2, <1>3, <2>1, <2>2, <3>2 DEF Transferred
    <3> QED
      BY <1>2, <3>3, Transfer DEF d
  <2>3. CASE a[p] = s
    <3>1. d[s].refcount # 1 /\ d[s].refcount >= 1
      BY <1>2, <1>4
    <3>2. /\ Decref(d, s) \in [String -> Header \cup {Free}]
          /\ Decref(d, s)[s] = Recount(d[s], d[s].refcount - 1)
          /\ \A u \in String : u # s => Decref(d, s)[u] = d[u]
      BY <1>2, <1>3, <1>4, <3>1, DecrefAt
    <3>3. Recount(d[s], d[s].refcount - 1) = h[s]
      <4>1. d[s].refcount - 1 = h[s].refcount /\ h[s].refcount + 1 \in Nat
        BY <1>2, <1>4
      <4> QED
        BY <1>2, <1>3, <4>1, Recounted
    <3>4. Transferred(h, Decref(d, a[p]), a[p], s)
      BY <1>3, <2>3, <3>2, <3>3 DEF Transferred
    <3> QED
      BY <1>2, <3>4, Transfer DEF d
  <2> QED
    BY <2>2, <2>3
<1> QED
  BY <1>5, <1>6

---------------------------------------------------------------------------
(* New strings.                                                            *)

LEMMA Allocate ==
    ASSUME NEW h, NEW a, NEW ks, HeapOk(h, a, ks),
           NEW n \in String, ~h[n].live,
           NEW x \in Header, x.hash \in {Deferred, x.text},
           x.refcount = IF x.interned THEN 1 ELSE 0,
           x.interned => /\ x.hash = x.text
                         /\ \A u \in String : ~(h[u].live /\ h[u].interned /\ h[u].text = x.text),
           NEW g \in [String -> Header \cup {Free}], g[n] = x,
           \A u \in String : u # n => g[u] = h[u]
    PROVE  /\ HeapOk(g, a, ks)
           /\ \A u \in String : h[u].live => g[u] = h[u]
<1>1. h \in [String -> Header \cup {Free}] /\ ks \subseteq String
  BY DEF HeapOk
<1>2. x.live = TRUE
  BY LiveHeader
<1>4. \A u \in String : h[u].live => g[u] = h[u]
  BY <1>2
<1>5. ASSUME NEW u \in String PROVE CountedString(g, a, u)
  <2>1. CountedString(h, a, u)
    BY DEF HeapOk, Counted
  <2>2. CASE u = n
    <3>1. IsFiniteSet(HoldersIn(a, u)) /\ HoldersIn(a, u) = {}
      BY <2>1, <2>2 DEF CountedString
    <3>2. Cardinality(HoldersIn(a, u)) = 0
      BY <3>1, FS_EmptySet
    <3>3. g[u].refcount = IF g[u].interned THEN 1 ELSE 0
      BY <1>2, <2>2
    <3> QED
      BY <1>2, <2>2, <3>1, <3>2, <3>3 DEF CountedString, TableRef
  <2>3. CASE u # n
    BY <1>2, <2>1, <2>3 DEF CountedString, TableRef
  <2> QED
    BY <2>2, <2>3
<1>6. Canonical(g)
  <2>1. Canonical(h)
    BY DEF HeapOk
  <2> QED
    BY <1>2, <2>1 DEF Canonical
<1>7. KeysHeld(g, ks)
  BY <1>1, <1>4 DEF HeapOk, KeysHeld
<1> QED
  BY <1>1, <1>4, <1>5, <1>6, <1>7 DEF HeapOk, Counted

LEMMA InternOk ==
    ASSUME NEW h, NEW a, NEW ks, HeapOk(h, a, ks), NEW t \in Text, Unused(h) # {}
    PROVE  /\ HeapOk(Intern(h, t), a, ks)
           /\ \A u \in String : h[u].live => Intern(h, t)[u] = h[u]
           /\ InternId(h, t) \in String
           /\ Intern(h, t)[InternId(h, t)].live
           /\ Intern(h, t)[InternId(h, t)].interned
           /\ Intern(h, t)[InternId(h, t)].text = t
<1>1. CASE Lookup(h, t) # {}
  BY <1>1 DEF Intern, InternId, Lookup
<1>2. CASE Lookup(h, t) = {}
  <2> DEFINE n == NewString(h)
             x == [live |-> TRUE, text |-> t, capacity |-> Len(t), refcount |-> 1,
                   interned |-> TRUE, hash |-> t]
  <2>1. n \in String /\ ~h[n].live
    BY DEF NewString, Unused
  <2>2. Intern(h, t) = [h EXCEPT ![n] = x] /\ InternId(h, t) = n
    BY <1>2 DEF Intern, InternId
  <2>3. Len(t) \in 1..MaxLen
    BY TextIsSeq
  <2>4. x \in Header
    BY <2>3, BoundsAssumption DEF Header
  <2>5. \A u \in String : ~(h[u].live /\ h[u].interned /\ h[u].text = t)
    BY <1>2 DEF Lookup, HeapOk, Canonical
  <2>6. /\ x.hash = t /\ x.text = t /\ x.refcount = 1
        /\ x.interned = TRUE /\ x.live = TRUE
    OBVIOUS
  <2> HIDE DEF n, x
  <2>7. /\ HeapOk(Intern(h, t), a, ks)
        /\ \A u \in String : h[u].live => Intern(h, t)[u] = h[u]
    <3> DEFINE g == Intern(h, t)
    <3>1. /\ g \in [String -> Header \cup {Free}] /\ g[n] = x
          /\ \A u \in String : u # n => g[u] = h[u]
      BY <2>1, <2>2, <2>4 DEF HeapOk
    <3> HIDE DEF g
    <3>2. HeapOk(g, a, ks) /\ \A u \in String : h[u].live => g[u] = h[u]
      BY <2>1, <2>4, <2>5, <2>6, <3>1, Allocate
    <3> QED
      BY <3>2 DEF g
  <2>8. Intern(h, t)[n] = x
    BY <2>1, <2>2 DEF HeapOk
  <2> QED
    BY <2>1, <2>2, <2>6, <2>7, <2>8
<1> QED
  BY <1>1, <1>2

LEMMA AccumulatorOk ==
    ASSUME NEW h, NEW a, NEW ks, HeapOk(h, a, ks), NEW t \in Text, Unused(h) # {},
           NEW cap \in 1..(2 * MaxLen + 1)
    PROVE  /\ HeapOk(Accumulator(h, t, cap), a, ks)
           /\ \A u \in String : h[u].live => Accumulator(h, t, cap)[u] = h[u]
           /\ NewString(h) \in String
           /\ ~h[NewString(h)].live
           /\ Accumulator(h, t, cap)[NewString(h)].live
           /\ Accumulator(h, t, cap)[NewString(h)].text = t
<1> DEFINE n == NewString(h)
           x == [live |-> TRUE, text |-> t, capacity |-> cap, refcount |-> 0,
                 interned |-> FALSE, hash |-> Deferred]
<1>1. n \in String /\ ~h[n].live
  BY DEF NewString, Unused
<1>2. Accumulator(h, t, cap) = [h EXCEPT ![n] = x]
  BY DEF Accumulator
<1>3. x \in Header
  BY DEF Header
<1>4. x.hash = Deferred /\ x.text = t /\ x.refcount = 0 /\ ~x.interned /\ x.live = TRUE
  OBVIOUS
<1> HIDE DEF n, x
<1>5. /\ HeapOk(Accumulator(h, t, cap), a, ks)
      /\ \A u \in String : h[u].live => Accumulator(h, t, cap)[u] = h[u]
  <2> DEFINE g == Accumulator(h, t, cap)
  <2>1. /\ g \in [String -> Header \cup {Free}] /\ g[n] = x
        /\ \A u \in String : u # n => g[u] = h[u]
    BY <1>1, <1>2, <1>3 DEF HeapOk
  <2> HIDE DEF g
  <2>2. HeapOk(g, a, ks) /\ \A u \in String : h[u].live => g[u] = h[u]
    BY <1>1, <1>3, <1>4, <2>1, Allocate
  <2> QED
    BY <2>2 DEF g
<1>6. Accumulator(h, t, cap)[n] = x
  BY <1>1, <1>2 DEF HeapOk
<1> QED
  BY <1>1, <1>4, <1>5, <1>6 DEF n

\* A register takes a string that was just found or made.
LEMMA Store ==
    ASSUME NEW h, NEW a, NEW ks, NEW g, HeapOk(g, a, ks),
           \A u \in String : h[u].live => g[u] = h[u],
           NEW p \in Places, NEW s \in String, g[s].live,
           a[p] = s => g[s].refcount # 1
    PROVE  /\ HeapOk(Incref(Decref(g, a[p]), s), [a EXCEPT ![p] = s], ks)
           /\ SameTexts(h, Incref(Decref(g, a[p]), s))
           /\ Incref(Decref(g, a[p]), s)[s].live
           /\ Incref(Decref(g, a[p]), s)[s].text = g[s].text
<1> DEFINE f == Incref(Decref(g, a[p]), s)
           b == [a EXCEPT ![p] = s]
<1>1. HeapOk(f, b, ks) /\ SameTexts(g, f)
  BY SetRegOk
<1>2. b[p] = s
  BY DEF HeapOk
<1> HIDE DEF f, b
<1>3. f[s].live
  <2>1. b[p] # Undef
    BY <1>2, Names
  <2>2. f[b[p]].live
    BY <1>1, <2>1, Held
  <2> QED
    BY <1>2, <2>2
<1>4. f[s].text = g[s].text
  BY <1>1, <1>3 DEF SameTexts
<1>5. SameTexts(h, f)
  BY <1>1 DEF SameTexts
<1> QED
  BY <1>1, <1>3, <1>4, <1>5 DEF f, b

LEMMA StoreInterned ==
    ASSUME NEW h, NEW a, NEW ks, HeapOk(h, a, ks), NEW t \in Text, Unused(h) # {},
           NEW p \in Places,
           NEW s, s = InternId(h, t),
           NEW f, f = Incref(Decref(Intern(h, t), a[p]), s)
    PROVE  /\ HeapOk(f, [a EXCEPT ![p] = s], ks)
           /\ SameTexts(h, f)
           /\ s \in String /\ f[s].live /\ f[s].text = t
<1> DEFINE g == Intern(h, t)
<1>1. /\ HeapOk(g, a, ks) /\ s \in String /\ g[s].live /\ g[s].interned
      /\ g[s].text = t /\ \A u \in String : h[u].live => g[u] = h[u]
  BY InternOk
<1> HIDE DEF g
<1>2. a[p] = s => g[s].refcount # 1
  BY <1>1, Held, Names
<1>3. f = Incref(Decref(g, a[p]), s)
  BY DEF g
<1> QED
  BY <1>1, <1>2, <1>3, Store

LEMMA StoreAccumulator ==
    ASSUME NEW h, NEW a, NEW ks, HeapOk(h, a, ks), NEW t \in Text, Unused(h) # {},
           NEW cap \in 1..(2 * MaxLen + 1),
           NEW p \in Places,
           NEW s, s = NewString(h),
           NEW f, f = Incref(Decref(Accumulator(h, t, cap), a[p]), s)
    PROVE  /\ HeapOk(f, [a EXCEPT ![p] = s], ks)
           /\ SameTexts(h, f)
           /\ s \in String /\ f[s].live /\ f[s].text = t
<1> DEFINE g == Accumulator(h, t, cap)
<1>1. /\ HeapOk(g, a, ks) /\ s \in String /\ g[s].live /\ ~h[s].live
      /\ g[s].text = t /\ \A u \in String : h[u].live => g[u] = h[u]
  BY AccumulatorOk
<1> HIDE DEF g
<1>2. a[p] # s
  BY <1>1, Held, Names
<1>3. f = Incref(Decref(g, a[p]), s)
  BY DEF g
<1> QED
  BY <1>1, <1>2, <1>3, Store

---------------------------------------------------------------------------
(* The other heap steps: a binding takes over a register's reference, a    *)
(* header is rewritten in place, the sweep.                                *)

LEMMA MoveOk ==
    ASSUME NEW h, NEW a, NEW ks, HeapOk(h, a, ks), NEW p \in Places,
           NEW q \in Places, p # q, a[q] # Undef
    PROVE  /\ HeapOk(Decref(h, a[p]), [a EXCEPT ![p] = a[q], ![q] = Undef], ks)
           /\ SameTexts(h, Decref(h, a[p]))
<1> DEFINE s == a[q]
           i == Incref(h, s)
           d == Decref(i, a[p])
           b == [a EXCEPT ![p] = s]
<1>1. h \in [String -> Header \cup {Free}] /\ a[p] \in String \cup {Undef}
      /\ a \in [Places -> String \cup {Undef}]
  BY DEF HeapOk
<1>2. s \in String /\ h[s].live /\ h[s] \in Header /\ h[s].refcount \in Nat
      /\ h[s].refcount >= 1
  BY Held, LiveHeader
<1>3. HeapOk(d, b, ks)
  BY CopyOk
<1>4. b[q] = s /\ [b EXCEPT ![q] = Undef] = [a EXCEPT ![p] = a[q], ![q] = Undef]
  BY <1>1
<1>5. HeapOk(Decref(d, s), [b EXCEPT ![q] = Undef], ks)
  <2> HIDE DEF d, b
  <2>1. HeapOk(Decref(d, b[q]), [b EXCEPT ![q] = Undef], ks)
    BY <1>3, Release
  <2> QED
    BY <1>4, <2>1
<1>6. Decref(d, s) = Decref(h, a[p])
  <2>1. /\ i \in [String -> Header \cup {Free}]
        /\ i[s] = Recount(h[s], h[s].refcount + 1)
        /\ \A u \in String : u # s => i[u] = h[u]
    BY <1>1, <1>2, IncrefAt
  <2>2. i[s] \in Header /\ i[s].refcount = h[s].refcount + 1
        /\ Recount(i[s], h[s].refcount) = h[s]
    BY <1>2, <2>1, Recounted
  <2>3. i[s].refcount >= 1 /\ i[s].refcount # 1 /\ i[s].refcount - 1 = h[s].refcount
    BY <1>2, <2>2
  <2>4. /\ Decref(i, s) \in [String -> Header \cup {Free}]
        /\ Decref(i, s)[s] = h[s]
        /\ \A u \in String : u # s => Decref(i, s)[u] = i[u]
    BY <1>2, <2>1, <2>2, <2>3, DecrefAt
  <2>5. Decref(i, s) = h
    BY <1>1, <2>1, <2>4
  <2> HIDE DEF i
  <2>6. CASE a[p] = Undef
    BY <2>5, <2>6 DEF Decref
  <2>7. CASE a[p] = s
    BY <2>5, <2>7
  <2>8. CASE a[p] # Undef /\ a[p] # s
    <3> DEFINE o == a[p]
    <3>1. o \in String /\ h[o] \in Header /\ h[o].refcount >= 1
      BY <2>8, Held
    <3>2. i[o] = h[o]
      BY <2>1, <2>8, <3>1
    <3>3. /\ Decref(h, o) \in [String -> Header \cup {Free}]
          /\ Decref(h, o)[o] = IF h[o].refcount = 1 THEN Free
                               ELSE Recount(h[o], h[o].refcount - 1)
          /\ \A u \in String : u # o => Decref(h, o)[u] = h[u]
      BY <1>1, <3>1, DecrefAt
    <3>4. /\ Decref(i, o) \in [String -> Header \cup {Free}]
          /\ Decref(i, o)[o] = IF h[o].refcount = 1 THEN Free
                               ELSE Recount(h[o], h[o].refcount - 1)
          /\ \A u \in String : u # o => Decref(i, o)[u] = i[u]
      BY <2>1, <3>1, <3>2, DecrefAt
    <3>5. d[s] = i[s] /\ d \in [String -> Header \cup {Free}]
      BY <1>2, <2>8, <3>4
    <3> HIDE DEF d
    <3>6. /\ Decref(d, s) \in [String -> Header \cup {Free}]
          /\ Decref(d, s)[s] = h[s]
          /\ \A u \in String : u # s => Decref(d, s)[u] = d[u]
      BY <1>2, <2>2, <2>3, <3>5, DecrefAt
    <3>7. ASSUME NEW u \in String PROVE Decref(d, s)[u] = Decref(h, o)[u]
      <4>1. CASE u = s
        BY <2>8, <3>3, <3>6, <4>1
      <4>2. CASE u = o
        BY <2>8, <3>3, <3>4, <3>6, <4>2 DEF d
      <4>3. CASE u # s /\ u # o
        BY <2>1, <3>3, <3>4, <3>6, <4>3 DEF d
      <4> QED
        BY <4>1, <4>2, <4>3
    <3> QED
      BY <3>3, <3>6, <3>7
  <2> QED
    BY <2>6, <2>7, <2>8
<1>7. SameTexts(h, Decref(h, a[p]))
  BY Release
<1> QED
  BY <1>4, <1>5, <1>6, <1>7

LEMMA Rewrite ==
    ASSUME NEW h, NEW a, NEW ks, HeapOk(h, a, ks), NEW s \in String, h[s].live,
           NEW g \in [String -> Header \cup {Free}], g[s].live,
           \A u \in String : u # s => g[u] = h[u],
           h[s].interned => g[s].interned,
           g[s].refcount = IF g[s].interned /\ ~h[s].interned
                           THEN h[s].refcount + 1 ELSE h[s].refcount,
           g[s].hash \in {Deferred, g[s].text},
           g[s].interned =>
             /\ g[s].hash = g[s].text
             /\ \A u \in String : h[u].live /\ h[u].interned /\ h[u].text = g[s].text => u = s
    PROVE  HeapOk(g, a, ks)
<1>1. Canonical(g)
  <2>1. Canonical(h)
    BY DEF HeapOk
  <2> QED
    BY <2>1 DEF Canonical
<1>2. KeysHeld(g, ks)
  BY DEF HeapOk, KeysHeld
<1>3. ASSUME NEW u \in String PROVE CountedString(g, a, u)
  <2>1. CountedString(h, a, u)
    BY DEF HeapOk, Counted
  <2>2. CASE u = s
    <3>1. IsFiniteSet(HoldersIn(a, s)) /\ h[s].refcount = Cardinality(HoldersIn(a, s)) + TableRef(h, s)
      BY <2>1, <2>2 DEF CountedString
    <3>2. Cardinality(HoldersIn(a, s)) \in Nat
      BY <3>1, FS_CardinalityType
    <3>3. g[s].refcount = Cardinality(HoldersIn(a, s)) + TableRef(g, s)
      BY <3>1, <3>2 DEF TableRef
    <3> QED
      BY <2>2, <3>1, <3>3 DEF CountedString
  <2>3. CASE u # s
    BY <2>1, <2>3 DEF CountedString, TableRef
  <2> QED
    BY <2>2, <2>3
<1> QED
  BY <1>1, <1>2, <1>3 DEF HeapOk, Counted

LEMMA Sweep ==
    ASSUME NEW h, NEW a, NEW ks, HeapOk(h, a, ks),
           NEW g, g \in [String -> Header \cup {Free}],
           \A s \in String :
               \/ g[s] = h[s]
               \/ g[s] = Free /\ h[s].live /\ h[s].interned /\ h[s].refcount = 1 /\ s \notin ks
    PROVE  HeapOk(g, a, ks) /\ SameTexts(h, g)
<1>1. Canonical(g)
  <2>1. Canonical(h)
    BY DEF HeapOk
  <2>2. \A s \in String : g[s].live => g[s] = h[s]
    BY FreeHeader
  <2> QED
    BY <2>1, <2>2 DEF Canonical
<1>2. KeysHeld(g, ks)
  BY DEF HeapOk, KeysHeld
<1>3. ASSUME NEW u \in String PROVE CountedString(g, a, u)
  <2>1. CountedString(h, a, u)
    BY DEF HeapOk, Counted
  <2>2. CASE g[u] = h[u]
    BY <2>1, <2>2 DEF CountedString, TableRef
  <2>3. CASE g[u] = Free /\ h[u].live /\ h[u].interned /\ h[u].refcount = 1
    <3>1. IsFiniteSet(HoldersIn(a, u)) /\ h[u].refcount = Cardinality(HoldersIn(a, u)) + 1
      BY <2>1, <2>3 DEF CountedString, TableRef
    <3>2. Cardinality(HoldersIn(a, u)) = 0
      BY <2>3, <3>1, FS_CardinalityType
    <3>3. HoldersIn(a, u) = {}
      BY <3>1, <3>2, FS_EmptySet
    <3> QED
      BY <2>3, <3>1, <3>3, FreeHeader DEF CountedString
  <2> QED
    BY <2>2, <2>3
<1>4. SameTexts(h, g)
  BY FreeHeader DEF SameTexts
<1> QED
  BY <1>1, <1>2, <1>3, <1>4 DEF HeapOk, Counted

---------------------------------------------------------------------------
(* What the places read.                                                   *)

LEMMA ReadsKept ==
    ASSUME NEW h, NEW a, NEW ks, HeapOk(h, a, ks),
           NEW g, NEW b, NEW ks2, HeapOk(g, b, ks2), SameTexts(h, g),
           NEW p \in Places, NEW q \in Places, b[p] = a[q]
    PROVE  Reads(g, b, p) = Reads(h, a, q)
<1>1. CASE a[q] = Undef
  BY <1>1 DEF Reads
<1>2. CASE a[q] # Undef
  <2>1. a[q] \in String /\ h[a[q]].live
    BY <1>2, Held
  <2>2. g[b[p]].live
    BY <1>2, Held
  <2> QED
    BY <1>2, <2>1, <2>2 DEF SameTexts, Reads
<1> QED
  BY <1>1, <1>2

LEMMA MeantStep ==
    ASSUME NEW h, NEW a, NEW ks, HeapOk(h, a, ks),
           NEW g, NEW b, NEW ks2, HeapOk(g, b, ks2), SameTexts(h, g),
           NEW j, Meant(h, a, j), NEW k \in [Places -> Text \cup {<<>>}],
           \A p \in Places :
              \/ \E q \in Places : b[p] = a[q] /\ k[p] = j[q]
              \/ b[p] = Undef /\ k[p] = <<>>
              \/ Len(k[p]) <= Len(Reads(g, b, p))
    PROVE  Meant(g, b, k)
<1> SUFFICES ASSUME NEW p \in Places
             PROVE  Len(k[p]) <= Len(Reads(g, b, p))
  BY DEF Meant
<1>1. CASE \E q \in Places : b[p] = a[q] /\ k[p] = j[q]
  <2>1. PICK q \in Places : b[p] = a[q] /\ k[p] = j[q]
    BY <1>1
  <2>2. Reads(g, b, p) = Reads(h, a, q)
    BY <2>1, ReadsKept
  <2> QED
    BY <2>1, <2>2 DEF Meant
<1>2. CASE b[p] = Undef /\ k[p] = <<>>
  <2>1. Reads(g, b, p) = <<>> /\ Len(<<>>) <= Len(<<>>)
    BY <1>2 DEF Reads
  <2> QED
    BY <1>2, <2>1
<1>3. CASE Len(k[p]) <= Len(Reads(g, b, p))
  BY <1>3
<1> QED
  BY <1>1, <1>2, <1>3

LEMMA StatementFacts ==
    \A m \in Shapes :
        /\ \/ m.kind = "variable" /\ m.src \in Bindings /\ m.dst \in Bindings
           \/ m.kind = "local" /\ m.src \in Locals /\ m.dst \in Locals /\ m.used
        /\ m.src # m.dst => AssignOther
        /\ m.calls => RhsCalls
BY DEF Shapes, Statement

LEMMA RegisterFacts ==
    ASSUME stmt \in Shapes
    PROVE  /\ Register \in Places /\ Register # Rhs
           /\ Register \notin Bindings \cup Slots
BY StatementFacts, Names DEF Register

---------------------------------------------------------------------------
(* Typing and control of the steps.                                        *)

\* What a step establishes when it changes no text.
Kept ==
    /\ HeapOk(str', at', keys')
    /\ SameTexts(str, str')
    /\ Control'
    /\ Meant(str', at', js')

\* A script statement does not touch the register of the one it runs inside.
LEMMA RegisterStays ==
    ASSUME IInv, ScriptRuns, stmt' = stmt, pc' = pc,
           NEW p \in Places, p \in Reachable \/ pc = "idle",
           \A q \in Places : q # p => at'[q] = at[q]
    PROVE  Control'
<1>1. CASE pc = "idle"
  BY <1>1 DEF Control, IInv
<1>2. CASE pc # "idle"
  <2>1. pc = "rhs" /\ stmt \in Shapes /\ at[Register] # Undef
    BY <1>2 DEF ScriptRuns, Control, IInv
  <2>2. p # Register
    BY <1>2, <2>1, RegisterFacts DEF Reachable
  <2>3. at'[Register] = at[Register]
    BY <2>1, <2>2, RegisterFacts
  <2>4. Register' = Register
    BY DEF Register
  <2> QED
    BY <2>1, <2>3, <2>4 DEF Control
<1> QED
  BY <1>1, <1>2

\* Loading the right operand does not touch the left one.
LEMMA OperandControl ==
    ASSUME IInv, pc = "rhs", pc' = "add", stmt' = stmt, at'[Rhs] # Undef,
           \A q \in Places : q # Rhs => at'[q] = at[q]
    PROVE  Control'
<1>1. stmt \in Shapes /\ at[Register] # Undef
  BY DEF Control, IInv
<1>2. at'[Register] = at[Register] /\ Register' = Register
  BY <1>1, RegisterFacts DEF Register
<1> QED
  BY <1>1, <1>2 DEF Control

\* `p = "chunk"`, and a literal right operand.
StoreLiteral(p, c) ==
    /\ Unused(str) # {}
    /\ SetReg(Intern(str, <<c>>), p, InternId(str, <<c>>))
    /\ js' = [js EXCEPT ![p] = <<c>>]

LEMMA LiteralKept ==
    ASSUME IInv, NEW p \in Places, NEW c \in Chunks, StoreLiteral(p, c), keys' = keys
    PROVE  /\ HeapOk(str', at', keys')
           /\ SameTexts(str, str')
           /\ Meant(str', at', js')
           /\ at'[p] # Undef /\ js'[p] = <<c>> /\ Reads(str', at', p) = <<c>>
           /\ \A q \in Places : q # p => at'[q] = at[q] /\ js'[q] = js[q]
<1> DEFINE s == InternId(str, <<c>>)
           f == Incref(Decref(Intern(str, <<c>>), at[p]), s)
<1>1. <<c>> \in Text /\ Len(<<c>>) = 1
  BY ChunkText
<1>2. /\ HeapOk(f, [at EXCEPT ![p] = s], keys) /\ SameTexts(str, f)
      /\ s \in String /\ f[s].live /\ f[s].text = <<c>>
  BY <1>1, StoreInterned DEF IInv, StoreLiteral
<1>3. str' = f /\ at' = [at EXCEPT ![p] = s] /\ js' = [js EXCEPT ![p] = <<c>>]
  BY DEF StoreLiteral, SetReg
<1> HIDE DEF s, f
<1>4. HeapOk(str', at', keys') /\ SameTexts(str, str')
  BY <1>2, <1>3
<1>5. at \in [Places -> String \cup {Undef}] /\ js \in [Places -> Text \cup {<<>>}]
  BY DEF IInv, HeapOk, Meant
<1>6. at'[p] = s /\ js'[p] = <<c>> /\ \A q \in Places : q # p => at'[q] = at[q] /\ js'[q] = js[q]
  BY <1>3, <1>5
<1>7. Reads(str', at', p) = <<c>>
  BY <1>2, <1>3, <1>6, Names DEF Reads
<1>8. js' \in [Places -> Text \cup {<<>>}]
  BY <1>1, <1>3, <1>5
<1>9. Meant(str', at', js')
  <2>1. Len(js'[p]) <= Len(Reads(str', at', p))
    BY <1>1, <1>6, <1>7
  <2>2. \A q \in Places :
            \/ \E r \in Places : at'[q] = at[r] /\ js'[q] = js[r]
            \/ at'[q] = Undef /\ js'[q] = <<>>
            \/ Len(js'[q]) <= Len(Reads(str', at', q))
    BY <1>6, <2>1
  <2> QED
    BY <1>4, <1>8, <2>2, MeantStep DEF IInv
<1> QED
  BY <1>2, <1>4, <1>6, <1>7, <1>9, Names

LEMMA AssignLiteralKept ==
    ASSUME IInv, NEW p \in Places, NEW c \in Chunks, AssignLiteral(p, c)
    PROVE  Kept
<1>1. /\ StoreLiteral(p, c) /\ keys' = keys /\ stmt' = stmt /\ pc' = pc
      /\ ScriptRuns /\ p \in Reachable
  BY DEF AssignLiteral, StoreLiteral
<1>2. /\ HeapOk(str', at', keys') /\ SameTexts(str, str') /\ Meant(str', at', js')
      /\ \A q \in Places : q # p => at'[q] = at[q] /\ js'[q] = js[q]
  BY <1>1, LiteralKept
<1>3. Control'
  BY <1>1, <1>2, RegisterStays
<1> QED
  BY <1>2, <1>3 DEF Kept

\* A copy: Assign, the loads of both operands, CopyResult.
LEMMA CopyRefKept ==
    ASSUME IInv, NEW p \in Places, NEW q \in Places, at[q] # Undef, CopyRef(p, q),
           keys' = keys
    PROVE  /\ HeapOk(str', at', keys')
           /\ SameTexts(str, str')
           /\ Meant(str', at', js')
           /\ at'[p] = at[q] /\ js'[p] = js[q]
           /\ \A r \in Places : r # p => at'[r] = at[r] /\ js'[r] = js[r]
<1>1. /\ str' = Decref(Incref(str, at[q]), at[p]) /\ at' = [at EXCEPT ![p] = at[q]]
      /\ js' = [js EXCEPT ![p] = js[q]]
  BY DEF CopyRef
<1>2. HeapOk(str', at', keys') /\ SameTexts(str, str')
  BY <1>1, CopyOk DEF IInv
<1>3. at \in [Places -> String \cup {Undef}] /\ js \in [Places -> Text \cup {<<>>}]
  BY DEF IInv, HeapOk, Meant
<1>4. /\ at'[p] = at[q] /\ js'[p] = js[q]
      /\ \A r \in Places : r # p => at'[r] = at[r] /\ js'[r] = js[r]
      /\ js' \in [Places -> Text \cup {<<>>}]
  BY <1>1, <1>3
<1>5. Meant(str', at', js')
  BY <1>2, <1>4, MeantStep DEF IInv
<1> QED
  BY <1>2, <1>4, <1>5

LEMMA AssignKept ==
    ASSUME IInv, NEW p \in Places, NEW q \in Places, Assign(p, q)
    PROVE  Kept
<1>1. /\ at[q] # Undef /\ CopyRef(p, q) /\ keys' = keys /\ stmt' = stmt /\ pc' = pc
      /\ ScriptRuns /\ p \in Reachable
  BY DEF Assign
<1>2. /\ HeapOk(str', at', keys') /\ SameTexts(str, str') /\ Meant(str', at', js')
      /\ \A r \in Places : r # p => at'[r] = at[r] /\ js'[r] = js[r]
  BY <1>1, CopyRefKept
<1>3. Control'
  BY <1>1, <1>2, RegisterStays
<1> QED
  BY <1>2, <1>3 DEF Kept

LEMMA OperandLiteralKept ==
    ASSUME IInv, NEW c \in Chunks, OperandLiteral(c)
    PROVE  Kept
<1>1. /\ pc = "rhs" /\ pc' = "add" /\ keys' = keys /\ stmt' = stmt
      /\ StoreLiteral(Rhs, c)
  BY DEF OperandLiteral, StoreLiteral
<1>2. /\ HeapOk(str', at', keys') /\ SameTexts(str, str') /\ Meant(str', at', js')
      /\ at'[Rhs] # Undef
      /\ \A r \in Places : r # Rhs => at'[r] = at[r] /\ js'[r] = js[r]
  BY <1>1, LiteralKept, Names
<1>3. Control'
  BY <1>1, <1>2, OperandControl
<1> QED
  BY <1>2, <1>3 DEF Kept

LEMMA OperandVariableKept ==
    ASSUME IInv, NEW p \in Bindings \cup Locals, OperandVariable(p)
    PROVE  Kept
<1>1. /\ pc = "rhs" /\ pc' = "add" /\ keys' = keys /\ stmt' = stmt
      /\ CopyRef(Rhs, p) /\ at[p] # Undef /\ p \in Places
  BY Names DEF OperandVariable
<1>2. /\ HeapOk(str', at', keys') /\ SameTexts(str, str') /\ Meant(str', at', js')
      /\ at'[Rhs] # Undef
      /\ \A r \in Places : r # Rhs => at'[r] = at[r] /\ js'[r] = js[r]
  BY <1>1, CopyRefKept, Names
<1>3. Control'
  BY <1>1, <1>2, OperandControl
<1> QED
  BY <1>2, <1>3 DEF Kept

LEMMA BeginKept ==
    ASSUME IInv, NEW m \in Shapes, Begin(m)
    PROVE  Kept
<1>1. /\ pc = "idle" /\ at[m.src] # Undef /\ stmt' = m /\ pc' = "rhs" /\ keys' = keys
      /\ m.src \in Places
  BY StatementFacts, Names DEF Begin
<1>2. CASE m.kind = "local"
  <2>1. str' = str /\ at' = at /\ js' = js
    BY <1>2 DEF Begin
  <2>2. Register' = m.src
    BY <1>1, <1>2 DEF Register
  <2>3. Control'
    BY <1>1, <2>1, <2>2 DEF Control
  <2>4. SameTexts(str, str')
    BY <2>1 DEF SameTexts
  <2> QED
    BY <1>1, <2>1, <2>3, <2>4 DEF Kept, IInv
<1>3. CASE m.kind # "local"
  <2>1. CopyRef(Acc, m.src)
    BY <1>3 DEF Begin
  <2>2. /\ HeapOk(str', at', keys') /\ SameTexts(str, str') /\ Meant(str', at', js')
        /\ at'[Acc] = at[m.src]
    BY <1>1, <2>1, CopyRefKept, Names
  <2>3. Register' = Acc
    BY <1>1, <1>3 DEF Register
  <2>4. Control'
    BY <1>1, <2>2, <2>3 DEF Control
  <2> QED
    BY <2>2, <2>4 DEF Kept
<1> QED
  BY <1>2, <1>3

LEMMA CopyResultKept ==
    ASSUME IInv, NEW p \in Slots, CopyResult(p)
    PROVE  Kept
<1>1. /\ pc = "copy" /\ pc' = "put" /\ CopyRef(p, Acc) /\ keys' = keys /\ stmt' = stmt
      /\ p \in Places /\ p # Acc
  BY Names DEF CopyResult
<1>2. stmt \in Shapes /\ stmt.kind = "variable" /\ Register = Acc /\ at[Acc] # Undef
  BY <1>1 DEF IInv, Control, Register
<1>3. /\ HeapOk(str', at', keys') /\ SameTexts(str, str') /\ Meant(str', at', js')
      /\ \A r \in Places : r # p => at'[r] = at[r]
  BY <1>1, <1>2, CopyRefKept, Names
<1>4. at'[Acc] # Undef /\ Register' = Acc
  BY <1>1, <1>2, <1>3, Names DEF Register
<1>5. Control'
  BY <1>1, <1>2, <1>4 DEF Control
<1> QED
  BY <1>3, <1>5 DEF Kept

LEMMA ClearKept ==
    ASSUME IInv, NEW p \in Places, Clear(p)
    PROVE  Kept
<1>1. /\ str' = Decref(str, at[p]) /\ at' = [at EXCEPT ![p] = Undef]
      /\ js' = [js EXCEPT ![p] = <<>>] /\ keys' = keys /\ stmt' = stmt /\ pc' = pc
      /\ ScriptRuns /\ (pc # "idle" => p \in Slots)
  BY DEF Clear
<1>2. HeapOk(str', at', keys') /\ SameTexts(str, str')
  BY <1>1, Release DEF IInv
<1>3. at \in [Places -> String \cup {Undef}] /\ js \in [Places -> Text \cup {<<>>}]
  BY DEF IInv, HeapOk, Meant
<1>4. /\ at'[p] = Undef /\ js'[p] = <<>>
      /\ \A r \in Places : r # p => at'[r] = at[r] /\ js'[r] = js[r]
      /\ js' \in [Places -> Text \cup {<<>>}]
  BY <1>1, <1>3
<1>5. Meant(str', at', js')
  BY <1>2, <1>4, MeantStep DEF IInv
<1>6. p \in Reachable \/ pc = "idle"
  BY <1>1 DEF Reachable
<1>7. Control'
  BY <1>1, <1>4, <1>6, RegisterStays
<1> QED
  BY <1>2, <1>5, <1>7 DEF Kept

LEMMA UseAsKeyKept ==
    ASSUME IInv, NEW p \in Places, UseAsKey(p)
    PROVE  Kept
<1> DEFINE s == at[p]
           known == Lookup(str, TextOf(s))
           key == IF str[s].interned \/ known = {} THEN s
                  ELSE CHOOSE k \in known : TRUE
           hash == IF str[s].hash = Deferred THEN TextOf(s) ELSE str[s].hash
<1>1. /\ ScriptRuns /\ p \in Reachable /\ s # Undef
      /\ keys' = keys \cup {key}
      /\ str' = IF str[s].interned THEN str
                ELSE IF known # {} THEN [str EXCEPT ![s].hash = hash]
                ELSE [str EXCEPT ![s].hash = hash, ![s].interned = TRUE,
                                 ![s].refcount = @ + 1]
      /\ at' = at /\ stmt' = stmt /\ pc' = pc /\ js' = js
  BY DEF UseAsKey
<1>2. s \in String /\ str[s].live /\ str[s] \in Header
  BY <1>1, Held DEF IInv
<1>3. str \in [String -> Header \cup {Free}] /\ Canonical(str)
  BY DEF IInv, HeapOk
<1>4. hash = str[s].text
  BY <1>2, <1>3 DEF Canonical, TextOf
<1>5. HeapOk(str', at, keys) /\ SameTexts(str, str') /\ str'[key].live /\ str'[key].interned
      /\ key \in String
  <2>1. CASE str[s].interned
    BY <1>1, <1>2, <2>1 DEF IInv, SameTexts
  <2>2. CASE ~str[s].interned /\ known # {}
    <3>1. key \in known /\ key \in String /\ str[key].live /\ str[key].interned /\ key # s
      BY <2>2 DEF Lookup
    <3>2. str' = [str EXCEPT ![s] = [str[s] EXCEPT !.hash = hash]]
      BY <1>1, <2>2
    <3> DEFINE x == [str[s] EXCEPT !.hash = hash]
    <3>3. /\ x \in Header /\ x.live = TRUE /\ x.text = str[s].text /\ x.hash = hash
          /\ x.interned = str[s].interned /\ x.refcount = str[s].refcount
      BY <1>2, <1>4 DEF Header
    <3> HIDE DEF x, key, known, hash
    <3>4. /\ str' \in [String -> Header \cup {Free}] /\ str'[s] = x
          /\ \A u \in String : u # s => str'[u] = str[u]
      BY <1>2, <1>3, <3>2, <3>3 DEF x
    <3>5. HeapOk(str', at, keys)
      BY <1>2, <1>4, <2>2, <3>3, <3>4, Rewrite DEF IInv
    <3>6. SameTexts(str, str')
      BY <2>2, <3>3, <3>4 DEF SameTexts
    <3> QED
      BY <3>1, <3>4, <3>5, <3>6
  <2>3. CASE ~str[s].interned /\ known = {}
    <3>1. key = s
      BY <2>3
    <3>2. str' = [str EXCEPT ![s] = [str[s] EXCEPT !.hash = hash, !.interned = TRUE,
                                                   !.refcount = str[s].refcount + 1]]
      BY <1>1, <2>3
    <3> DEFINE x == [str[s] EXCEPT !.hash = hash, !.interned = TRUE,
                                   !.refcount = str[s].refcount + 1]
    <3>3. /\ x \in Header /\ x.live = TRUE /\ x.text = str[s].text /\ x.hash = hash
          /\ x.interned = TRUE /\ x.refcount = str[s].refcount + 1
      <4>1. str[s].refcount + 1 \in Nat /\ hash \in Text
        BY <1>2, <1>4, LiveHeader
      <4> QED
        BY <1>2, <4>1 DEF Header
    <3>4. \A u \in String : ~(str[u].live /\ str[u].interned /\ str[u].text = str[s].text)
      BY <1>3, <2>3 DEF Lookup, Canonical, TextOf
    <3> HIDE DEF x, key, known, hash
    <3>5. /\ str' \in [String -> Header \cup {Free}] /\ str'[s] = x
          /\ \A u \in String : u # s => str'[u] = str[u]
      BY <1>2, <1>3, <3>2, <3>3 DEF x
    <3>6. HeapOk(str', at, keys)
      BY <1>2, <1>4, <2>3, <3>3, <3>4, <3>5, Rewrite DEF IInv
    <3>7. SameTexts(str, str')
      BY <2>3, <3>3, <3>5 DEF SameTexts
    <3> QED
      BY <1>2, <3>1, <3>3, <3>5, <3>6, <3>7
  <2> QED
    BY <2>1, <2>2, <2>3
<1> HIDE DEF key, known, hash
<1>6. HeapOk(str', at', keys')
  BY <1>1, <1>5 DEF HeapOk, KeysHeld
<1>7. Meant(str', at', js')
  <2>1. at' = at /\ js' = js /\ js \in [Places -> Text \cup {<<>>}]
    BY <1>1 DEF IInv, Meant
  <2>2. \A p_1 \in Places : \E q \in Places : at'[p_1] = at[q] /\ js'[p_1] = js[q]
    BY <2>1
  <2>3. SameTexts(str, str')
    BY <1>5
  <2> QED
    BY <1>6, <2>1, <2>2, <2>3, MeantStep DEF IInv
<1>8. Control'
  BY <1>1, RegisterStays
<1> QED
  BY <1>5, <1>6, <1>7, <1>8 DEF Kept

LEMMA DropKeyKept ==
    ASSUME IInv, NEW k \in keys, DropKey(k)
    PROVE  Kept
<1>1. /\ keys' = keys \ {k} /\ str' = str /\ at' = at /\ stmt' = stmt /\ pc' = pc /\ js' = js
  BY DEF DropKey
<1>2. HeapOk(str', at', keys')
  BY <1>1 DEF IInv, HeapOk, KeysHeld
<1>3. SameTexts(str, str') /\ Meant(str', at', js')
  BY <1>1 DEF IInv, SameTexts
<1>4. Control'
  BY <1>1 DEF IInv, Control, Register
<1> QED
  BY <1>2, <1>3, <1>4 DEF Kept

LEMMA SweepStringsKept ==
    ASSUME IInv, SweepStrings
    PROVE  Kept
<1>1. /\ str' = [s \in String |-> IF Swept(s) THEN Free ELSE str[s]]
      /\ keys' = keys /\ at' = at /\ stmt' = stmt /\ pc' = pc /\ js' = js
  BY DEF SweepStrings
<1>2. str \in [String -> Header \cup {Free}]
  BY DEF IInv, HeapOk
<1>3. str' \in [String -> Header \cup {Free}]
  BY <1>1, <1>2
<1>4. \A s \in String :
        \/ str'[s] = str[s]
        \/ /\ str'[s] = Free /\ str[s].live /\ str[s].interned
           /\ str[s].refcount = 1 /\ s \notin keys
  BY <1>1 DEF Swept
<1>5. HeapOk(str', at', keys') /\ SameTexts(str, str')
  BY <1>1, <1>3, <1>4, Sweep DEF IInv
<1>6. Meant(str', at', js')
  BY <1>1, <1>5, MeantStep DEF IInv, Meant
<1>7. Control'
  BY <1>1 DEF IInv, Control, Register
<1> QED
  BY <1>5, <1>6, <1>7 DEF Kept

---------------------------------------------------------------------------
(* The addition.                                                           *)

LEMMA ReadsText ==
    ASSUME NEW h, NEW a, NEW ks, HeapOk(h, a, ks), NEW p \in Places, a[p] # Undef
    PROVE  /\ Reads(h, a, p) = h[a[p]].text /\ Reads(h, a, p) \in Text
           /\ Reads(h, a, p) \in Seq(Chunks)
<1>1. h[a[p]] \in Header
  BY Held
<1>2. h[a[p]].text \in Text
  BY <1>1, LiveHeader
<1> QED
  BY <1>2, TextIsSeq DEF Reads

LEMMA AddFacts ==
    ASSUME IInv, pc = "add", Len(Concatenated) <= MaxLen
    PROVE  /\ stmt \in Shapes /\ Register \in Places /\ Rhs \in Places /\ Register # Rhs
           /\ at[Register] \in String /\ at[Register] # Undef /\ at[Rhs] # Undef
           /\ str[at[Register]].live /\ str[at[Register]] \in Header
           /\ Concatenated = Reads(str, at, Register) \o Reads(str, at, Rhs)
           /\ Concatenated \in Text
           /\ Len(TextOf(at[Register])) <= Len(Concatenated)
           /\ js[Register] \o js[Rhs] \in Text \cup {<<>>}
           /\ Len(js[Register] \o js[Rhs]) <= Len(Concatenated)
<1>1. /\ stmt \in Shapes /\ Register \in Places /\ Rhs \in Places /\ Register # Rhs
      /\ at[Register] # Undef /\ at[Rhs] # Undef
  BY RegisterFacts, Names DEF IInv, Control
<1>2. /\ at[Register] \in String /\ str[at[Register]].live /\ str[at[Register]] \in Header
  BY <1>1, Held DEF IInv
<1> DEFINE t == Reads(str, at, Register)
           u == Reads(str, at, Rhs)
           j == js[Register]
           k == js[Rhs]
<1>3. /\ t = TextOf(at[Register]) /\ u = TextOf(at[Rhs])
      /\ t \in Text /\ u \in Text /\ t \in Seq(Chunks) /\ u \in Seq(Chunks)
  BY <1>1, ReadsText DEF IInv, TextOf
<1>4. /\ j \in Text \cup {<<>>} /\ k \in Text \cup {<<>>}
      /\ Len(j) <= Len(t) /\ Len(k) <= Len(u)
  BY <1>1 DEF IInv, Meant
<1>5. Concatenated = t \o u
  BY <1>3 DEF Concatenated
<1>6. j \in Seq(Chunks) /\ k \in Seq(Chunks)
  <2>1. <<>> \in Seq(Chunks)
    OBVIOUS
  <2>2. (j \in Text => j \in Seq(Chunks)) /\ (k \in Text => k \in Seq(Chunks))
    BY TextIsSeq
  <2> QED
    BY <1>4, <2>1, <2>2
<1> HIDE DEF t, u, j, k
<1>7. /\ Len(t) \in Nat /\ Len(u) \in Nat /\ Len(j) \in Nat /\ Len(k) \in Nat
      /\ Len(t \o u) = Len(t) + Len(u)
  BY <1>3, <1>6
<1>8. Len(t) + Len(u) <= MaxLen /\ Len(j) + Len(k) <= MaxLen
  BY <1>4, <1>5, <1>7, BoundsAssumption
<1>9. t \o u \in Text
  BY <1>3, <1>8, Joined
<1>10. j \o k \in Text \cup {<<>>} /\ Len(j \o k) = Len(j) + Len(k)
  BY <1>4, <1>8, Joined
<1>11. Len(t) <= Len(t \o u) /\ Len(j \o k) <= Len(t \o u)
  BY <1>4, <1>7, <1>10
<1> QED
  BY <1>1, <1>2, <1>3, <1>5, <1>9, <1>10, <1>11 DEF t, u, j, k

LEMMA AddControl ==
    ASSUME IInv, pc = "add", stmt \in Shapes, AfterAdd, at'[Register] # Undef
    PROVE  Control'
<1>1. /\ pc' = IF stmt.kind = "local" THEN "idle"
               ELSE IF stmt.used THEN "copy" ELSE "put"
      /\ stmt' = IF stmt.kind = "local" THEN NoStatement ELSE stmt
  BY DEF AfterAdd
<1>2. CASE stmt.kind = "local"
  <2>1. pc' = "idle" /\ stmt' = NoStatement
    BY <1>1, <1>2
  <2> QED
    BY <2>1 DEF Control
<1>3. CASE stmt.kind # "local"
  <2>1. stmt.kind = "variable" /\ stmt' = stmt /\ pc' \in {"copy", "put"}
    BY <1>1, <1>3, StatementFacts
  <2>2. Register' = Register
    BY <2>1 DEF Register
  <2> QED
    BY <2>1, <2>2 DEF Control
<1> QED
  BY <1>2, <1>3

\* The register gets a new string that holds the sum.
LEMMA AddedKept ==
    ASSUME IInv, pc = "add", Len(Concatenated) <= MaxLen, AfterAdd,
           HeapOk(str', at', keys'), SameTexts(str, str'),
           NEW s \in String, at'[Register] = s, str'[s].text = Concatenated,
           \A q \in Places : q # Register => at'[q] = at[q]
    PROVE  Kept /\ Reads(str', at', Register) = Concatenated
<1>1. /\ stmt \in Shapes /\ Register \in Places
      /\ js[Register] \o js[Rhs] \in Text \cup {<<>>}
      /\ Len(js[Register] \o js[Rhs]) <= Len(Concatenated)
  BY AddFacts
<1>2. at \in [Places -> String \cup {Undef}] /\ js \in [Places -> Text \cup {<<>>}]
  BY DEF IInv, HeapOk, Meant
<1>3. js' = [js EXCEPT ![Register] = js[Register] \o js[Rhs]]
  BY DEF AfterAdd
<1>4. /\ at'[Register] = s /\ js'[Register] = js[Register] \o js[Rhs]
      /\ \A q \in Places : q # Register => at'[q] = at[q] /\ js'[q] = js[q]
      /\ js' \in [Places -> Text \cup {<<>>}]
  BY <1>1, <1>2, <1>3
<1>5. Reads(str', at', Register) = Concatenated
  BY <1>4, Names DEF Reads
<1>6. \A q \in Places :
        \/ \E r \in Places : at'[q] = at[r] /\ js'[q] = js[r]
        \/ at'[q] = Undef /\ js'[q] = <<>>
        \/ Len(js'[q]) <= Len(Reads(str', at', q))
  <2>1. Len(js'[Register]) <= Len(Reads(str', at', Register))
    BY <1>1, <1>4, <1>5
  <2> QED
    BY <1>4, <2>1
<1>7. Meant(str', at', js')
  <2>1. HeapOk(str, at, keys) /\ Meant(str, at, js) /\ js' \in [Places -> Text \cup {<<>>}]
    BY <1>4 DEF IInv
  <2> QED
    BY <1>6, <2>1, MeantStep
<1>8. Control'
  BY <1>1, <1>4, AddControl, Names
<1> QED
  BY <1>5, <1>7, <1>8 DEF Kept

LEMMA AppendGrownKept ==
    ASSUME IInv, AppendGrown
    PROVE  /\ Kept /\ AfterAdd /\ pc = "add" /\ Len(Concatenated) <= MaxLen
           /\ Reads(str', at', Register) = Concatenated
           /\ \A q \in Places : q # Register => at'[q] = at[q]
<1> DEFINE r == at[Register]
           need == Len(Concatenated)
           twice == 2 * str[r].capacity
           cap == IF twice < need THEN need ELSE twice
           s == NewString(str)
           f == Incref(Decref(Accumulator(str, Concatenated, cap), at[Register]), s)
<1>1. /\ pc = "add" /\ need <= MaxLen /\ Unused(str) # {} /\ need > str[r].capacity
      /\ str' = f /\ at' = [at EXCEPT ![Register] = s] /\ AfterAdd /\ keys' = keys
  BY DEF AppendGrown, SetReg, AfterAdd
<1>2. Register \in Places /\ str[r] \in Header /\ Concatenated \in Text
  BY <1>1, AddFacts
<1>3. cap \in 1..(2 * MaxLen + 1)
  <2>1. str[r].capacity \in 1..(2 * MaxLen + 1) /\ need \in 1..MaxLen
    BY <1>2, LiveHeader, TextIsSeq
  <2> QED
    BY <1>1, <2>1, BoundsAssumption
<1> HIDE DEF cap
<1>4. /\ HeapOk(f, [at EXCEPT ![Register] = s], keys) /\ SameTexts(str, f)
      /\ s \in String /\ f[s].text = Concatenated
  <2>1. HeapOk(str, at, keys) /\ Unused(str) # {}
    BY <1>1 DEF IInv
  <2> QED
    BY <1>2, <1>3, <2>1, StoreAccumulator
<1> HIDE DEF f, s
<1>5. at'[Register] = s /\ \A q \in Places : q # Register => at'[q] = at[q]
  BY <1>1, <1>2 DEF IInv, HeapOk
<1>6. HeapOk(str', at', keys') /\ SameTexts(str, str') /\ str'[s].text = Concatenated
  BY <1>1, <1>4
<1> QED
  BY <1>1, <1>4, <1>5, <1>6, AddedKept

LEMMA ConcatCopyKept ==
    ASSUME IInv, ConcatCopy
    PROVE  /\ Kept /\ AfterAdd /\ pc = "add" /\ Len(Concatenated) <= MaxLen
           /\ Reads(str', at', Register) = Concatenated
           /\ \A q \in Places : q # Register => at'[q] = at[q]
<1>1. /\ pc = "add" /\ Len(Concatenated) <= MaxLen /\ Unused(str) # {}
      /\ AfterAdd /\ keys' = keys
  BY DEF ConcatCopy, AfterAdd
<1>2. Register \in Places /\ Concatenated \in Text
  BY <1>1, AddFacts
<1>3. CASE Len(Concatenated) >= AccumMin
  <2> DEFINE cap == 2 * Len(Concatenated)
             s == NewString(str)
             f == Incref(Decref(Accumulator(str, Concatenated, cap), at[Register]), s)
  <2>1. str' = f /\ at' = [at EXCEPT ![Register] = s]
    BY <1>3 DEF ConcatCopy, SetReg
  <2>2. cap \in 1..(2 * MaxLen + 1)
    <3>1. Len(Concatenated) \in 1..MaxLen
      BY <1>2, TextIsSeq
    <3> QED
      BY <3>1, BoundsAssumption
  <2> HIDE DEF cap
  <2>3. /\ HeapOk(f, [at EXCEPT ![Register] = s], keys) /\ SameTexts(str, f)
        /\ s \in String /\ f[s].text = Concatenated
    BY <1>1, <1>2, <2>2, StoreAccumulator DEF IInv
  <2> HIDE DEF f, s
  <2>4. at'[Register] = s /\ \A q \in Places : q # Register => at'[q] = at[q]
    BY <1>2, <2>1 DEF IInv, HeapOk
  <2>5. HeapOk(str', at', keys') /\ SameTexts(str, str') /\ str'[s].text = Concatenated
    BY <1>1, <2>1, <2>3
  <2> QED
    BY <1>1, <2>3, <2>4, <2>5, AddedKept
<1>4. CASE ~(Len(Concatenated) >= AccumMin)
  <2> DEFINE s == InternId(str, Concatenated)
             f == Incref(Decref(Intern(str, Concatenated), at[Register]), s)
  <2>1. str' = f /\ at' = [at EXCEPT ![Register] = s]
    BY <1>4 DEF ConcatCopy, SetReg
  <2>2. /\ HeapOk(f, [at EXCEPT ![Register] = s], keys) /\ SameTexts(str, f)
        /\ s \in String /\ f[s].text = Concatenated
    BY <1>1, <1>2, StoreInterned DEF IInv
  <2> HIDE DEF f, s
  <2>4. at'[Register] = s /\ \A q \in Places : q # Register => at'[q] = at[q]
    BY <1>2, <2>1 DEF IInv, HeapOk
  <2>5. HeapOk(str', at', keys') /\ SameTexts(str, str') /\ str'[s].text = Concatenated
    BY <1>1, <2>1, <2>2
  <2> QED
    BY <1>1, <2>2, <2>4, <2>5, AddedKept
<1> QED
  BY <1>3, <1>4

\* In place: every place that holds the string reads the longer text.
LEMMA AppendInPlaceKept ==
    ASSUME IInv, AppendInPlace
    PROVE  /\ HeapOk(str', at', keys') /\ Control' /\ Meant(str', at', js')
           /\ ~str[at[Register]].interned /\ at' = at /\ keys' = keys
           /\ \A q \in Places : Reads(str', at', q) =
                 IF at[q] = at[Register] THEN Concatenated ELSE Reads(str, at, q)
           /\ \A u \in String : u # at[Register] => str'[u] = str[u]
<1> DEFINE s == at[Register]
           x == [str[s] EXCEPT !.text = Concatenated, !.hash = Deferred]
<1>1. /\ pc = "add" /\ Len(Concatenated) <= MaxLen /\ Unshared(s)
      /\ str' = [str EXCEPT ![s].text = Concatenated, ![s].hash = Deferred]
      /\ AfterAdd /\ at' = at /\ keys' = keys
  BY DEF AppendInPlace, AfterAdd
<1>2. /\ stmt \in Shapes /\ Register \in Places /\ s \in String /\ s # Undef
      /\ str[s].live /\ str[s] \in Header /\ Concatenated \in Text
      /\ js[Register] \o js[Rhs] \in Text \cup {<<>>}
      /\ Len(js[Register] \o js[Rhs]) <= Len(Concatenated)
      /\ Len(str[s].text) <= Len(Concatenated)
  BY <1>1, AddFacts DEF TextOf
<1>3. ~str[s].interned
  BY <1>1 DEF Unshared
<1>4. /\ str \in [String -> Header \cup {Free}] /\ at \in [Places -> String \cup {Undef}]
      /\ js \in [Places -> Text \cup {<<>>}]
  BY DEF IInv, HeapOk, Meant
<1>5. str' = [str EXCEPT ![s] = x]
  BY <1>1
<1>6. /\ x \in Header /\ x.live = TRUE /\ x.text = Concatenated /\ x.hash = Deferred
      /\ x.interned = str[s].interned /\ x.refcount = str[s].refcount
  BY <1>2 DEF Header
<1> HIDE DEF x
<1>7. /\ str' \in [String -> Header \cup {Free}] /\ str'[s] = x
      /\ \A u \in String : u # s => str'[u] = str[u]
  BY <1>2, <1>4, <1>5, <1>6
<1>8. HeapOk(str', at, keys)
  BY <1>2, <1>3, <1>6, <1>7, Rewrite DEF IInv
<1>9. ASSUME NEW q \in Places
      PROVE  Reads(str', at', q) = IF at[q] = s THEN Concatenated ELSE Reads(str, at, q)
  <2>1. CASE at[q] = Undef
    BY <1>1, <1>2, <2>1 DEF Reads
  <2>2. CASE at[q] = s
    BY <1>1, <1>2, <1>6, <1>7, <2>2 DEF Reads
  <2>3. CASE at[q] # s /\ at[q] # Undef
    BY <1>1, <1>4, <1>7, <2>3 DEF Reads
  <2> QED
    BY <2>1, <2>2, <2>3
<1>10. js' = [js EXCEPT ![Register] = js[Register] \o js[Rhs]]
  BY <1>1 DEF AfterAdd
<1>11. /\ js'[Register] = js[Register] \o js[Rhs]
       /\ \A q \in Places : q # Register => js'[q] = js[q]
       /\ js' \in [Places -> Text \cup {<<>>}]
  BY <1>2, <1>4, <1>10
<1>12. Meant(str', at', js')
  <2> SUFFICES ASSUME NEW q \in Places
               PROVE  Len(js'[q]) <= Len(Reads(str', at', q))
    BY <1>11 DEF Meant
  <2>1. CASE q = Register
    BY <1>2, <1>9, <1>11, <2>1
  <2>2. CASE q # Register /\ at[q] # s
    BY <1>9, <1>11, <2>2 DEF IInv, Meant
  <2>3. CASE q # Register /\ at[q] = s
    <3>1. Reads(str, at, q) = str[s].text /\ Reads(str', at', q) = Concatenated
      BY <1>2, <1>9, <2>3 DEF Reads
    <3>2. Len(js[q]) <= Len(str[s].text)
      BY <3>1 DEF IInv, Meant
    <3>3. Len(js[q]) \in Nat /\ Len(str[s].text) \in Nat /\ Len(Concatenated) \in Nat
      <4>1. str[s].text \in Text
        BY <1>2, LiveHeader
      <4>2. js[q] \in Text \cup {<<>>} /\ Len(<<>>) = 0
        BY <1>4
      <4> QED
        BY <1>2, <4>1, <4>2, TextIsSeq, BoundsAssumption
    <3> QED
      BY <1>2, <1>11, <2>3, <3>1, <3>2, <3>3
  <2> QED
    BY <2>1, <2>2, <2>3
<1>13. Control'
  BY <1>1, <1>2, AddControl
<1> QED
  BY <1>1, <1>3, <1>7, <1>8, <1>9, <1>12, <1>13

LEMMA PutVarKept ==
    ASSUME IInv, PutVar
    PROVE  Kept
<1> DEFINE d == stmt.dst
<1>1. /\ pc = "put" /\ str' = Decref(str, at[d]) /\ keys' = keys
      /\ at' = [at EXCEPT ![d] = at[Acc], ![Acc] = Undef]
      /\ js' = [js EXCEPT ![d] = js[Acc], ![Acc] = <<>>]
      /\ pc' = "idle" /\ stmt' = NoStatement
  BY DEF PutVar
<1>2. stmt \in Shapes /\ stmt.kind = "variable" /\ Register = Acc /\ at[Acc] # Undef
  BY <1>1 DEF IInv, Control, Register
<1>3. d \in Places /\ Acc \in Places /\ d # Acc
  BY <1>2, StatementFacts, Names
<1>4. HeapOk(str', at', keys') /\ SameTexts(str, str')
  BY <1>1, <1>2, <1>3, MoveOk DEF IInv
<1>5. /\ at'[d] = at[Acc] /\ js'[d] = js[Acc] /\ at'[Acc] = Undef /\ js'[Acc] = <<>>
      /\ \A q \in Places : q # d /\ q # Acc => at'[q] = at[q] /\ js'[q] = js[q]
      /\ js' \in [Places -> Text \cup {<<>>}]
  BY <1>1, <1>3 DEF IInv, HeapOk, Meant
<1>6. \A q \in Places :
        \/ \E r \in Places : at'[q] = at[r] /\ js'[q] = js[r]
        \/ at'[q] = Undef /\ js'[q] = <<>>
        \/ Len(js'[q]) <= Len(Reads(str', at', q))
  BY <1>3, <1>5
<1>7. Meant(str', at', js')
  <2>1. HeapOk(str, at, keys) /\ Meant(str, at, js) /\ js' \in [Places -> Text \cup {<<>>}]
    BY <1>5 DEF IInv
  <2> QED
    BY <1>4, <1>6, <2>1, MeantStep
<1>8. Control'
  BY <1>1 DEF Control
<1> QED
  BY <1>4, <1>7, <1>8 DEF Kept

\* Nothing moves: an error leaves the statement, or no step at all.
LEMMA UnmovedKept ==
    ASSUME IInv, UNCHANGED <<str, at, keys, js>>,
           \/ pc' = "idle" /\ stmt' = NoStatement
           \/ UNCHANGED <<stmt, pc>>
    PROVE  Kept
<1>1. str' = str /\ at' = at /\ keys' = keys /\ js' = js
  OBVIOUS
<1>2. Control'
  <2>1. CASE pc' = "idle" /\ stmt' = NoStatement
    BY <2>1 DEF Control
  <2>2. CASE UNCHANGED <<stmt, pc>>
    BY <1>1, <2>2 DEF IInv, Control, Register
  <2> QED
    BY <2>1, <2>2
<1>3. SameTexts(str, str')
  BY <1>1 DEF SameTexts
<1> QED
  BY <1>1, <1>2, <1>3 DEF Kept, IInv

---------------------------------------------------------------------------
(* Every step.                                                             *)

LEMMA InitIInv == Init => IInv
<1> SUFFICES ASSUME Init PROVE IInv
  OBVIOUS
<1>1. /\ str = [s \in String |-> Free] /\ at = [p \in Places |-> Undef] /\ keys = {}
      /\ stmt = NoStatement /\ pc = "idle" /\ js = [p \in Places |-> <<>>]
  BY DEF Init
<1>2. ASSUME NEW s \in String PROVE CountedString(str, at, s)
  <2>1. HoldersIn(at, s) = {}
    BY <1>1, Names DEF HoldersIn
  <2>2. ~str[s].live
    BY <1>1, FreeHeader
  <2> QED
    BY <2>1, <2>2, FS_EmptySet DEF CountedString
<1>3. Canonical(str) /\ KeysHeld(str, keys)
  BY <1>1, FreeHeader DEF Canonical, KeysHeld
<1>4. HeapOk(str, at, keys)
  BY <1>1, <1>2, <1>3 DEF HeapOk, Counted
<1>5. Control
  BY <1>1 DEF Control
<1>6. Meant(str, at, js)
  <2>1. Len(<<>>) <= Len(<<>>)
    OBVIOUS
  <2> QED
    BY <1>1, <2>1 DEF Meant, Reads
<1> QED
  BY <1>4, <1>5, <1>6 DEF IInv

\* Only AppendInPlace changes the text of a string that lives on.
LEMMA Step ==
    ASSUME IInv, [Next]_vars
    PROVE  Kept \/ AppendInPlace
<1>1. CASE Script
  <2>1. ASSUME NEW p \in Places, NEW c \in Chunks, AssignLiteral(p, c) PROVE Kept
    BY <2>1, AssignLiteralKept
  <2>2. ASSUME NEW p \in Places, NEW q \in Places, Assign(p, q) PROVE Kept
    BY <2>2, AssignKept
  <2>3. ASSUME NEW p \in Places, Clear(p) PROVE Kept
    BY <2>3, ClearKept
  <2>4. ASSUME NEW p \in Places, UseAsKey(p) PROVE Kept
    BY <2>4, UseAsKeyKept
  <2>5. ASSUME NEW k \in keys, DropKey(k) PROVE Kept
    BY <2>5, DropKeyKept
  <2>6. ASSUME SweepStrings PROVE Kept
    BY <2>6, SweepStringsKept
  <2> QED
    BY <1>1, <2>1, <2>2, <2>3, <2>4, <2>5, <2>6 DEF Script
<1>2. CASE Concat
  <2>1. ASSUME NEW m \in Shapes, Begin(m) PROVE Kept
    BY <2>1, BeginKept
  <2>2. ASSUME NEW c \in Chunks, OperandLiteral(c) PROVE Kept
    BY <2>2, OperandLiteralKept
  <2>3. ASSUME NEW p \in Bindings \cup Locals, OperandVariable(p) PROVE Kept
    BY <2>3, OperandVariableKept
  <2>4. ASSUME AppendGrown PROVE Kept
    BY <2>4, AppendGrownKept
  <2>5. ASSUME ConcatCopy PROVE Kept
    BY <2>5, ConcatCopyKept
  <2>6. ASSUME ConcatTooLong PROVE Kept
    BY <2>6, UnmovedKept DEF ConcatTooLong
  <2>7. ASSUME NEW p \in Slots, CopyResult(p) PROVE Kept
    BY <2>7, CopyResultKept
  <2>8. ASSUME PutVar PROVE Kept
    BY <2>8, PutVarKept
  <2>9. ASSUME PutConst PROVE Kept
    BY <2>9, UnmovedKept DEF PutConst
  <2> QED
    BY <1>2, <2>1, <2>2, <2>3, <2>4, <2>5, <2>6, <2>7, <2>8, <2>9 DEF Concat
<1>3. CASE UNCHANGED vars
  BY <1>3, UnmovedKept DEF vars
<1> QED
  BY <1>1, <1>2, <1>3 DEF Next

LEMMA StepIInv ==
    ASSUME IInv, [Next]_vars
    PROVE  IInv'
<1>1. CASE Kept
  BY <1>1 DEF Kept, IInv
<1>2. CASE AppendInPlace
  BY <1>2, AppendInPlaceKept DEF IInv
<1> QED
  BY <1>1, <1>2, Step

THEOREM Invariant == Spec => []IInv
<1>1. Init => IInv
  BY InitIInv
<1>2. IInv /\ [Next]_vars => IInv'
  BY StepIInv
<1> QED
  BY <1>1, <1>2, PTL DEF Spec

---------------------------------------------------------------------------
(* The properties.                                                         *)

\* Headers, places, keys, the statement and the meant texts keep their types,
\* whatever the script does: no append or growth makes a text or a capacity
\* outside the bounds of vm_concat_accumulate.
THEOREM TypeCorrect == Spec => []TypeOK
<1>1. IInv => TypeOK
  BY DEF IInv, HeapOk, Control, Meant, TypeOK
<1> QED
  BY <1>1, Invariant, PTL

\* heap.c3 decref, tval_copy_ref, set_reg_string, str_table_adopt: over any
\* sequence of statements a string's count is the number of places that hold it
\* plus the table's reference, so no string is freed while held and none leaks.
THEOREM CountsAreExact == Spec => []CountsExact
<1>1. IInv => CountsExact
  <2> SUFFICES ASSUME IInv, NEW s \in String
               PROVE  LET holders == {p \in Places : at[p] = s} IN
                      IF str[s].live
                      THEN str[s].refcount = Cardinality(holders)
                                             + (IF str[s].interned THEN 1 ELSE 0)
                      ELSE holders = {} /\ s \notin keys
    BY DEF CountsExact
  <2>1. CountedString(str, at, s) /\ (s \in keys => str[s].live)
    BY DEF IInv, HeapOk, Counted, KeysHeld
  <2> QED
    BY <2>1 DEF CountedString, HoldersIn, TableRef
<1> QED
  BY <1>1, Invariant, PTL

\* heap.c3 ensure_interned: whichever appends and keys came before, an interned
\* text has one string and the table finds it.
THEOREM KeysAreCanonical == Spec => []KeysCanonical
<1>1. IInv => KeysCanonical
  <2> SUFFICES ASSUME IInv, NEW s \in String, str[s].live, str[s].interned
               PROVE  Lookup(str, TextOf(s)) = {s}
    BY DEF KeysCanonical
  <2> QED
    BY DEF IInv, HeapOk, Canonical, Lookup, TextOf
<1> QED
  BY <1>1, Invariant, PTL

\* vm_execute.c3:206: the text of an interned string never changes while it
\* lives, since an append in place starts from an un-interned string and a new
\* string only takes a dead header.
THEOREM InternedIsFrozen == Spec => InternedFrozen
<1> DEFINE Frozen == \A s \in String : str[s].live /\ str[s].interned /\ str'[s].live
                       => str'[s].interned /\ str'[s].text = str[s].text
<1>1. IInv /\ [Next]_vars => Frozen
  <2> SUFFICES ASSUME IInv, [Next]_vars PROVE Frozen
    OBVIOUS
  <2>1. CASE Kept
    BY <2>1 DEF Kept, SameTexts
  <2>2. CASE AppendInPlace
    BY <2>2, AppendInPlaceKept
  <2> QED
    BY <2>1, <2>2, Step
<1>2. IInv /\ [Next]_vars => [Frozen]_vars
  BY <1>1
<1> QED
  BY <1>2, Invariant, PTL DEF Spec, InternedFrozen

---------------------------------------------------------------------------
(* Appends are unobservable where the script only writes `s += rhs`, s is  *)
(* not const and the right operand does not assign: every place then reads *)
(* exactly its text, except the variable the pending PUTVAR overwrites.    *)

Pending(p) == pc \in {"copy", "put"} /\ p = stmt.dst

Exact ==
    /\ \A p \in Places : Pending(p) \/ Reads(str, at, p) = js[p]
    /\ pc \in {"rhs", "add"} /\ stmt.kind = "variable" => at[Acc] = at[stmt.src]

LEMMA ReadsExact ==
    ASSUME IInv, Exact, Kept,
           \A p \in Places :
              \/ Pending(p)'
              \/ \E q \in Places : ~Pending(q) /\ at'[p] = at[q] /\ js'[p] = js[q]
              \/ at'[p] = Undef /\ js'[p] = <<>>
              \/ Reads(str', at', p) = js'[p],
           NEW p \in Places
    PROVE  Pending(p)' \/ Reads(str', at', p) = js'[p]
<1>1. CASE \E q \in Places : ~Pending(q) /\ at'[p] = at[q] /\ js'[p] = js[q]
  <2>1. PICK q \in Places : ~Pending(q) /\ at'[p] = at[q] /\ js'[p] = js[q]
    BY <1>1
  <2>2. HeapOk(str, at, keys) /\ HeapOk(str', at', keys') /\ SameTexts(str, str')
    BY DEF IInv, Kept
  <2>3. Reads(str', at', p) = Reads(str, at, q)
    BY <2>1, <2>2, ReadsKept
  <2> QED
    BY <2>1, <2>3 DEF Exact
<1>2. CASE at'[p] = Undef /\ js'[p] = <<>>
  BY <1>2 DEF Reads
<1> QED
  BY <1>1, <1>2

\* A statement between concatenations writes one place.
LEMMA ScriptExact ==
    ASSUME IInv, Exact, Kept, pc = "idle", pc' = "idle", NEW p \in Places,
           \A q \in Places : q # p => at'[q] = at[q] /\ js'[q] = js[q],
           \/ \E q \in Places : at'[p] = at[q] /\ js'[p] = js[q]
           \/ at'[p] = Undef /\ js'[p] = <<>>
           \/ Reads(str', at', p) = js'[p]
    PROVE  Exact'
<1>1. \A q \in Places : ~Pending(q)
  BY DEF Pending
<1>2. \A q \in Places :
        \/ \E r \in Places : ~Pending(r) /\ at'[q] = at[r] /\ js'[q] = js[r]
        \/ at'[q] = Undef /\ js'[q] = <<>>
        \/ Reads(str', at', q) = js'[q]
  BY <1>1
<1>3. \A q \in Places : Pending(q)' \/ Reads(str', at', q) = js'[q]
  BY <1>2, ReadsExact
<1> QED
  BY <1>3 DEF Exact

LEMMA ScriptKeepsExact ==
    ASSUME ~RhsCalls, IInv, Exact, Script
    PROVE  Exact'
<1>1. ScriptRuns => pc = "idle"
  BY StatementFacts DEF ScriptRuns, IInv, Control
<1>2. ASSUME NEW p \in Places, NEW c \in Chunks, AssignLiteral(p, c) PROVE Exact'
  <2>1. Kept /\ StoreLiteral(p, c) /\ keys' = keys /\ pc = "idle" /\ pc' = "idle"
    BY <1>1, <1>2, AssignLiteralKept DEF AssignLiteral, StoreLiteral
  <2>2. /\ Reads(str', at', p) = js'[p]
        /\ \A q \in Places : q # p => at'[q] = at[q] /\ js'[q] = js[q]
    BY <2>1, LiteralKept
  <2> QED
    BY <2>1, <2>2, ScriptExact
<1>3. ASSUME NEW p \in Places, NEW q \in Places, Assign(p, q) PROVE Exact'
  <2>1. Kept /\ CopyRef(p, q) /\ at[q] # Undef /\ keys' = keys /\ pc = "idle" /\ pc' = "idle"
    BY <1>1, <1>3, AssignKept DEF Assign
  <2>2. /\ at'[p] = at[q] /\ js'[p] = js[q]
        /\ \A r \in Places : r # p => at'[r] = at[r] /\ js'[r] = js[r]
    BY <2>1, CopyRefKept
  <2> QED
    BY <2>1, <2>2, ScriptExact
<1>4. ASSUME NEW p \in Places, Clear(p) PROVE Exact'
  <2>1. /\ Kept /\ pc = "idle" /\ pc' = "idle"
        /\ at' = [at EXCEPT ![p] = Undef] /\ js' = [js EXCEPT ![p] = <<>>]
    BY <1>1, <1>4, ClearKept DEF Clear
  <2>2. /\ at'[p] = Undef /\ js'[p] = <<>>
        /\ \A r \in Places : r # p => at'[r] = at[r] /\ js'[r] = js[r]
    BY <2>1 DEF IInv, HeapOk, Meant
  <2>3. Kept /\ pc = "idle" /\ pc' = "idle"
    BY <2>1
  <2> QED
    BY <2>2, <2>3, ScriptExact
<1>5. ASSUME Kept, ScriptRuns, at' = at, js' = js, pc' = pc PROVE Exact'
  <2>1. Acc \in Places /\ pc = "idle" /\ pc' = "idle"
    BY <1>1, <1>5, Names
  <2>2. /\ \E q \in Places : at'[Acc] = at[q] /\ js'[Acc] = js[q]
        /\ \A r \in Places : r # Acc => at'[r] = at[r] /\ js'[r] = js[r]
    BY <1>5, <2>1
  <2> QED
    BY <1>5, <2>1, <2>2, ScriptExact
<1>6. ASSUME NEW p \in Places, UseAsKey(p) PROVE Exact'
  BY <1>5, <1>6, UseAsKeyKept DEF UseAsKey
<1>7. ASSUME NEW k \in keys, DropKey(k) PROVE Exact'
  BY <1>5, <1>7, DropKeyKept DEF DropKey
<1>8. ASSUME SweepStrings PROVE Exact'
  BY <1>5, <1>8, SweepStringsKept DEF SweepStrings
<1> QED
  BY <1>2, <1>3, <1>4, <1>6, <1>7, <1>8 DEF Script

LEMMA OperandsKeepExact ==
    ASSUME IInv, Exact,
           \/ \E m \in Shapes : Begin(m)
           \/ \E c \in Chunks : OperandLiteral(c)
           \/ \E p \in Bindings \cup Locals : OperandVariable(p)
    PROVE  Exact'
<1>1. ASSUME pc \in {"idle", "rhs"}, pc' \in {"rhs", "add"}, Kept, NEW p \in Places,
             \A q \in Places : q # p => at'[q] = at[q] /\ js'[q] = js[q],
             \/ \E q \in Places : at'[p] = at[q] /\ js'[p] = js[q]
             \/ Reads(str', at', p) = js'[p]
      PROVE  \A q \in Places : Pending(q)' \/ Reads(str', at', q) = js'[q]
  <2>1. \A q \in Places : ~Pending(q)
    BY <1>1 DEF Pending
  <2>2. \A q \in Places :
          \/ Pending(q)'
          \/ \E r \in Places : ~Pending(r) /\ at'[q] = at[r] /\ js'[q] = js[r]
          \/ at'[q] = Undef /\ js'[q] = <<>>
          \/ Reads(str', at', q) = js'[q]
    BY <1>1, <2>1
  <2> QED
    BY <1>1, <2>2, ReadsExact
<1>2. ASSUME pc = "rhs", stmt' = stmt, \A q \in Places : q # Rhs => at'[q] = at[q]
      PROVE  stmt'.kind = "variable" => at'[Acc] = at'[stmt'.src]
  <2>1. stmt \in Shapes
    BY <1>2 DEF IInv, Control
  <2> QED
    BY <1>2, <2>1, StatementFacts, Names DEF Exact
<1>3. ASSUME NEW m \in Shapes, Begin(m) PROVE Exact'
  <2>1. /\ Kept /\ pc = "idle" /\ pc' = "rhs" /\ stmt' = m /\ keys' = keys
        /\ at[m.src] # Undef /\ m.src \in Places /\ m.src # Acc
    BY <1>3, BeginKept, StatementFacts, Names DEF Begin
  <2>2. CASE m.kind = "local"
    <3>1. at' = at /\ js' = js
      BY <1>3, <2>2 DEF Begin
    <3>2. /\ \E q \in Places : at'[Acc] = at[q] /\ js'[Acc] = js[q]
          /\ \A q \in Places : q # Acc => at'[q] = at[q] /\ js'[q] = js[q]
      BY <3>1, Names
    <3> QED
      BY <1>1, <2>1, <2>2, <3>2, Names DEF Exact
  <2>3. CASE m.kind # "local"
    <3>1. CopyRef(Acc, m.src)
      BY <1>3, <2>3 DEF Begin
    <3>2. /\ at'[Acc] = at[m.src] /\ js'[Acc] = js[m.src]
          /\ \A q \in Places : q # Acc => at'[q] = at[q] /\ js'[q] = js[q]
      BY <2>1, <3>1, CopyRefKept, Names
    <3>3. at'[Acc] = at'[m.src]
      BY <2>1, <3>2
    <3> QED
      BY <1>1, <2>1, <3>2, <3>3, Names DEF Exact
  <2> QED
    BY <2>2, <2>3
<1>4. ASSUME NEW c \in Chunks, OperandLiteral(c) PROVE Exact'
  <2>1. Kept /\ StoreLiteral(Rhs, c) /\ keys' = keys /\ pc = "rhs" /\ pc' = "add" /\ stmt' = stmt
    BY <1>4, OperandLiteralKept DEF OperandLiteral, StoreLiteral
  <2>2. /\ Reads(str', at', Rhs) = js'[Rhs]
        /\ \A q \in Places : q # Rhs => at'[q] = at[q] /\ js'[q] = js[q]
    BY <2>1, LiteralKept, Names
  <2> QED
    BY <1>1, <1>2, <2>1, <2>2, Names DEF Exact
<1>5. ASSUME NEW p \in Bindings \cup Locals, OperandVariable(p) PROVE Exact'
  <2>1. /\ Kept /\ CopyRef(Rhs, p) /\ at[p] # Undef /\ p \in Places
        /\ keys' = keys /\ pc = "rhs" /\ pc' = "add" /\ stmt' = stmt
    BY <1>5, OperandVariableKept, Names DEF OperandVariable
  <2>2. /\ at'[Rhs] = at[p] /\ js'[Rhs] = js[p]
        /\ \A q \in Places : q # Rhs => at'[q] = at[q] /\ js'[q] = js[q]
    BY <2>1, CopyRefKept, Names
  <2> QED
    BY <1>1, <1>2, <2>1, <2>2, Names DEF Exact
<1> QED
  BY <1>3, <1>4, <1>5

\* Who else can hold the string an append extends.
LEMMA OnlyPending ==
    ASSUME ~AssignOther, IInv, Exact, pc = "add", Unshared(at[Register]),
           NEW q \in Places, q # Register, at[q] = at[Register]
    PROVE  stmt.kind = "variable" /\ ~stmt.used /\ q = stmt.dst
<1> DEFINE s == at[Register]
           H == HoldersIn(at, s)
<1>1. /\ stmt \in Shapes /\ Register \in Places /\ s \in String /\ str[s].live
  BY Held, RegisterFacts DEF IInv, Control
<1>2. ~str[s].interned /\ (str[s].refcount = 1 \/ (str[s].refcount = 2 /\ ~stmt.used))
  BY DEF Unshared, NextStores
<1>3. IsFiniteSet(H) /\ str[s].refcount = Cardinality(H)
  <2>1. CountedString(str, at, s)
    BY <1>1 DEF IInv, HeapOk, Counted
  <2>2. IsFiniteSet(H) /\ str[s].refcount = Cardinality(H) + 0 /\ Cardinality(H) \in Nat
    BY <1>1, <1>2, <2>1, FS_CardinalityType DEF CountedString, TableRef
  <2> QED
    BY <2>2
<1>4. Register \in H /\ q \in H
  BY <1>1 DEF HoldersIn
<1>5. Cardinality(H) # 1
  <2> SUFFICES ASSUME Cardinality(H) = 1 PROVE FALSE
    OBVIOUS
  <2> HIDE DEF H
  <2>1. PICK x : H = {x}
    BY <1>3, FS_Singleton
  <2> QED
    BY <1>4, <2>1
<1>6. Cardinality(H) = 2 /\ ~stmt.used
  BY <1>2, <1>3, <1>5
<1>7. stmt.kind = "variable" /\ stmt.src = stmt.dst /\ stmt.src \in Bindings
  BY <1>1, <1>6, StatementFacts
<1>8. Register = Acc /\ stmt.src \in H /\ stmt.src # Acc
  <2>1. Register = Acc
    BY <1>7 DEF Register
  <2>2. at[stmt.src] = s /\ stmt.src \in Places /\ stmt.src # Acc
    BY <1>7, <2>1, Names DEF Exact
  <2> QED
    BY <2>1, <2>2 DEF HoldersIn
<1> HIDE DEF H
<1>9. IsFiniteSet(H \ {Acc}) /\ Cardinality(H \ {Acc}) = 1
  BY <1>3, <1>4, <1>6, <1>8, FS_RemoveElement
<1>10. PICK x : H \ {Acc} = {x}
  BY <1>9, FS_Singleton
<1>11. q = stmt.src
  BY <1>4, <1>8, <1>10
<1> QED
  BY <1>6, <1>7, <1>11

LEMMA AddExact ==
    ASSUME IInv, Exact, pc = "add", AfterAdd, Len(Concatenated) <= MaxLen,
           Reads(str', at', Register) = Concatenated,
           \A q \in Places :
               q # Register /\ ~(stmt.kind = "variable" /\ q = stmt.dst)
               => Reads(str', at', q) = Reads(str, at, q)
    PROVE  Exact'
<1>1. /\ stmt \in Shapes /\ Register \in Places /\ Rhs \in Places
      /\ Concatenated = Reads(str, at, Register) \o Reads(str, at, Rhs)
  BY AddFacts
<1>2. \A q \in Places : Reads(str, at, q) = js[q]
  BY DEF Exact, Pending
<1>3. /\ js'[Register] = js[Register] \o js[Rhs]
      /\ \A q \in Places : q # Register => js'[q] = js[q]
  BY <1>1 DEF AfterAdd, IInv, Meant
<1>4. pc' \notin {"rhs", "add"}
  BY DEF AfterAdd
<1>5. stmt.kind = "variable" => stmt' = stmt /\ pc' \in {"copy", "put"}
  BY DEF AfterAdd
<1>6. ASSUME NEW q \in Places PROVE Pending(q)' \/ Reads(str', at', q) = js'[q]
  <2>1. CASE q = Register
    BY <1>1, <1>2, <1>3, <2>1
  <2>2. CASE q # Register
    BY <1>2, <1>3, <1>5, <2>2 DEF Pending
  <2> QED
    BY <2>1, <2>2
<1> QED
  BY <1>4, <1>6 DEF Exact

LEMMA AdditionsKeepExact ==
    ASSUME ~AssignOther, IInv, Exact, AppendInPlace \/ AppendGrown \/ ConcatCopy
    PROVE  Exact'
<1>1. ASSUME Kept, AfterAdd, pc = "add", Len(Concatenated) <= MaxLen,
             Reads(str', at', Register) = Concatenated,
             \A q \in Places : q # Register => at'[q] = at[q]
      PROVE  Exact'
  <2>1. HeapOk(str, at, keys) /\ HeapOk(str', at', keys') /\ SameTexts(str, str')
    BY <1>1 DEF IInv, Kept
  <2>2. \A q \in Places : q # Register => Reads(str', at', q) = Reads(str, at, q)
    BY <1>1, <2>1, ReadsKept
  <2> QED
    BY <1>1, <2>2, AddExact
<1>2. CASE AppendGrown
  BY <1>1, <1>2, AppendGrownKept
<1>3. CASE ConcatCopy
  BY <1>1, <1>3, ConcatCopyKept
<1>4. CASE AppendInPlace
  <2>1. /\ pc = "add" /\ AfterAdd /\ Len(Concatenated) <= MaxLen /\ Unshared(at[Register])
        /\ Register \in Places
    BY <1>4, AddFacts DEF AppendInPlace
  <2>2. \A q \in Places : Reads(str', at', q) =
          IF at[q] = at[Register] THEN Concatenated ELSE Reads(str, at, q)
    BY <1>4, AppendInPlaceKept
  <2>3. Reads(str', at', Register) = Concatenated
    BY <2>1, <2>2
  <2>4. ASSUME NEW q \in Places, q # Register, ~(stmt.kind = "variable" /\ q = stmt.dst)
        PROVE  Reads(str', at', q) = Reads(str, at, q)
    <3>1. at[q] # at[Register]
      BY <2>1, <2>4, OnlyPending
    <3> QED
      BY <2>2, <3>1
  <2> QED
    BY <2>1, <2>3, <2>4, AddExact
<1> QED
  BY <1>2, <1>3, <1>4

LEMMA ResultKeepsExact ==
    ASSUME ConstBindings = {}, IInv, Exact,
           \/ ConcatTooLong \/ PutVar \/ PutConst
           \/ \E p \in Slots : CopyResult(p)
    PROVE  Exact'
<1>1. ~PutConst
  BY DEF PutConst
<1>2. CASE ConcatTooLong
  <2>1. /\ Kept /\ pc = "add" /\ pc' = "idle" /\ at' = at /\ js' = js /\ str' = str
    BY <1>2, UnmovedKept DEF ConcatTooLong
  <2> QED
    BY <2>1 DEF Exact, Pending, Reads
<1>3. ASSUME NEW p \in Slots, CopyResult(p) PROVE Exact'
  <2>1. /\ Kept /\ pc = "copy" /\ pc' = "put" /\ CopyRef(p, Acc) /\ keys' = keys
        /\ stmt' = stmt /\ stmt \in Shapes /\ stmt.kind = "variable"
        /\ p \in Places /\ at[Acc] # Undef
    BY <1>3, CopyResultKept, Names DEF CopyResult, IInv, Control, Register
  <2>2. stmt.dst # p /\ stmt.dst # Acc /\ Acc \in Places
    BY <2>1, StatementFacts, Names
  <2>3. /\ at'[p] = at[Acc] /\ js'[p] = js[Acc]
        /\ \A q \in Places : q # p => at'[q] = at[q] /\ js'[q] = js[q]
    BY <2>1, <2>2, CopyRefKept
  <2>4. \A q \in Places : (Pending(q) <=> q = stmt.dst) /\ (Pending(q)' <=> q = stmt.dst)
    BY <2>1 DEF Pending
  <2>5. \A q \in Places :
          \/ Pending(q)'
          \/ \E r \in Places : ~Pending(r) /\ at'[q] = at[r] /\ js'[q] = js[r]
          \/ at'[q] = Undef /\ js'[q] = <<>>
          \/ Reads(str', at', q) = js'[q]
    BY <2>2, <2>3, <2>4
  <2>6. \A q \in Places : Pending(q)' \/ Reads(str', at', q) = js'[q]
    BY <2>1, <2>5, ReadsExact
  <2> QED
    BY <2>1, <2>6 DEF Exact
<1>4. CASE PutVar
  <2> DEFINE d == stmt.dst
  <2>1. /\ Kept /\ pc = "put" /\ pc' = "idle"
        /\ at' = [at EXCEPT ![d] = at[Acc], ![Acc] = Undef]
        /\ js' = [js EXCEPT ![d] = js[Acc], ![Acc] = <<>>]
        /\ stmt \in Shapes /\ stmt.kind = "variable"
    BY <1>4, PutVarKept DEF PutVar, IInv, Control
  <2>2. d \in Places /\ Acc \in Places /\ d # Acc
    BY <2>1, StatementFacts, Names
  <2>3. /\ at'[d] = at[Acc] /\ js'[d] = js[Acc] /\ at'[Acc] = Undef /\ js'[Acc] = <<>>
        /\ \A q \in Places : q # d /\ q # Acc => at'[q] = at[q] /\ js'[q] = js[q]
    BY <2>1, <2>2 DEF IInv, HeapOk, Meant
  <2>4. \A q \in Places : Pending(q) <=> q = d
    BY <2>1 DEF Pending
  <2>5. \A q \in Places :
          \/ \E r \in Places : ~Pending(r) /\ at'[q] = at[r] /\ js'[q] = js[r]
          \/ at'[q] = Undef /\ js'[q] = <<>>
    BY <2>2, <2>3, <2>4
  <2>6. Kept /\ pc' = "idle"
    BY <2>1
  <2>7. \A q \in Places : Pending(q)' \/ Reads(str', at', q) = js'[q]
    BY <2>5, <2>6, ReadsExact
  <2> QED
    BY <2>6, <2>7 DEF Exact
<1> QED
  BY <1>1, <1>2, <1>3, <1>4

\* vm_execute.c3:203, test_concat_accumulate_aliasing.js: with `s += rhs` as the
\* only concatenation, no const target and a right operand that calls nothing,
\* every place reads the text the language gives it, whatever it shares.  (The
\* code's guards do not check these three conditions; without any one of them
\* the property fails.)
THEOREM AppendsAreUnobservable ==
    ASSUME ~RhsCalls, ~AssignOther, ConstBindings = {}
    PROVE  Spec => []AppendUnobservable
<1>1. Init => Exact
  BY DEF Init, Exact, Reads
<1>2. IInv /\ Exact /\ [Next]_vars => Exact'
  <2> SUFFICES ASSUME IInv, Exact, [Next]_vars PROVE Exact'
    OBVIOUS
  <2>1. CASE Script
    BY <2>1, ScriptKeepsExact
  <2>2. CASE Concat
    BY <2>2, OperandsKeepExact, AdditionsKeepExact, ResultKeepsExact DEF Concat
  <2>3. CASE UNCHANGED vars
    BY <2>3 DEF vars, Exact, Pending, Reads
  <2> QED
    BY <2>1, <2>2, <2>3 DEF Next
<1>3. Exact => AppendUnobservable
  BY DEF Exact, Pending, Reads, TextOf, AppendUnobservable
<1> QED
  BY <1>1, <1>2, <1>3, Invariant, PTL DEF Spec

=============================================================================
