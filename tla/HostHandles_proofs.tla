------------------------- MODULE HostHandles_proofs -------------------------
(***************************************************************************)
(* OwnedExact, ScopedRight and SlotsAccounted for every number of          *)
(* runtimes, slots, generations and calls: a registry handle means its own *)
(* value or nothing, the arguments of a call are its own, and no slot of a *)
(* registry is lost.                                                       *)
(***************************************************************************)
EXTENDS HostHandles, FiniteSetTheorems, WellFoundedInduction, TLAPS

---------------------------------------------------------------------------
(***************************************************************************)
(* The inductive invariant.                                                *)
(***************************************************************************)
Slot   == [v : Values, gen : 1 .. SLOT_GEN_MAX, next_free : Nat, used : BOOLEAN]
Handle == [rt : Nat, scope : BOOLEAN, gen : Nat, index : Nat]
Issue  == [n : Nat, h : Handle, rt : Runtimes, birth : Nat, v : Values]

TypeInv ==
    /\ open \subseteq Runtimes
    /\ opened \in 0 .. MaxOpened
    /\ next_id = opened + 1
    /\ rt_id \in [Runtimes -> Nat]
    /\ birth \in [Runtimes -> Nat]
    /\ slots \in [Runtimes -> Seq(Slot)]
    /\ free_head \in [Runtimes -> Nat]
    /\ owned \subseteq Issue
    /\ scopes \in [Runtimes -> Seq(Seq(Values))]

\* Runtime ids are the order of opening.
IdInv ==
    \A r \in open :
        /\ rt_id[r] = birth[r]
        /\ birth[r] \in 1 .. opened
        /\ \A s \in open : birth[r] = birth[s] => r = s

\* The numbers of the handles given out.
NumberInv ==
    /\ IsFiniteSet(owned)
    /\ freed \subseteq 1 .. Cardinality(owned)
    /\ \A i \in owned : i.n \in 1 .. Cardinality(owned)
    /\ \A i, j \in owned : i.n = j.n => i = j

\* A handle carries the id of the runtime that gave it out.
IssueInv ==
    \A i \in owned :
        /\ ~i.h.scope
        /\ i.h.rt = i.birth
        /\ i.birth \in 1 .. opened
        /\ \A r \in open : i.birth = birth[r] => i.rt = r

\* A handle's slot: in use for it until it is freed, and from then on either at
\* a later generation or out of use.
SlotOf(i, r) == slots[r][i.h.index]

SlotsOk(r) ==
    \A i \in owned : From(i, r) =>
        /\ i.h.index \in 1 .. Len(slots[r])
        /\ i.h.gen \in 1 .. SlotOf(i, r).gen
        /\ i.n \notin freed => /\ SlotOf(i, r).used
                               /\ i.h.gen = SlotOf(i, r).gen
                               /\ i.v = SlotOf(i, r).v
        /\ i.n \in freed /\ i.h.gen = SlotOf(i, r).gen => ~SlotOf(i, r).used

SlotInv == \A r \in open : SlotsOk(r)

\* The slots out of use whose generation no handle carries: what the free list
\* may hold.  A retired slot is not fresh.
Fresh(r) ==
    {x \in 1 .. Len(slots[r]) :
        /\ ~slots[r][x].used
        /\ \A i \in owned : From(i, r) /\ i.h.index = x => i.h.gen < slots[r][x].gen}

\* The free list holds fresh slots only, each one once.
FreeOk(r) ==
    /\ free_head[r] \in Fresh(r) \cup {FREE_END}
    /\ \A x \in Fresh(r) :
          LET next == slots[r][x].next_free
          IN  /\ next \in Fresh(r) \cup {FREE_END}
              /\ next # FREE_END =>
                    /\ next # free_head[r]
                    /\ \A y \in Fresh(r) : slots[r][y].next_free = next => x = y

FreeInv == \A r \in open : FreeOk(r)

\* The other handles are scope handles.
ScopeInv == \A t \in taken : t.h \in Handle /\ t.h.scope

IInv ==
    /\ TypeInv /\ IdInv /\ NumberInv /\ IssueInv /\ SlotInv /\ FreeInv
    /\ ScopeInv /\ NeverReissued

\* The variables IInv speaks of.
ivars == <<open, opened, next_id, rt_id, birth, slots, free_head, owned, freed,
           taken, scopes>>

---------------------------------------------------------------------------
(***************************************************************************)
(* Lemmas.                                                                 *)
(***************************************************************************)
\* A counter below its mask is not cut by it.
LEMMA ModSmall == ASSUME NEW M \in Nat, NEW g \in 0 .. M PROVE g % (M + 1) = g
  <1>1. g \in Int /\ M + 1 \in Nat \ {0} /\ 0 <= g /\ g < M + 1 OBVIOUS
  <1> QED BY <1>1, SMTT(20)

\* The handle of a slot carries the slot's generation.
LEMMA HandleFields ==
  ASSUME NEW r, NEW idx, NEW gen \in 1 .. SLOT_GEN_MAX
  PROVE  slot_handle(r, idx, gen) =
           [rt |-> rt_id[r], scope |-> FALSE, gen |-> gen, index |-> idx]
  <1>1. SLOT_GEN_MAX \in Nat BY LimitsAssumption
  <1>2. gen % (SLOT_GEN_MAX + 1) = gen BY <1>1, ModSmall
  <1> QED BY <1>2 DEF slot_handle

\* slot_entry, with the generations as they are.
LEMMA ResolvesMeans ==
  ASSUME TypeInv, NEW r \in Runtimes, NEW i \in owned
  PROVE  Resolves(r, i.h) <=>
           /\ ~i.h.scope
           /\ i.h.rt = rt_id[r]
           /\ i.h.index \in 1 .. Len(slots[r])
           /\ SlotOf(i, r).used
           /\ i.h.gen = SlotOf(i, r).gen
  <1>1. SLOT_GEN_MAX \in Nat BY LimitsAssumption
  <1>2. ASSUME i.h.index \in 1 .. Len(slots[r])
        PROVE  SlotOf(i, r).gen % (SLOT_GEN_MAX + 1) = SlotOf(i, r).gen
    <2>1. slots[r] \in Seq(Slot) BY DEF TypeInv
    <2>2. slots[r][i.h.index] \in Slot BY <2>1, <1>2
    <2>3. SlotOf(i, r).gen \in 1 .. SLOT_GEN_MAX BY <2>2 DEF Slot, SlotOf
    <2> QED BY <1>1, <2>3, ModSmall
  <1> QED BY <1>2 DEF Resolves, SlotOf

\* The invariant implies the property.
LEMMA InvExact == IInv => OwnedExact
  <1> SUFFICES ASSUME IInv PROVE ResolvesExactly
      BY DEF IInv, OwnedExact
  <1> USE DEF IInv
  <1> SUFFICES ASSUME NEW i \in owned, NEW r \in open
               PROVE  /\ Resolves(r, i.h) <=> From(i, r) /\ i.n \notin freed
                      /\ Resolves(r, i.h) => slot_get(r, i.h) = i.v
      BY DEF ResolvesExactly
  <1>1. r \in Runtimes BY DEF TypeInv
  <1>2. Resolves(r, i.h) <=>
          /\ ~i.h.scope
          /\ i.h.rt = rt_id[r]
          /\ i.h.index \in 1 .. Len(slots[r])
          /\ SlotOf(i, r).used
          /\ i.h.gen = SlotOf(i, r).gen
        BY <1>1, ResolvesMeans
  <1>3. ~i.h.scope /\ i.h.rt = i.birth /\ rt_id[r] = birth[r] BY DEF IssueInv, IdInv
  <1>4. i.birth = birth[r] => From(i, r) BY DEF IssueInv, From
  <1>5. From(i, r) => i.birth = birth[r] BY DEF From
  <1>6. CASE From(i, r)
    <2>1. /\ i.h.index \in 1 .. Len(slots[r])
          /\ i.n \notin freed => /\ SlotOf(i, r).used
                                 /\ i.h.gen = SlotOf(i, r).gen
                                 /\ i.v = SlotOf(i, r).v
          /\ i.n \in freed /\ i.h.gen = SlotOf(i, r).gen => ~SlotOf(i, r).used
          BY <1>6 DEF SlotInv, SlotsOk
    <2> QED BY <1>2, <1>3, <1>5, <1>6, <2>1 DEF slot_get, SlotOf
  <1>7. CASE ~From(i, r)
    BY <1>2, <1>3, <1>4, <1>7
  <1> QED BY <1>6, <1>7

\* The initial state, in which no runtime is open.
LEMMA InitInv == Init => IInv
  <1> SUFFICES ASSUME Init PROVE IInv OBVIOUS
  <1>1. TypeInv BY OpenedAssumption, LimitsAssumption DEF Init, TypeInv, FREE_END
  <1>2. NumberInv
    <2>1. IsFiniteSet({}) /\ Cardinality({}) = 0 BY FS_EmptySet
    <2> QED BY <2>1 DEF Init, NumberInv
  <1>3. IdInv /\ IssueInv /\ SlotInv /\ FreeInv /\ ScopeInv /\ NeverReissued
        BY DEF Init, IdInv, IssueInv, SlotInv, FreeInv, ScopeInv, NeverReissued
  <1> QED BY <1>1, <1>2, <1>3 DEF IInv

\* A step that changes none of its variables keeps the invariant.
LEMMA Untouched == IInv /\ UNCHANGED ivars => IInv'
  <1> QED BY DEF ivars, IInv, TypeInv, IdInv, NumberInv, IssueInv, SlotInv, SlotsOk,
                 SlotOf, FreeInv, FreeOk, Fresh, ScopeInv, NeverReissued, From

\* One slot of one registry is set.
LEMMA SlotSet ==
  ASSUME NEW S \in [Runtimes -> Seq(Slot)], NEW r \in Runtimes,
         NEW idx \in 1 .. Len(S[r]), NEW f \in Slot,
         NEW T, T = [S EXCEPT ![r] = [S[r] EXCEPT ![idx] = f]]
  PROVE  /\ T \in [Runtimes -> Seq(Slot)]
         /\ Len(T[r]) = Len(S[r]) /\ T[r][idx] = f
         /\ \A x \in 1 .. Len(S[r]) : x # idx => T[r][x] = S[r][x]
         /\ \A s \in Runtimes : s # r => T[s] = S[s]
  <1>1. S[r] \in Seq(Slot) OBVIOUS
  <1>2. [S[r] EXCEPT ![idx] = f] \in Seq(Slot) BY <1>1
  <1>3. /\ Len([S[r] EXCEPT ![idx] = f]) = Len(S[r])
        /\ [S[r] EXCEPT ![idx] = f][idx] = f
        /\ \A x \in 1 .. Len(S[r]) : x # idx => [S[r] EXCEPT ![idx] = f][x] = S[r][x]
        BY <1>1
  <1>4. T[r] = [S[r] EXCEPT ![idx] = f] OBVIOUS
  <1> QED BY <1>2, <1>3, <1>4

\* A handle for a slot and generation that none of r's handles has is new.
LEMMA Issued ==
  ASSUME IInv, NEW r \in open, NEW v \in Values, NEW idx \in Nat,
         NEW gen \in 1 .. SLOT_GEN_MAX,
         GiveOut(r, v, slot_handle(r, idx, gen)),
         UNCHANGED <<runtime, freed>>,
         \A i \in owned : From(i, r) /\ i.h.index = idx => i.h.gen # gen,
         NEW N,
         N = [n |-> Cardinality(owned) + 1,
              h |-> [rt |-> birth[r], scope |-> FALSE, gen |-> gen, index |-> idx],
              rt |-> r, birth |-> birth[r], v |-> v]
  PROVE  /\ owned' = owned \cup {N} /\ N \notin owned /\ N.n \notin freed
         /\ owned' \subseteq Issue
         /\ NumberInv' /\ IssueInv' /\ NeverReissued'
  <1> USE DEF IInv
  <1>1. r \in Runtimes /\ rt_id[r] = birth[r] /\ birth[r] \in Nat
        BY DEF TypeInv, IdInv
  <1>2. owned' = owned \cup {N}
    <2>1. slot_handle(r, idx, gen) = N.h BY <1>1, HandleFields
    <2>2. N = [n |-> Cardinality(owned) + 1, h |-> slot_handle(r, idx, gen),
               rt |-> r, birth |-> birth[r], v |-> v]
          BY <2>1
    <2> QED BY <2>2 DEF GiveOut
  <1>3. Cardinality(owned) \in Nat BY FS_CardinalityType DEF NumberInv
  <1>4. N.n = Cardinality(owned) + 1 OBVIOUS
  <1>a. Cardinality(owned) + 1 \notin 1 .. Cardinality(owned) BY <1>3
  <1>5. N \notin owned BY <1>a, <1>4 DEF NumberInv
  <1>6. N.n \notin freed BY <1>a, <1>4 DEF NumberInv
  <1>7. N \in Issue
    <2>1. gen \in Nat BY LimitsAssumption
    <2> QED BY <1>1, <1>3, <2>1 DEF Issue, Handle
  <1>8. NumberInv'
    <2>1. IsFiniteSet(owned') /\ Cardinality(owned') = Cardinality(owned) + 1
          BY <1>2, <1>5, FS_AddElement DEF NumberInv
    <2>2. 1 .. Cardinality(owned) \subseteq 1 .. Cardinality(owned')
          BY <1>3, <2>1
    <2>3. freed' \subseteq 1 .. Cardinality(owned') BY <2>2 DEF NumberInv
    <2>4. N.n \in 1 .. Cardinality(owned') BY <1>3, <1>4, <2>1
    <2>5. \A i \in owned' : i.n \in 1 .. Cardinality(owned')
          BY <1>2, <2>2, <2>4 DEF NumberInv
    <2>6. \A i \in owned : i.n # N.n BY <1>a, <1>4 DEF NumberInv
    <2>7. \A i, j \in owned' : i.n = j.n => i = j
          BY <1>2, <2>6 DEF NumberInv
    <2> QED BY <2>1, <2>3, <2>5, <2>7 DEF NumberInv
  <1>9. IssueInv'
    <2>1. /\ ~N.h.scope /\ N.h.rt = N.birth /\ N.birth \in 1 .. opened
          /\ \A s \in open : N.birth = birth[s] => N.rt = s
          BY DEF IdInv
    <2> QED BY <1>2, <2>1 DEF IssueInv, runtime
  <1>10. NeverReissued'
    <2>1. ASSUME NEW i \in owned, i.h = N.h PROVE FALSE
      <3>1. i.h.rt = birth[r] /\ i.h.index = idx /\ i.h.gen = gen BY <2>1
      <3>2. From(i, r) BY <3>1 DEF IssueInv, From
      <3> QED BY <3>1, <3>2
    <2> QED BY <1>2, <2>1 DEF NeverReissued
  <1> QED BY <1>2, <1>5, <1>6, <1>7, <1>8, <1>9, <1>10 DEF TypeInv

\* What happens in one runtime leaves the registries of the others as they are.
LEMMA Elsewhere ==
  ASSUME IInv, NEW s \in open,
         slots'[s] = slots[s], free_head'[s] = free_head[s], birth'[s] = birth[s],
         owned \subseteq owned',
         \A i \in owned' : From(i, s) => i \in owned,
         \A i \in owned : From(i, s) => (i.n \in freed' <=> i.n \in freed)
  PROVE  SlotsOk(s)' /\ FreeOk(s)'
  <1>1. \A i : From(i, s)' <=> From(i, s) BY DEF From
  <1>2. SlotsOk(s) /\ FreeOk(s) BY DEF IInv, SlotInv, FreeInv
  <1>3. SlotsOk(s)' BY <1>1, <1>2 DEF SlotsOk, SlotOf
  <1>4. Fresh(s)' = Fresh(s)
    <2>1. \A x \in 1 .. Len(slots[s]) :
             (\A i \in owned' : From(i, s)' /\ i.h.index = x => i.h.gen < slots'[s][x].gen)
               <=> \A i \in owned : From(i, s) /\ i.h.index = x => i.h.gen < slots[s][x].gen
          BY <1>1
    <2> QED BY <2>1 DEF Fresh
  <1>5. FreeOk(s)' BY <1>2, <1>4 DEF FreeOk
  <1> QED BY <1>3, <1>5

---------------------------------------------------------------------------
(***************************************************************************)
(* The steps.                                                              *)
(***************************************************************************)
\* The head of the free list is reused: nothing it was is in use any more.
LEMMA AllocFreeKeeps ==
  ASSUME IInv, NEW r \in open, NEW v \in Values,
         AllocFree(r, v), UNCHANGED <<freed, taken, scopes, runtime>>
  PROVE  IInv'
  <1> DEFINE idx == free_head[r]
             e   == slots[r][idx]
             N   == [n |-> Cardinality(owned) + 1,
                     h |-> [rt |-> birth[r], scope |-> FALSE, gen |-> e.gen, index |-> idx],
                     rt |-> r, birth |-> birth[r], v |-> v]
  <1>1. r \in Runtimes /\ slots[r] \in Seq(Slot) /\ slots \in [Runtimes -> Seq(Slot)]
        /\ free_head \in [Runtimes -> Nat]
        BY DEF IInv, TypeInv
  <1>2. idx \in Fresh(r) /\ idx \in 1 .. Len(slots[r]) /\ idx # FREE_END
        BY DEF AllocFree, IInv, FreeInv, FreeOk, Fresh
  <1>3. e \in Slot /\ e.gen \in 1 .. SLOT_GEN_MAX /\ e.next_free \in Nat
    <2>1. slots[r][idx] \in Slot BY <1>1, <1>2
    <2> QED BY <2>1 DEF Slot
  <1>4. \A i \in owned : From(i, r) /\ i.h.index = idx => i.h.gen < e.gen
        BY <1>2 DEF Fresh
  <1>5. \A i \in owned : From(i, r) => i.h.gen \in Nat
        BY DEF IInv, TypeInv, Issue, Handle
  <1>6. \A i \in owned : From(i, r) /\ i.h.index = idx => i.h.gen # e.gen
        BY <1>3, <1>4, <1>5
  <1>7. /\ owned' = owned \cup {N} /\ N \notin owned /\ N.n \notin freed
        /\ owned' \subseteq Issue
        /\ NumberInv' /\ IssueInv' /\ NeverReissued'
    <2>1. GiveOut(r, v, slot_handle(r, idx, e.gen)) BY DEF AllocFree
    <2>2. idx \in Nat BY <1>2
    <2>3. UNCHANGED <<runtime, freed>> OBVIOUS
    <2> HIDE DEF idx, e, N
    <2>4. N = [n |-> Cardinality(owned) + 1,
               h |-> [rt |-> birth[r], scope |-> FALSE, gen |-> e.gen, index |-> idx],
               rt |-> r, birth |-> birth[r], v |-> v]
          BY DEF N
    <2> QED BY <1>3, <1>6, <2>1, <2>2, <2>3, <2>4, Issued
  <1>8. slots' = [slots EXCEPT ![r] =
                    [slots[r] EXCEPT ![idx] = [e EXCEPT !.v = v, !.used = TRUE]]]
        BY DEF AllocFree
  <1>9. free_head' = [free_head EXCEPT ![r] = e.next_free] BY DEF AllocFree
  <1>10. [e EXCEPT !.v = v, !.used = TRUE] \in Slot BY <1>3 DEF Slot
  <1>11. [slots[r] EXCEPT ![idx] = [e EXCEPT !.v = v, !.used = TRUE]] \in Seq(Slot)
         BY <1>1, <1>2, <1>10
  <1>12. /\ Len(slots'[r]) = Len(slots[r])
         /\ slots'[r][idx].used /\ slots'[r][idx].gen = e.gen /\ slots'[r][idx].v = v
         /\ \A x \in 1 .. Len(slots[r]) : x # idx => slots'[r][x] = slots[r][x]
         BY <1>1, <1>2, <1>3, <1>8 DEF Slot
  <1>13. \A i, s : From(i, s)' <=> From(i, s) BY DEF From, runtime
  <1>14. From(N, r) BY DEF From
  <1>15. TypeInv'
    <2>1. slots' \in [Runtimes -> Seq(Slot)] BY <1>1, <1>8, <1>11
    <2>2. free_head' \in [Runtimes -> Nat] BY <1>1, <1>3, <1>9
    <2> QED BY <1>7, <2>1, <2>2 DEF IInv, TypeInv, runtime
  <1>16. IdInv' /\ ScopeInv' BY DEF IInv, IdInv, ScopeInv, runtime
  <1>17. SlotsOk(r)'
    <2> SUFFICES ASSUME NEW i \in owned', From(i, r)
                 PROVE  /\ i.h.index \in 1 .. Len(slots'[r])
                        /\ i.h.gen \in 1 .. slots'[r][i.h.index].gen
                        /\ i.n \notin freed => /\ slots'[r][i.h.index].used
                                               /\ i.h.gen = slots'[r][i.h.index].gen
                                               /\ i.v = slots'[r][i.h.index].v
                        /\ i.n \in freed /\ i.h.gen = slots'[r][i.h.index].gen
                              => ~slots'[r][i.h.index].used
        BY <1>13 DEF SlotsOk, SlotOf
    <2>1. CASE i = N
      <3>1. e.gen \in 1 .. e.gen BY <1>3, LimitsAssumption
      <3> QED BY <1>2, <1>7, <1>12, <2>1, <3>1
    <2>2. CASE i \in owned
      <3>1. /\ i.h.index \in 1 .. Len(slots[r])
            /\ i.h.gen \in 1 .. slots[r][i.h.index].gen
            /\ i.n \notin freed => /\ slots[r][i.h.index].used
                                   /\ i.h.gen = slots[r][i.h.index].gen
                                   /\ i.v = slots[r][i.h.index].v
            /\ i.n \in freed /\ i.h.gen = slots[r][i.h.index].gen
                  => ~slots[r][i.h.index].used
            BY <2>2 DEF IInv, SlotInv, SlotsOk, SlotOf
      <3>2. CASE i.h.index # idx BY <1>12, <3>1, <3>2
      <3>3. CASE i.h.index = idx
        <4>1. i.h.gen # e.gen BY <1>6, <2>2, <3>3
        <4> QED BY <1>12, <3>1, <3>3, <4>1
      <3> QED BY <3>2, <3>3
    <2> QED BY <1>7, <2>1, <2>2
  <1>18. Fresh(r)' = Fresh(r) \ {idx}
    <2>1. idx \notin Fresh(r)' BY <1>12 DEF Fresh
    <2>2. ASSUME NEW x \in 1 .. Len(slots[r]), x # idx
          PROVE  x \in Fresh(r)' <=> x \in Fresh(r)
      <3>1. N.h.index # x BY <2>2
      <3>2. slots'[r][x] = slots[r][x] BY <1>12, <2>2
      <3> QED BY <1>7, <1>12, <1>13, <2>2, <3>1, <3>2 DEF Fresh
    <2>3. Fresh(r) \subseteq 1 .. Len(slots[r]) /\ Fresh(r)' \subseteq 1 .. Len(slots[r])
          BY <1>12 DEF Fresh
    <2> QED BY <2>1, <2>2, <2>3
  <1>19. FreeOk(r)'
    <2>1. FreeOk(r) BY DEF IInv, FreeInv
    <2>2. free_head'[r] = e.next_free BY <1>1, <1>9
    <2>3. \A x \in Fresh(r)' : slots'[r][x] = slots[r][x]
          BY <1>12, <1>18 DEF Fresh
    <2> HIDE DEF idx
    <2>4. /\ e.next_free \in Fresh(r)' \cup {FREE_END}
          /\ e.next_free # FREE_END =>
                \A y \in Fresh(r) : slots[r][y].next_free = e.next_free => idx = y
          BY <1>2, <1>18, <2>1 DEF FreeOk, idx
    <2>5. \A x \in Fresh(r)' :
            LET next == slots[r][x].next_free
            IN  /\ next \in Fresh(r)' \cup {FREE_END}
                /\ next # FREE_END =>
                     /\ next # e.next_free
                     /\ \A y \in Fresh(r)' : slots[r][y].next_free = next => x = y
          BY <1>2, <1>18, <2>1, <2>4 DEF FreeOk, idx
    <2> QED BY <2>2, <2>3, <2>4, <2>5 DEF FreeOk
  <1>20. ASSUME NEW s \in open, s # r PROVE SlotsOk(s)' /\ FreeOk(s)'
    <2>1. s \in Runtimes BY DEF IInv, TypeInv
    <2>2. slots'[s] = slots[s] /\ free_head'[s] = free_head[s]
          BY <1>1, <1>8, <1>9, <1>20, <2>1
    <2>3. \A i \in owned' : From(i, s) => i \in owned
          BY <1>7, <1>20 DEF From
    <2>4. birth'[s] = birth[s] /\ owned \subseteq owned' /\ freed' = freed
          BY <1>7 DEF runtime
    <2> QED BY <2>2, <2>3, <2>4, Elsewhere
  <1>21. SlotInv' /\ FreeInv'
         BY <1>17, <1>19, <1>20 DEF SlotInv, FreeInv, runtime
  <1> QED BY <1>7, <1>15, <1>16, <1>21 DEF IInv

\* A slot past the last one: no handle names it yet.
LEMMA AllocNewKeeps ==
  ASSUME IInv, NEW r \in open, NEW v \in Values,
         AllocNew(r, v), UNCHANGED <<freed, taken, scopes, runtime>>
  PROVE  IInv'
  <1> DEFINE idx == Len(slots[r]) + 1
             e   == [v |-> v, gen |-> 1, next_free |-> 0, used |-> TRUE]
             N   == [n |-> Cardinality(owned) + 1,
                     h |-> [rt |-> birth[r], scope |-> FALSE, gen |-> 1, index |-> idx],
                     rt |-> r, birth |-> birth[r], v |-> v]
  <1>1. r \in Runtimes /\ slots[r] \in Seq(Slot) /\ slots \in [Runtimes -> Seq(Slot)]
        /\ Len(slots[r]) \in Nat
        BY DEF IInv, TypeInv
  <1>2. 1 \in 1 .. SLOT_GEN_MAX BY LimitsAssumption
  <1>3. e \in Slot BY <1>2 DEF Slot
  <1>4. \A i \in owned : From(i, r) => i.h.index \in 1 .. Len(slots[r])
        BY DEF IInv, SlotInv, SlotsOk
  <1>5. idx \in Nat /\ idx \notin 1 .. Len(slots[r]) BY <1>1
  <1>6. \A i \in owned : From(i, r) => i.h.index # idx BY <1>4, <1>5
  <1>7. /\ owned' = owned \cup {N} /\ N \notin owned /\ N.n \notin freed
        /\ owned' \subseteq Issue
        /\ NumberInv' /\ IssueInv' /\ NeverReissued'
    <2>1. GiveOut(r, v, slot_handle(r, idx, 1)) BY DEF AllocNew
    <2>2. UNCHANGED <<runtime, freed>> OBVIOUS
    <2> HIDE DEF idx, N
    <2>3. N = [n |-> Cardinality(owned) + 1,
               h |-> [rt |-> birth[r], scope |-> FALSE, gen |-> 1, index |-> idx],
               rt |-> r, birth |-> birth[r], v |-> v]
          BY DEF N
    <2> QED BY <1>2, <1>5, <1>6, <2>1, <2>2, <2>3, Issued
  <1>8. slots' = [slots EXCEPT ![r] = Append(slots[r], e)] /\ free_head' = free_head
        BY DEF AllocNew
  <1>9. /\ slots'[r] = Append(slots[r], e) /\ slots'[r] \in Seq(Slot)
        /\ Len(slots'[r]) = idx /\ slots'[r][idx] = e
        /\ \A x \in 1 .. Len(slots[r]) : slots'[r][x] = slots[r][x]
    <2> HIDE DEF e
    <2> QED BY <1>1, <1>3, <1>8
  <1>10. \A i, s : From(i, s)' <=> From(i, s) BY DEF From, runtime
  <1>11. TypeInv'
    <2>1. slots' \in [Runtimes -> Seq(Slot)] BY <1>1, <1>8, <1>9
    <2> QED BY <1>7, <1>8, <2>1 DEF IInv, TypeInv, runtime
  <1>12. IdInv' /\ ScopeInv' BY DEF IInv, IdInv, ScopeInv, runtime
  <1>13. SlotsOk(r)'
    <2> SUFFICES ASSUME NEW i \in owned', From(i, r)
                 PROVE  /\ i.h.index \in 1 .. Len(slots'[r])
                        /\ i.h.gen \in 1 .. slots'[r][i.h.index].gen
                        /\ i.n \notin freed => /\ slots'[r][i.h.index].used
                                               /\ i.h.gen = slots'[r][i.h.index].gen
                                               /\ i.v = slots'[r][i.h.index].v
                        /\ i.n \in freed /\ i.h.gen = slots'[r][i.h.index].gen
                              => ~slots'[r][i.h.index].used
        BY <1>10 DEF SlotsOk, SlotOf
    <2>1. CASE i = N
      <3>1. idx \in 1 .. idx BY <1>1
      <3> QED BY <1>7, <1>9, <2>1, <3>1
    <2>2. CASE i \in owned
      <3>1. /\ i.h.index \in 1 .. Len(slots[r])
            /\ i.h.gen \in 1 .. slots[r][i.h.index].gen
            /\ i.n \notin freed => /\ slots[r][i.h.index].used
                                   /\ i.h.gen = slots[r][i.h.index].gen
                                   /\ i.v = slots[r][i.h.index].v
            /\ i.n \in freed /\ i.h.gen = slots[r][i.h.index].gen
                  => ~slots[r][i.h.index].used
            BY <2>2 DEF IInv, SlotInv, SlotsOk, SlotOf
      <3>2. i.h.index \in 1 .. idx BY <1>1, <3>1
      <3> QED BY <1>9, <3>1, <3>2
    <2> QED BY <1>7, <2>1, <2>2
  <1>14. Fresh(r)' = Fresh(r)
    <2>1. 1 .. idx = 1 .. Len(slots[r]) \cup {idx} BY <1>1
    <2>2. idx \notin Fresh(r)' /\ idx \notin Fresh(r) BY <1>5, <1>9 DEF Fresh
    <2>3. ASSUME NEW x \in 1 .. Len(slots[r])
          PROVE  x \in Fresh(r)' <=> x \in Fresh(r)
      <3>1. N.h.index # x BY <1>5
      <3>2. slots'[r][x] = slots[r][x] /\ x \in 1 .. idx BY <1>9, <2>1
      <3> QED BY <1>7, <1>9, <1>10, <3>1, <3>2 DEF Fresh
    <2>4. Fresh(r) \subseteq 1 .. Len(slots[r]) /\ Fresh(r)' \subseteq 1 .. idx
          BY <1>9 DEF Fresh
    <2> QED BY <2>1, <2>2, <2>3, <2>4
  <1>15. FreeOk(r)'
    <2>1. FreeOk(r) BY DEF IInv, FreeInv
    <2>2. \A x \in Fresh(r)' : slots'[r][x] = slots[r][x] BY <1>9, <1>14 DEF Fresh
    <2>3. /\ free_head[r] \in Fresh(r)' \cup {FREE_END}
          /\ \A x \in Fresh(r)' :
                LET next == slots[r][x].next_free
                IN  /\ next \in Fresh(r)' \cup {FREE_END}
                    /\ next # FREE_END =>
                         /\ next # free_head[r]
                         /\ \A y \in Fresh(r)' : slots[r][y].next_free = next => x = y
          BY <1>14, <2>1 DEF FreeOk
    <2> QED BY <1>8, <2>2, <2>3 DEF FreeOk
  <1>16. ASSUME NEW s \in open, s # r PROVE SlotsOk(s)' /\ FreeOk(s)'
    <2>1. s \in Runtimes BY DEF IInv, TypeInv
    <2>2. slots'[s] = slots[s] /\ free_head'[s] = free_head[s]
          BY <1>1, <1>8, <1>16, <2>1
    <2>3. \A i \in owned' : From(i, s) => i \in owned
          BY <1>7, <1>16 DEF From
    <2>4. birth'[s] = birth[s] /\ owned \subseteq owned' /\ freed' = freed
          BY <1>7 DEF runtime
    <2> QED BY <2>2, <2>3, <2>4, Elsewhere
  <1>17. SlotInv' /\ FreeInv'
         BY <1>13, <1>15, <1>16 DEF SlotInv, FreeInv, runtime
  <1> QED BY <1>7, <1>11, <1>12, <1>17 DEF IInv

\* A released slot keeps its generation and leaves use, or takes the next one,
\* which no handle carries, and heads the free list.
LEMMA FreeKeeps ==
  ASSUME IInv, NEW r \in Runtimes, NEW h \in Held, Free(r, h)
  PROVE  IInv'
  <1> DEFINE idx == h.index
             e   == slots[r][idx]
  <1>1. /\ r \in open /\ slots[r] \in Seq(Slot) /\ slots \in [Runtimes -> Seq(Slot)]
        /\ free_head \in [Runtimes -> Nat] /\ Undefined \in Values
        /\ UNCHANGED <<open, opened, next_id, rt_id, birth, owned, taken, scopes>>
        BY DEF IInv, TypeInv, Free, Values, runtime, callback
  <1>2. PICK i0 \in owned : i0.h = h
    BY DEF Held, Free, Resolves, IInv, ScopeInv
  <1>3. From(i0, r) /\ i0.n \notin freed
        BY <1>1, <1>2, InvExact DEF OwnedExact, ResolvesExactly, Free
  <1>4. idx \in 1 .. Len(slots[r]) /\ e.used /\ h.gen = e.gen
        BY <1>1, <1>2, <1>3 DEF IInv, SlotInv, SlotsOk, SlotOf
  <1>5. e \in Slot /\ e.gen \in 1 .. SLOT_GEN_MAX /\ e.gen \in Nat
    <2>1. slots[r][idx] \in Slot BY <1>1, <1>4
    <2> QED BY <2>1, LimitsAssumption DEF Slot
  <1>6. freed' = freed \cup {i0.n}
    <2>1. {j \in owned : j.rt = r /\ j.birth = birth[r] /\ j.h = h} = {i0}
          BY <1>2, <1>3 DEF IInv, NeverReissued, From
    <2> QED BY <2>1 DEF Free
  <1>7. \A i \in owned : i # i0 => i.n # i0.n BY DEF IInv, NumberInv
  <1>8. ASSUME NEW i \in owned, From(i, r), i.h.index = idx, i.h.gen = e.gen
        PROVE  i = i0
    <2>1. i.h \in Handle /\ h \in Handle BY <1>2 DEF IInv, TypeInv, Issue
    <2>2. i.h.rt = birth[r] /\ h.rt = birth[r] /\ ~i.h.scope /\ ~h.scope
          BY <1>2, <1>3, <1>8 DEF IInv, IssueInv, From
    <2>3. i.h = h BY <1>4, <1>8, <2>1, <2>2 DEF Handle
    <2> QED BY <1>2, <2>3 DEF IInv, NeverReissued
  <1>9. \A i, s : From(i, s)' <=> From(i, s) BY <1>1 DEF From
  <1>10. PICK f \in Slot :
            /\ slots' = [slots EXCEPT ![r] = [slots[r] EXCEPT ![idx] = f]]
            /\ ~f.used
            /\ \/ f.gen = e.gen /\ free_head' = free_head
               \/ /\ f.gen = e.gen + 1 /\ f.next_free = free_head[r]
                  /\ free_head' = [free_head EXCEPT ![r] = idx]
    <2>1. CASE e.gen >= SLOT_GEN_MAX
      <3> DEFINE f == [e EXCEPT !.v = Undefined, !.used = FALSE]
      <3>1. f \in Slot /\ ~f.used /\ f.gen = e.gen BY <1>1, <1>5 DEF Slot
      <3>2. slots' = [slots EXCEPT ![r] = [slots[r] EXCEPT ![idx] = f]]
            /\ free_head' = free_head
            BY <2>1 DEF Free, Release
      <3> QED BY <3>1, <3>2
    <2>2. CASE ~(e.gen >= SLOT_GEN_MAX)
      <3> DEFINE f == [v |-> Undefined, gen |-> e.gen + 1,
                       next_free |-> free_head[r], used |-> FALSE]
      <3>1. SLOT_GEN_MAX \in Nat BY LimitsAssumption
      <3>2. e.gen + 1 \in 1 .. SLOT_GEN_MAX BY <1>5, <2>2, <3>1
      <3>3. free_head[r] \in Nat BY <1>1
      <3>4. f \in Slot /\ ~f.used /\ f.gen = e.gen + 1 /\ f.next_free = free_head[r]
            BY <1>1, <3>2, <3>3 DEF Slot
      <3>5. slots' = [slots EXCEPT ![r] = [slots[r] EXCEPT ![idx] = f]]
            /\ free_head' = [free_head EXCEPT ![r] = idx]
            BY <2>2 DEF Free, Release
      <3> QED BY <3>4, <3>5
    <2> QED BY <2>1, <2>2
  <1>11. /\ slots' \in [Runtimes -> Seq(Slot)]
         /\ Len(slots'[r]) = Len(slots[r]) /\ slots'[r][idx] = f
         /\ \A x \in 1 .. Len(slots[r]) : x # idx => slots'[r][x] = slots[r][x]
         /\ \A s \in Runtimes : s # r => slots'[s] = slots[s]
    <2> HIDE DEF idx, e
    <2> QED BY <1>1, <1>4, <1>10, SlotSet
  <1>12. /\ f.gen \in Nat /\ e.gen <= f.gen
         /\ free_head' \in [Runtimes -> Nat]
         /\ \A s \in Runtimes : s # r => free_head'[s] = free_head[s]
    <2>1. idx \in Nat BY <1>4
    <2> HIDE DEF idx, e
    <2> QED BY <1>1, <1>5, <1>10, <2>1
  <1>13. TypeInv' BY <1>1, <1>11, <1>12 DEF IInv, TypeInv
  <1>14. IdInv' /\ IssueInv' /\ NeverReissued' /\ ScopeInv'
         BY <1>1 DEF IInv, IdInv, IssueInv, NeverReissued, ScopeInv
  <1>15. NumberInv' BY <1>1, <1>6 DEF IInv, NumberInv
  <1>16. SlotsOk(r)'
    <2> SUFFICES ASSUME NEW i \in owned, From(i, r)
                 PROVE  /\ i.h.index \in 1 .. Len(slots'[r])
                        /\ i.h.gen \in 1 .. slots'[r][i.h.index].gen
                        /\ i.n \notin freed' => /\ slots'[r][i.h.index].used
                                                /\ i.h.gen = slots'[r][i.h.index].gen
                                                /\ i.v = slots'[r][i.h.index].v
                        /\ i.n \in freed' /\ i.h.gen = slots'[r][i.h.index].gen
                              => ~slots'[r][i.h.index].used
        BY <1>1, <1>9 DEF SlotsOk, SlotOf
    <2>1. /\ i.h.index \in 1 .. Len(slots[r])
          /\ i.h.gen \in 1 .. slots[r][i.h.index].gen
          /\ i.n \notin freed => /\ slots[r][i.h.index].used
                                 /\ i.h.gen = slots[r][i.h.index].gen
                                 /\ i.v = slots[r][i.h.index].v
          /\ i.n \in freed /\ i.h.gen = slots[r][i.h.index].gen
                => ~slots[r][i.h.index].used
          BY <1>1 DEF IInv, SlotInv, SlotsOk, SlotOf
    <2>2. CASE i.h.index # idx
      <3>1. i # i0 BY <1>2, <2>2
      <3>2. i.n \in freed' <=> i.n \in freed BY <1>6, <1>7, <3>1
      <3> QED BY <1>11, <2>1, <2>2, <3>2
    <2>3. CASE i.h.index = idx
      <3>1. i.n \in freed'
        <4>1. CASE i.n \in freed BY <1>6, <4>1
        <4>2. CASE i.n \notin freed
          <5>1. i = i0 BY <1>8, <2>1, <2>3, <4>2
          <5> QED BY <1>6, <5>1
        <4> QED BY <4>1, <4>2
      <3>2. i.h.gen \in 1 .. f.gen
        <4>1. i.h.gen \in 1 .. e.gen BY <2>1, <2>3
        <4> HIDE DEF e
        <4> QED BY <1>5, <1>12, <4>1
      <3> QED BY <1>10, <1>11, <2>1, <2>3, <3>1, <3>2
    <2> QED BY <2>2, <2>3
  <1>17. idx \notin Fresh(r) BY <1>4 DEF Fresh
  <1>18. \A x \in 1 .. Len(slots[r]) : x # idx => (x \in Fresh(r)' <=> x \in Fresh(r))
         BY <1>1, <1>9, <1>11 DEF Fresh
  <1>19. Fresh(r) \subseteq 1 .. Len(slots[r]) /\ Fresh(r)' \subseteq 1 .. Len(slots[r])
         BY <1>11 DEF Fresh
  <1>20. FreeOk(r) BY <1>1 DEF IInv, FreeInv
  <1>21. FreeOk(r)'
    <2>1. CASE f.gen = e.gen /\ free_head' = free_head
      <3>1. idx \notin Fresh(r)'
        <4>1. i0.h.index = idx /\ i0.h.gen = f.gen /\ From(i0, r)'
              BY <1>2, <1>3, <1>4, <1>9, <2>1
        <4>2. ~(i0.h.gen < f.gen) BY <1>12, <4>1
        <4> QED BY <1>1, <1>11, <4>1, <4>2 DEF Fresh
      <3>2. Fresh(r)' = Fresh(r)
        <4> HIDE DEF idx
        <4>1. \A x : x \in Fresh(r)' <=> x \in Fresh(r) BY <1>17, <1>18, <1>19, <3>1
        <4> QED BY <4>1
      <3>3. \A x \in Fresh(r)' : slots'[r][x] = slots[r][x]
            BY <1>11, <1>17, <1>19, <3>2
      <3>4. /\ free_head[r] \in Fresh(r)' \cup {FREE_END}
            /\ \A x \in Fresh(r)' :
                  LET next == slots[r][x].next_free
                  IN  /\ next \in Fresh(r)' \cup {FREE_END}
                      /\ next # FREE_END =>
                           /\ next # free_head[r]
                           /\ \A y \in Fresh(r)' : slots[r][y].next_free = next => x = y
            BY <1>20, <3>2 DEF FreeOk
      <3> QED BY <2>1, <3>3, <3>4 DEF FreeOk
    <2>2. CASE /\ f.gen = e.gen + 1 /\ f.next_free = free_head[r]
               /\ free_head' = [free_head EXCEPT ![r] = idx]
      <3>1. idx \in Fresh(r)'
        <4>1. ASSUME NEW i \in owned, From(i, r), i.h.index = idx
              PROVE  i.h.gen < f.gen
          <5>1. i.h.gen \in 1 .. e.gen
                BY <1>1, <4>1 DEF IInv, SlotInv, SlotsOk, SlotOf
          <5> HIDE DEF e
          <5> QED BY <1>5, <2>2, <5>1
        <4> QED BY <1>1, <1>4, <1>9, <1>10, <1>11, <4>1 DEF Fresh
      <3>2. Fresh(r)' = Fresh(r) \cup {idx} BY <1>18, <1>19, <3>1
      <3>3. /\ slots'[r][idx].next_free = free_head[r] /\ free_head'[r] = idx
            /\ \A x \in Fresh(r) : slots'[r][x] = slots[r][x]
            BY <1>1, <1>11, <1>17, <1>19, <2>2
      <3> HIDE DEF idx
      <3>4. ASSUME NEW x \in Fresh(r)'
            PROVE  LET next == slots'[r][x].next_free
                   IN  /\ next \in Fresh(r)' \cup {FREE_END}
                       /\ next # FREE_END =>
                            /\ next # idx
                            /\ \A y \in Fresh(r)' : slots'[r][y].next_free = next => x = y
        <4>1. CASE x = idx BY <1>17, <1>20, <3>2, <3>3, <4>1 DEF FreeOk
        <4>2. CASE x \in Fresh(r)
          <5>1. /\ slots'[r][x].next_free \in Fresh(r) \cup {FREE_END}
                /\ slots'[r][x].next_free # FREE_END =>
                     /\ slots'[r][x].next_free # free_head[r]
                     /\ \A y \in Fresh(r) :
                           slots[r][y].next_free = slots'[r][x].next_free => x = y
                BY <1>20, <3>3, <4>2 DEF FreeOk
          <5> QED BY <1>17, <3>2, <3>3, <5>1
        <4> QED BY <3>2, <4>1, <4>2
      <3> QED BY <3>1, <3>3, <3>4 DEF FreeOk
    <2> QED BY <1>10, <2>1, <2>2
  <1>22. ASSUME NEW s \in open, s # r PROVE SlotsOk(s)' /\ FreeOk(s)'
    <2>1. s \in Runtimes BY DEF IInv, TypeInv
    <2>2. slots'[s] = slots[s] /\ free_head'[s] = free_head[s]
          BY <1>11, <1>12, <1>22, <2>1
    <2>3. \A i \in owned : From(i, s) => (i.n \in freed' <=> i.n \in freed)
      <3>1. ASSUME NEW i \in owned, From(i, s) PROVE i # i0
            BY <1>3, <1>22, <3>1 DEF From
      <3> QED BY <1>6, <1>7, <3>1
    <2> QED BY <1>1, <2>2, <2>3, Elsewhere
  <1>23. SlotInv' /\ FreeInv' BY <1>1, <1>16, <1>21, <1>22 DEF SlotInv, FreeInv
  <1> QED BY <1>13, <1>14, <1>15, <1>23 DEF IInv

\* A new runtime has an id that no handle carries, and an empty registry.
LEMMA OpenKeeps ==
  ASSUME IInv, NEW r \in Runtimes, Open(r)
  PROVE  IInv'
  <1>1. /\ r \notin open /\ open \subseteq Runtimes /\ open' = open \cup {r}
        /\ opened \in Nat /\ opened < MaxOpened /\ MaxOpened \in 0 .. RT_ID_MASK
        /\ RT_ID_MASK \in Nat /\ opened' = opened + 1 /\ next_id = opened + 1
        /\ UNCHANGED <<owned, freed, taken, scopes>>
        BY OpenedAssumption, LimitsAssumption DEF Open, IInv, TypeInv, callback
  <1>2. next_id % (RT_ID_MASK + 1) = opened + 1 /\ opened + 1 # 0
    <2>1. next_id \in 0 .. RT_ID_MASK BY <1>1
    <2> QED BY <1>1, <2>1, ModSmall
  <1>3. rt_id' = [rt_id EXCEPT ![r] = opened + 1] /\ next_id' = opened' + 1
    <2>1. /\ rt_id' = [rt_id EXCEPT ![r] = opened + 1]
          /\ next_id' = next_id + 1
          BY <1>2 DEF Open
    <2> QED BY <1>1, <2>1
  <1>4. /\ birth' = [birth EXCEPT ![r] = opened + 1]
        /\ slots' = [slots EXCEPT ![r] = <<>>]
        /\ free_head' = [free_head EXCEPT ![r] = FREE_END]
        BY DEF Open, EmptyRegistry
  <1>5. /\ rt_id'[r] = opened + 1 /\ birth'[r] = opened + 1
        /\ slots'[r] = <<>> /\ free_head'[r] = FREE_END
        /\ \A s \in open : /\ rt_id'[s] = rt_id[s] /\ birth'[s] = birth[s]
                           /\ slots'[s] = slots[s] /\ free_head'[s] = free_head[s]
        BY <1>1, <1>3, <1>4 DEF IInv, TypeInv
  <1>6. TypeInv'
    <2>1. opened' \in 0 .. MaxOpened /\ opened + 1 \in Nat BY <1>1
    <2>2. <<>> \in Seq(Slot) /\ FREE_END \in Nat BY DEF FREE_END
    <2> QED BY <1>1, <1>3, <1>4, <2>1, <2>2 DEF IInv, TypeInv
  <1>7. \A i \in owned : i.birth \in 1 .. opened BY DEF IInv, IssueInv
  <1>8. opened + 1 \notin 1 .. opened /\ 1 .. opened \subseteq 1 .. opened'
        /\ opened + 1 \in 1 .. opened'
        BY <1>1
  <1>9. IdInv' BY <1>1, <1>5, <1>8 DEF IInv, IdInv
  <1>10. IssueInv' BY <1>1, <1>5, <1>7, <1>8 DEF IInv, IssueInv
  <1>11. NumberInv' /\ NeverReissued' /\ ScopeInv'
         BY <1>1 DEF IInv, NumberInv, NeverReissued, ScopeInv
  <1>12. SlotsOk(r)' BY <1>1, <1>5, <1>7, <1>8 DEF SlotsOk, From
  <1>13. FreeOk(r)'
    <2>1. 1 .. Len(slots'[r]) = {} BY <1>5
    <2> QED BY <1>5, <2>1 DEF FreeOk, Fresh
  <1>14. ASSUME NEW s \in open PROVE SlotsOk(s)' /\ FreeOk(s)'
         BY <1>1, <1>5, <1>14, Elsewhere
  <1>15. SlotInv' /\ FreeInv' BY <1>1, <1>12, <1>13, <1>14 DEF SlotInv, FreeInv
  <1> QED BY <1>6, <1>9, <1>10, <1>11, <1>15 DEF IInv

\* A closed runtime is none that a handle could mean.
LEMMA CloseKeeps ==
  ASSUME IInv, NEW r \in Runtimes, Close(r)
  PROVE  IInv'
  <1>1. /\ open \subseteq Runtimes /\ open' = open \ {r}
        /\ UNCHANGED <<next_id, opened, owned, freed, taken, scopes>>
        BY DEF Close, IInv, TypeInv, callback
  <1>2. /\ rt_id' = [rt_id EXCEPT ![r] = 0] /\ birth' = [birth EXCEPT ![r] = 0]
        /\ slots' = [slots EXCEPT ![r] = <<>>]
        /\ free_head' = [free_head EXCEPT ![r] = FREE_END]
        BY DEF Close, EmptyRegistry
  <1>3. \A s \in open' : /\ s \in open
                         /\ rt_id'[s] = rt_id[s] /\ birth'[s] = birth[s]
                         /\ slots'[s] = slots[s] /\ free_head'[s] = free_head[s]
        BY <1>1, <1>2 DEF IInv, TypeInv
  <1>4. TypeInv'
    <2>1. <<>> \in Seq(Slot) /\ FREE_END \in Nat BY DEF FREE_END
    <2> QED BY <1>1, <1>2, <2>1 DEF IInv, TypeInv
  <1>5. IdInv' /\ IssueInv' BY <1>1, <1>3 DEF IInv, IdInv, IssueInv
  <1>6. NumberInv' /\ NeverReissued' /\ ScopeInv'
        BY <1>1 DEF IInv, NumberInv, NeverReissued, ScopeInv
  <1>7. ASSUME NEW s \in open' PROVE SlotsOk(s)' /\ FreeOk(s)'
        BY <1>1, <1>3, <1>7, Elsewhere
  <1>8. SlotInv' /\ FreeInv' BY <1>7 DEF SlotInv, FreeInv
  <1> QED BY <1>4, <1>5, <1>6, <1>8 DEF IInv

\* The values of a call are values.
LEMMA CallTypes == \A values \in CallValues : values \in Seq(Values)
  <1> SUFFICES ASSUME NEW n \in 2 .. 2 + MaxArgs, NEW values \in [1 .. n -> Values]
               PROVE  values \in Seq(Values)
      BY DEF CallValues
  <1>1. n \in Nat BY LimitsAssumption
  <1> QED BY <1>1

\* Entering, leaving and reading a call touch no registry.
LEMMA CallbackKeeps ==
  ASSUME IInv, NEW r \in Runtimes, Enter(r) \/ Return(r) \/ Take(r)
  PROVE  IInv'
  <1>1. UNCHANGED <<open, opened, next_id, rt_id, birth, slots, free_head, owned, freed>>
        BY DEF Enter, Return, Take, registry, runtime
  <1>2. scopes' \in [Runtimes -> Seq(Seq(Values))]
    <2>1. scopes \in [Runtimes -> Seq(Seq(Values))] /\ scopes[r] \in Seq(Seq(Values))
          BY DEF IInv, TypeInv
    <2>2. CASE Enter(r)
      <3>1. PICK values \in CallValues : scopes' = [scopes EXCEPT ![r] = Append(@, values)]
            BY <2>2 DEF Enter
      <3>2. Append(scopes[r], values) \in Seq(Seq(Values)) BY <2>1, CallTypes
      <3> QED BY <2>1, <3>1, <3>2
    <2>3. CASE Return(r)
      <3>1. scopes[r] # <<>> /\ scopes' = [scopes EXCEPT ![r] = SubSeq(@, 1, Len(@) - 1)]
            BY <2>3 DEF Return
      <3>2. SubSeq(scopes[r], 1, Len(scopes[r]) - 1) \in Seq(Seq(Values)) BY <2>1, <3>1
      <3> QED BY <2>1, <3>1, <3>2
    <2>4. CASE Take(r) BY <2>1, <2>4 DEF Take, callback
    <2> QED BY <2>2, <2>3, <2>4
  <1>3. ScopeInv'
    <2>1. CASE UNCHANGED taken BY <2>1 DEF IInv, ScopeInv
    <2>2. CASE Take(r)
      <3>1. PICK d \in 1 .. Len(scopes[r]), idx \in 0 .. 1 + MaxArgs :
              taken' = taken \cup
                {[h |-> scope_handle(r, idx), rt |-> r, birth |-> birth[r],
                  call |-> calls[r][d], v |-> ScopeValue(r, d, idx)]}
            BY <2>2 DEF Take
      <3>2. rt_id[r] \in Nat /\ idx \in Nat BY LimitsAssumption DEF IInv, TypeInv
      <3>3. scope_handle(r, idx) \in Handle /\ scope_handle(r, idx).scope
            BY <3>2 DEF scope_handle, Handle
      <3> QED BY <3>1, <3>3 DEF IInv, ScopeInv
    <2> QED BY <2>1, <2>2 DEF Enter, Return
  <1>4. TypeInv' BY <1>1, <1>2 DEF IInv, TypeInv
  <1>5. IdInv' /\ NumberInv' /\ IssueInv' /\ NeverReissued'
        BY <1>1 DEF IInv, IdInv, NumberInv, IssueInv, NeverReissued
  <1>6. \A i, s : From(i, s)' <=> From(i, s) BY <1>1 DEF From
  <1>7. ASSUME NEW s \in open PROVE SlotsOk(s)' /\ FreeOk(s)'
        BY <1>1, Elsewhere
  <1>8. SlotInv' /\ FreeInv' BY <1>1, <1>7 DEF SlotInv, FreeInv
  <1> QED BY <1>3, <1>4, <1>5, <1>8 DEF IInv

\* What a handle resolves to is a value.
LEMMA ValueType ==
  ASSUME IInv, NEW r \in Runtimes, NEW h \in Held, NEW d \in Contexts(r),
         ResolvesIn(r, d, h)
  PROVE  ValueIn(r, d, h) \in Values
  <1>1. CASE h.scope
    <2>1. h.index \in Nat
          BY <1>1 DEF Held, IInv, ScopeInv, IssueInv, Handle
    <2>2. d \in 1 .. Len(scopes[r]) /\ scopes[r] \in Seq(Seq(Values))
          BY <1>1 DEF ResolvesIn, Resolves, Contexts, IInv, TypeInv
    <2>3. scopes[r][d] \in Seq(Values) BY <2>2
    <2>4. CASE h.index < Len(scopes[r][d])
      <3>1. h.index + 1 \in 1 .. Len(scopes[r][d]) BY <2>1, <2>3, <2>4
      <3>2. scopes[r][d][h.index + 1] \in Values BY <2>3, <3>1
      <3> QED BY <1>1, <2>4, <3>2 DEF ValueIn, ScopeValue
    <2>5. CASE ~(h.index < Len(scopes[r][d]))
      BY <1>1, <2>5 DEF ValueIn, ScopeValue, Values
    <2> QED BY <2>4, <2>5
  <1>2. CASE ~h.scope
    <2>1. h.index \in 1 .. Len(slots[r]) /\ slots[r] \in Seq(Slot)
          BY <1>2 DEF ResolvesIn, Resolves, IInv, TypeInv
    <2>2. slots[r][h.index] \in Slot BY <2>1
    <2> QED BY <1>2, <2>2 DEF ValueIn, slot_get, Slot
  <1> QED BY <1>1, <1>2

\* A value is stored.
LEMMA AllocKeeps ==
  ASSUME IInv, NEW r \in open, NEW v \in Values, slot_alloc(r, v)
  PROVE  IInv'
  <1>1. UNCHANGED <<freed, taken, scopes, runtime>> BY DEF slot_alloc, callback
  <1>2. CASE AllocFree(r, v) BY <1>1, <1>2, AllocFreeKeeps
  <1>3. CASE AllocNew(r, v) BY <1>1, <1>3, AllocNewKeeps
  <1> QED BY <1>2, <1>3 DEF slot_alloc

\* Every step keeps the invariant.
LEMMA NextInv == IInv /\ [Next]_vars => IInv'
  <1> SUFFICES ASSUME IInv, [Next]_vars PROVE IInv' OBVIOUS
  <1>1. ASSUME NEW r \in Runtimes, Open(r) PROVE IInv' BY <1>1, OpenKeeps
  <1>2. ASSUME NEW r \in Runtimes, Close(r) PROVE IInv' BY <1>2, CloseKeeps
  <1>3. ASSUME NEW r \in Runtimes, Store(r) PROVE IInv' BY <1>3, AllocKeeps DEF Store
  <1>4. ASSUME NEW r \in Runtimes, NEW h \in Held, Persist(r, h) PROVE IInv'
    <2>1. PICK d \in Contexts(r) : ResolvesIn(r, d, h) /\ slot_alloc(r, ValueIn(r, d, h))
          BY <1>4 DEF Persist
    <2>2. ValueIn(r, d, h) \in Values BY <2>1, ValueType
    <2> QED BY <1>4, <2>1, <2>2, AllocKeeps DEF Persist
  <1>5. ASSUME NEW r \in Runtimes, NEW h \in Held, Free(r, h) PROVE IInv'
        BY <1>5, FreeKeeps
  <1>6. ASSUME NEW r \in Runtimes, Enter(r) \/ Return(r) \/ Take(r) PROVE IInv'
        BY <1>6, CallbackKeeps
  <1>7. CASE UNCHANGED vars
        BY <1>7, Untouched DEF vars, ivars, registry, runtime, callback
  <1> QED BY <1>1, <1>2, <1>3, <1>4, <1>5, <1>6, <1>7 DEF Next

\* A registry handle is given out once, and resolves to its own value until it
\* is freed and to nothing from then on (slot_alloc, slot_entry, slot_release).
THEOREM HandlesExact == Spec => []OwnedExact
  <1>1. Spec => []IInv BY InitInv, NextInv, PTL DEF Spec
  <1> QED BY <1>1, InvExact, PTL

---------------------------------------------------------------------------
(***************************************************************************)
(* The handles of calls.                                                   *)
(***************************************************************************)
\* Every running callback has a scope and a number of its own.
CallInv ==
    /\ rt_id = birth
    /\ entered \in Nat
    /\ calls \in [Runtimes -> Seq(Nat)]
    /\ \A r \in Runtimes :
          /\ Len(calls[r]) = Len(scopes[r])
          /\ \A d \in 1 .. Len(scopes[r]) : calls[r][d] <= entered
          /\ \A d1, d2 \in 1 .. Len(scopes[r]) : calls[r][d1] = calls[r][d2] => d1 = d2

\* A handle of a call, as long as the call runs.
TakenInv ==
    \A t \in taken :
        /\ t.rt \in Runtimes /\ t.h.scope /\ t.h.rt = t.birth
        /\ t.birth \in 1 .. opened /\ t.call \in Nat /\ t.call <= entered
        /\ \A d \in 1 .. Len(scopes[t.rt]) :
              From(t, t.rt) /\ calls[t.rt][d] = t.call =>
                  ScopeValue(t.rt, d, t.h.index) = t.v

SInv == IInv /\ CallInv /\ TakenInv

\* The invariant implies the property: the runtime's id is the one in the handle.
LEMMA InvScoped == SInv => ScopedRight
  <1> SUFFICES ASSUME SInv, NEW t \in taken, NEW d \in 1 .. Len(scopes[t.rt]),
                      From(t, t.rt), calls[t.rt][d] = t.call
               PROVE  ResolvesIn(t.rt, d, t.h) /\ ValueIn(t.rt, d, t.h) = t.v
      BY DEF ScopedRight
  <1>1. /\ t.h.scope /\ t.h.rt = t.birth /\ ScopeValue(t.rt, d, t.h.index) = t.v
        /\ rt_id = birth /\ t.birth = birth[t.rt] /\ d # 0
        BY DEF SInv, TakenInv, CallInv, From
  <1> QED BY <1>1 DEF ResolvesIn, ValueIn

\* No callback runs at first.
LEMMA InitScoped == Init => SInv
  <1> SUFFICES ASSUME Init PROVE SInv OBVIOUS
  <1>1. CallInv BY DEF Init, CallInv
  <1>2. TakenInv BY DEF Init, TakenInv
  <1> QED BY <1>1, <1>2, InitInv DEF SInv

\* A step that leaves callbacks and runtimes alone keeps their invariant.
LEMMA OutsideCalls ==
  ASSUME SInv, UNCHANGED <<rt_id, birth, opened, scopes, calls, entered, taken>>
  PROVE  CallInv' /\ TakenInv'
  <1>1. CallInv' BY DEF SInv, CallInv
  <1>2. TakenInv' BY DEF SInv, TakenInv, From, ScopeValue
  <1> QED BY <1>1, <1>2

\* A runtime opened now is not the one an earlier handle came from.
LEMMA OpenScoped ==
  ASSUME SInv, NEW r \in Runtimes, Open(r) \/ Close(r)
  PROVE  CallInv' /\ TakenInv'
  <1>1. /\ UNCHANGED <<scopes, calls, entered, taken>>
        /\ opened \in Nat /\ opened' \in Nat /\ opened <= opened'
        /\ birth \in [Runtimes -> Nat]
    <2>1. opened \in Nat /\ birth \in [Runtimes -> Nat]
          BY OpenedAssumption DEF SInv, IInv, TypeInv
    <2>2. opened' \in {opened, opened + 1} BY DEF Open, Close
    <2>3. UNCHANGED <<scopes, calls, entered, taken>> BY DEF Open, Close, callback
    <2> QED BY <2>1, <2>2, <2>3
  <1>2. /\ rt_id' = birth'
        /\ birth' \in [Runtimes -> Nat]
        /\ birth'[r] \notin 1 .. opened
        /\ \A s \in Runtimes : s # r => birth'[s] = birth[s]
    <2>1. rt_id = birth BY DEF SInv, CallInv
    <2>2. CASE Open(r)
      <3>1. next_id = opened + 1 /\ opened < MaxOpened /\ MaxOpened \in 0 .. RT_ID_MASK
            /\ RT_ID_MASK \in Nat
            BY <2>2, OpenedAssumption, LimitsAssumption DEF Open, SInv, IInv, TypeInv
      <3>2. next_id % (RT_ID_MASK + 1) = opened + 1 /\ opened + 1 # 0
        <4>1. next_id \in 0 .. RT_ID_MASK BY <1>1, <3>1
        <4> QED BY <1>1, <3>1, <4>1, ModSmall
      <3>3. /\ rt_id' = [rt_id EXCEPT ![r] = opened + 1]
            /\ birth' = [birth EXCEPT ![r] = opened + 1]
            BY <2>2, <3>2 DEF Open
      <3> QED BY <1>1, <2>1, <3>3
    <2>3. CASE Close(r)
      <3>1. /\ rt_id' = [rt_id EXCEPT ![r] = 0]
            /\ birth' = [birth EXCEPT ![r] = 0]
            BY <2>3 DEF Close
      <3> QED BY <1>1, <2>1, <3>1
    <2> QED BY <2>2, <2>3
  <1>3. CallInv' BY <1>1, <1>2 DEF SInv, CallInv
  <1>4. TakenInv'
    <2> SUFFICES ASSUME NEW t \in taken
                 PROVE  /\ t.rt \in Runtimes /\ t.h.scope /\ t.h.rt = t.birth
                        /\ t.birth \in 1 .. opened' /\ t.call \in Nat /\ t.call <= entered
                        /\ \A d \in 1 .. Len(scopes[t.rt]) :
                              From(t, t.rt)' /\ calls[t.rt][d] = t.call =>
                                  ScopeValue(t.rt, d, t.h.index) = t.v
        BY <1>1 DEF TakenInv, ScopeValue, From
    <2>1. /\ t.rt \in Runtimes /\ t.h.scope /\ t.h.rt = t.birth
          /\ t.birth \in 1 .. opened /\ t.call \in Nat /\ t.call <= entered
          /\ \A d \in 1 .. Len(scopes[t.rt]) :
                From(t, t.rt) /\ calls[t.rt][d] = t.call =>
                    ScopeValue(t.rt, d, t.h.index) = t.v
          BY DEF SInv, TakenInv
    <2>2. From(t, t.rt)' => From(t, t.rt) BY <1>1, <1>2, <2>1 DEF From
    <2>3. t.birth \in 1 .. opened' BY <1>1, <2>1
    <2> QED BY <2>1, <2>2, <2>3
  <1> QED BY <1>3, <1>4

\* A call entered now has a number that no handle carries.
LEMMA EnterScoped ==
  ASSUME SInv, NEW r \in Runtimes, Enter(r)
  PROVE  CallInv' /\ TakenInv'
  <1>1. PICK values \in CallValues : scopes' = [scopes EXCEPT ![r] = Append(scopes[r], values)]
        BY DEF Enter
  <1>2. /\ calls' = [calls EXCEPT ![r] = Append(calls[r], entered + 1)]
        /\ entered' = entered + 1
        /\ UNCHANGED <<rt_id, birth, opened, taken>>
        BY DEF Enter, runtime
  <1>3. /\ rt_id = birth /\ entered \in Nat /\ calls \in [Runtimes -> Seq(Nat)]
        /\ scopes \in [Runtimes -> Seq(Seq(Values))]
        /\ values \in Seq(Values)
        BY CallTypes DEF SInv, CallInv, IInv, TypeInv
  <1>4. /\ calls[r] \in Seq(Nat) /\ scopes[r] \in Seq(Seq(Values))
        /\ Len(calls[r]) = Len(scopes[r])
        /\ \A d \in 1 .. Len(scopes[r]) : calls[r][d] \in Nat /\ calls[r][d] <= entered
    <2>1. \A d \in 1 .. Len(scopes[r]) : calls[r][d] <= entered BY DEF SInv, CallInv
    <2>2. Len(calls[r]) = Len(scopes[r]) BY DEF SInv, CallInv
    <2>3. calls[r] \in Seq(Nat) BY <1>3
    <2>4. scopes[r] \in Seq(Seq(Values)) BY <1>3
    <2>5. \A d \in 1 .. Len(calls[r]) : calls[r][d] \in Nat BY <2>3
    <2> QED BY <2>1, <2>2, <2>3, <2>4, <2>5
  <1> DEFINE n == Len(scopes[r])
  <1>5. /\ calls' \in [Runtimes -> Seq(Nat)]
        /\ Len(calls'[r]) = n + 1 /\ Len(scopes'[r]) = n + 1
        /\ calls'[r][n + 1] = entered + 1
        /\ \A d \in 1 .. n : calls'[r][d] = calls[r][d] /\ scopes'[r][d] = scopes[r][d]
        /\ \A s \in Runtimes : s # r => calls'[s] = calls[s] /\ scopes'[s] = scopes[s]
    <2>1. calls'[r] = Append(calls[r], entered + 1) /\ scopes'[r] = Append(scopes[r], values)
          BY <1>1, <1>2, <1>3
    <2>2. entered + 1 \in Nat BY <1>3
    <2>3. Append(calls[r], entered + 1) \in Seq(Nat) BY <1>4, <2>2
    <2>4. /\ Len(Append(calls[r], entered + 1)) = n + 1
          /\ Append(calls[r], entered + 1)[n + 1] = entered + 1
          /\ \A d \in 1 .. n : Append(calls[r], entered + 1)[d] = calls[r][d]
          BY <1>4, <2>2
    <2>5. /\ Len(Append(scopes[r], values)) = n + 1
          /\ \A d \in 1 .. n : Append(scopes[r], values)[d] = scopes[r][d]
          BY <1>3, <1>4
    <2>6. \A s \in Runtimes : s # r => calls'[s] = calls[s] /\ scopes'[s] = scopes[s]
          BY <1>1, <1>2, <1>3
    <2>7. calls' \in [Runtimes -> Seq(Nat)] BY <1>2, <1>3, <2>3
    <2> QED BY <2>1, <2>4, <2>5, <2>6, <2>7
  <1>6. n \in Nat /\ 1 .. n + 1 = 1 .. n \cup {n + 1} /\ n + 1 \notin 1 .. n BY <1>4
  <1>7. CallInv'
    <2>1. ASSUME NEW s \in Runtimes
          PROVE  /\ Len(calls'[s]) = Len(scopes'[s])
                 /\ \A d \in 1 .. Len(scopes'[s]) : calls'[s][d] <= entered'
                 /\ \A d1, d2 \in 1 .. Len(scopes'[s]) :
                       calls'[s][d1] = calls'[s][d2] => d1 = d2
      <3>1. CASE s # r
        <4>1. /\ Len(calls[s]) = Len(scopes[s])
              /\ \A d \in 1 .. Len(calls[s]) : calls[s][d] \in Nat /\ calls[s][d] <= entered
              /\ \A d1, d2 \in 1 .. Len(scopes[s]) : calls[s][d1] = calls[s][d2] => d1 = d2
          <5>1. calls[s] \in Seq(Nat) BY <1>3
          <5> QED BY <5>1 DEF SInv, CallInv
        <4>2. \A c \in Nat : c <= entered => c <= entered' BY <1>2, <1>3
        <4> QED BY <1>5, <3>1, <4>1, <4>2
      <3>2. CASE s = r
        <4>1. \A d1, d2 \in 1 .. n : calls[r][d1] = calls[r][d2] => d1 = d2
              BY DEF SInv, CallInv
        <4>2. ASSUME NEW d \in 1 .. n
              PROVE  /\ calls'[r][d] = calls[r][d]
                     /\ calls'[r][d] <= entered' /\ calls'[r][d] # entered + 1
          <5>1. calls'[r][d] = calls[r][d] BY <1>5
          <5>2. calls[r][d] \in Nat /\ calls[r][d] <= entered BY <1>4
          <5>3. \A c \in Nat : c <= entered => c <= entered' /\ c # entered + 1
                BY <1>2, <1>3
          <5> QED BY <5>1, <5>2, <5>3
        <4>3. calls'[r][n + 1] = entered + 1 /\ entered + 1 <= entered'
              BY <1>2, <1>3, <1>5
        <4> HIDE DEF n
        <4>4. Len(calls'[r]) = Len(scopes'[r]) /\ 1 .. Len(scopes'[r]) = 1 .. n \cup {n + 1}
              BY <1>5, <1>6
        <4>5. \A d \in 1 .. n \cup {n + 1} : calls'[r][d] <= entered'
              BY <4>2, <4>3
        <4>6. \A d1, d2 \in 1 .. n \cup {n + 1} : calls'[r][d1] = calls'[r][d2] => d1 = d2
              BY <4>1, <4>2, <4>3
        <4> QED BY <3>2, <4>4, <4>5, <4>6
      <3> QED BY <3>1, <3>2
    <2>2. entered' \in Nat BY <1>2, <1>3
    <2> QED BY <1>2, <1>3, <1>5, <2>1, <2>2 DEF CallInv
  <1>8. TakenInv'
    <2> SUFFICES ASSUME NEW t \in taken
                 PROVE  /\ t.rt \in Runtimes /\ t.h.scope /\ t.h.rt = t.birth
                        /\ t.birth \in 1 .. opened /\ t.call \in Nat /\ t.call <= entered'
                        /\ \A d \in 1 .. Len(scopes'[t.rt]) :
                              From(t, t.rt) /\ calls'[t.rt][d] = t.call =>
                                  ScopeValue(t.rt, d, t.h.index)' = t.v
        BY <1>2 DEF TakenInv, From
    <2>1. /\ t.rt \in Runtimes /\ t.h.scope /\ t.h.rt = t.birth
          /\ t.birth \in 1 .. opened /\ t.call \in Nat /\ t.call <= entered
          /\ \A d \in 1 .. Len(scopes[t.rt]) :
                From(t, t.rt) /\ calls[t.rt][d] = t.call =>
                    ScopeValue(t.rt, d, t.h.index) = t.v
          BY DEF SInv, TakenInv
    <2>2. t.call <= entered' /\ t.call # entered + 1 BY <1>2, <1>3, <2>1
    <2>3. ASSUME NEW d \in 1 .. Len(scopes'[t.rt]), calls'[t.rt][d] = t.call
          PROVE  /\ d \in 1 .. Len(scopes[t.rt]) /\ calls[t.rt][d] = t.call
                 /\ ScopeValue(t.rt, d, t.h.index)' = ScopeValue(t.rt, d, t.h.index)
      <3>1. d \in 1 .. Len(scopes[t.rt]) /\ calls[t.rt][d] = t.call
            /\ scopes'[t.rt][d] = scopes[t.rt][d]
        <4>1. CASE t.rt # r BY <1>5, <2>1, <2>3, <4>1
        <4>2. CASE t.rt = r
          <5>1. d \in 1 .. n + 1 BY <1>5, <2>3, <4>2
          <5>2. d # n + 1 BY <1>5, <2>2, <2>3, <4>2
          <5>3. d \in 1 .. n BY <1>6, <5>1, <5>2
          <5> QED BY <1>5, <2>3, <4>2, <5>3
        <4> QED BY <4>1, <4>2
      <3> QED BY <3>1 DEF ScopeValue
    <2> QED BY <2>1, <2>2, <2>3
  <1> QED BY <1>7, <1>8

\* A call that has returned is no running one.
LEMMA ReturnScoped ==
  ASSUME SInv, NEW r \in Runtimes, Return(r)
  PROVE  CallInv' /\ TakenInv'
  <1> DEFINE n == Len(scopes[r])
  <1>1. /\ scopes[r] # <<>>
        /\ scopes' = [scopes EXCEPT ![r] = SubSeq(scopes[r], 1, Len(scopes[r]) - 1)]
        /\ calls' = [calls EXCEPT ![r] = SubSeq(calls[r], 1, Len(calls[r]) - 1)]
        /\ UNCHANGED <<rt_id, birth, opened, entered, taken>>
        BY DEF Return, runtime
  <1>2. /\ entered \in Nat /\ calls \in [Runtimes -> Seq(Nat)]
        /\ scopes \in [Runtimes -> Seq(Seq(Values))]
        BY DEF SInv, CallInv, IInv, TypeInv
  <1>3. /\ calls[r] \in Seq(Nat) /\ scopes[r] \in Seq(Seq(Values))
        /\ Len(calls[r]) = n /\ n \in Nat \ {0}
    <2>1. calls[r] \in Seq(Nat) /\ scopes[r] \in Seq(Seq(Values)) BY <1>2
    <2>2. Len(calls[r]) = n BY DEF SInv, CallInv
    <2> QED BY <1>1, <2>1, <2>2
  <1>4. /\ calls' \in [Runtimes -> Seq(Nat)]
        /\ Len(calls'[r]) = n - 1 /\ Len(scopes'[r]) = n - 1
        /\ \A d \in 1 .. n - 1 : calls'[r][d] = calls[r][d] /\ scopes'[r][d] = scopes[r][d]
        /\ \A s \in Runtimes : s # r => calls'[s] = calls[s] /\ scopes'[s] = scopes[s]
    <2>1. calls'[r] = SubSeq(calls[r], 1, n - 1) /\ scopes'[r] = SubSeq(scopes[r], 1, n - 1)
          BY <1>1, <1>2, <1>3
    <2>2. SubSeq(calls[r], 1, n - 1) \in Seq(Nat) BY <1>3
    <2>3. /\ Len(SubSeq(calls[r], 1, n - 1)) = n - 1
          /\ \A d \in 1 .. n - 1 : SubSeq(calls[r], 1, n - 1)[d] = calls[r][d]
          BY <1>3
    <2>4. /\ Len(SubSeq(scopes[r], 1, n - 1)) = n - 1
          /\ \A d \in 1 .. n - 1 : SubSeq(scopes[r], 1, n - 1)[d] = scopes[r][d]
          BY <1>3
    <2>5. \A s \in Runtimes : s # r => calls'[s] = calls[s] /\ scopes'[s] = scopes[s]
          BY <1>1, <1>2
    <2>6. calls' = [calls EXCEPT ![r] = SubSeq(calls[r], 1, n - 1)] BY <1>1, <1>3
    <2>7. calls' \in [Runtimes -> Seq(Nat)] BY <1>2, <2>2, <2>6
    <2> QED BY <2>1, <2>3, <2>4, <2>5, <2>7
  <1>5. ASSUME NEW s \in Runtimes, NEW d \in 1 .. Len(scopes'[s])
        PROVE  /\ d \in 1 .. Len(scopes[s]) /\ calls'[s][d] = calls[s][d]
               /\ scopes'[s][d] = scopes[s][d]
    <2>1. CASE s # r BY <1>4, <1>5, <2>1
    <2>2. CASE s = r
      <3>1. d \in 1 .. n - 1 BY <1>4, <1>5, <2>2
      <3>2. d \in 1 .. n BY <1>3, <3>1
      <3> QED BY <1>4, <2>2, <3>1, <3>2
    <2> QED BY <2>1, <2>2
  <1>6. CallInv'
    <2>1. \A s \in Runtimes : Len(calls'[s]) = Len(scopes'[s])
          BY <1>4 DEF SInv, CallInv
    <2>2. ASSUME NEW s \in Runtimes
          PROVE  /\ \A d \in 1 .. Len(scopes'[s]) : calls'[s][d] <= entered
                 /\ \A d1, d2 \in 1 .. Len(scopes'[s]) :
                       calls'[s][d1] = calls'[s][d2] => d1 = d2
      <3>1. /\ \A d \in 1 .. Len(scopes[s]) : calls[s][d] <= entered
            /\ \A d1, d2 \in 1 .. Len(scopes[s]) : calls[s][d1] = calls[s][d2] => d1 = d2
            BY DEF SInv, CallInv
      <3> QED BY <1>5, <3>1
    <2>3. rt_id' = birth' /\ entered' = entered BY <1>1 DEF SInv, CallInv
    <2> QED BY <1>2, <1>4, <2>1, <2>2, <2>3 DEF CallInv
  <1>7. TakenInv'
    <2> SUFFICES ASSUME NEW t \in taken
                 PROVE  /\ t.rt \in Runtimes /\ t.h.scope /\ t.h.rt = t.birth
                        /\ t.birth \in 1 .. opened /\ t.call \in Nat /\ t.call <= entered
                        /\ \A d \in 1 .. Len(scopes'[t.rt]) :
                              From(t, t.rt) /\ calls'[t.rt][d] = t.call =>
                                  ScopeValue(t.rt, d, t.h.index)' = t.v
        BY <1>1 DEF TakenInv, From
    <2>1. /\ t.rt \in Runtimes /\ t.h.scope /\ t.h.rt = t.birth
          /\ t.birth \in 1 .. opened /\ t.call \in Nat /\ t.call <= entered
          /\ \A d \in 1 .. Len(scopes[t.rt]) :
                From(t, t.rt) /\ calls[t.rt][d] = t.call =>
                    ScopeValue(t.rt, d, t.h.index) = t.v
          BY DEF SInv, TakenInv
    <2>2. ASSUME NEW d \in 1 .. Len(scopes'[t.rt])
          PROVE  /\ d \in 1 .. Len(scopes[t.rt]) /\ calls'[t.rt][d] = calls[t.rt][d]
                 /\ ScopeValue(t.rt, d, t.h.index)' = ScopeValue(t.rt, d, t.h.index)
          BY <1>5, <2>1 DEF ScopeValue
    <2> QED BY <2>1, <2>2
  <1> QED BY <1>6, <1>7

\* A handle is taken with the value of its call.
LEMMA TakeScoped ==
  ASSUME SInv, NEW r \in Runtimes, Take(r)
  PROVE  CallInv' /\ TakenInv'
  <1>1. /\ r \in open
        /\ UNCHANGED <<rt_id, birth, opened, scopes, calls, entered>>
        BY DEF Take, runtime, callback
  <1>2. PICK d \in 1 .. Len(scopes[r]), idx \in 0 .. 1 + MaxArgs :
          taken' = taken \cup
            {[h |-> scope_handle(r, idx), rt |-> r, birth |-> birth[r],
              call |-> calls[r][d], v |-> ScopeValue(r, d, idx)]}
        BY DEF Take
  <1> DEFINE t0 == [h |-> scope_handle(r, idx), rt |-> r, birth |-> birth[r],
                    call |-> calls[r][d], v |-> ScopeValue(r, d, idx)]
  <1>3. CallInv' BY <1>1 DEF SInv, CallInv
  <1>4. /\ t0.h.scope /\ t0.h.rt = t0.birth /\ t0.h.index = idx
        /\ t0.birth \in 1 .. opened
        BY <1>1 DEF scope_handle, SInv, CallInv, IInv, IdInv
  <1>5. t0.call \in Nat /\ t0.call <= entered
    <2>1. calls[r] \in Seq(Nat) /\ Len(calls[r]) = Len(scopes[r])
          /\ calls[r][d] <= entered
          BY DEF SInv, CallInv
    <2> QED BY <2>1
  <1>6. \A d1 \in 1 .. Len(scopes[r]) : calls[r][d1] = t0.call => d1 = d
        BY DEF SInv, CallInv
  <1>7. TakenInv'
    <2> SUFFICES ASSUME NEW t \in taken'
                 PROVE  /\ t.rt \in Runtimes /\ t.h.scope /\ t.h.rt = t.birth
                        /\ t.birth \in 1 .. opened /\ t.call \in Nat /\ t.call <= entered
                        /\ \A d1 \in 1 .. Len(scopes[t.rt]) :
                              From(t, t.rt) /\ calls[t.rt][d1] = t.call =>
                                  ScopeValue(t.rt, d1, t.h.index) = t.v
        BY <1>1 DEF TakenInv, From, ScopeValue
    <2>1. CASE t \in taken BY <2>1 DEF SInv, TakenInv
    <2>2. CASE t = t0 BY <1>4, <1>5, <1>6, <2>2
    <2> QED BY <1>2, <2>1, <2>2
  <1> QED BY <1>3, <1>7

\* Every step keeps the invariant.
LEMMA NextScoped == SInv /\ [Next]_vars => SInv'
  <1> SUFFICES ASSUME SInv, [Next]_vars PROVE SInv' OBVIOUS
  <1>1. IInv' BY NextInv DEF SInv
  <1>2. ASSUME NEW r \in Runtimes, Open(r) \/ Close(r) PROVE CallInv' /\ TakenInv'
        BY <1>2, OpenScoped
  <1>3. ASSUME NEW r \in Runtimes, NEW v, slot_alloc(r, v) PROVE CallInv' /\ TakenInv'
        BY <1>3, OutsideCalls DEF slot_alloc, runtime, callback
  <1>4. ASSUME NEW r \in Runtimes, Store(r) PROVE CallInv' /\ TakenInv'
        BY <1>3, <1>4 DEF Store
  <1>5. ASSUME NEW r \in Runtimes, NEW h, Persist(r, h) PROVE CallInv' /\ TakenInv'
        BY <1>3, <1>5 DEF Persist
  <1>6. ASSUME NEW r \in Runtimes, NEW h, Free(r, h) PROVE CallInv' /\ TakenInv'
        BY <1>6, OutsideCalls DEF Free, runtime, callback
  <1>7. ASSUME NEW r \in Runtimes, Enter(r) PROVE CallInv' /\ TakenInv'
        BY <1>7, EnterScoped
  <1>8. ASSUME NEW r \in Runtimes, Return(r) PROVE CallInv' /\ TakenInv'
        BY <1>8, ReturnScoped
  <1>9. ASSUME NEW r \in Runtimes, Take(r) PROVE CallInv' /\ TakenInv'
        BY <1>9, TakeScoped
  <1>10. ASSUME UNCHANGED vars PROVE CallInv' /\ TakenInv'
         BY <1>10, OutsideCalls DEF vars, runtime, callback
  <1>11. CallInv' /\ TakenInv'
         BY <1>2, <1>4, <1>5, <1>6, <1>7, <1>8, <1>9, <1>10 DEF Next
  <1> QED BY <1>1, <1>11 DEF SInv

\* What a callback's handle gives, read through the callback's own context, is
\* the value it was called with, whatever calls ran inside it (host_arg).
THEOREM CallsKeepArguments == Spec => []ScopedRight
  <1>1. Spec => []SInv BY InitScoped, NextScoped, PTL DEF Spec
  <1> QED BY <1>1, InvScoped, PTL

---------------------------------------------------------------------------
(***************************************************************************)
(* The books of a registry.  The walk along the free list is a recursive    *)
(* function; the invariant names its path instead, a sequence of distinct  *)
(* slots, and the walk is shown to follow that path at the end.            *)
(***************************************************************************)
\* The slots in use; those that hold o; those a path of length m lists; and the
\* others.
Uses(S)         == {x \in 1 .. Len(S) : S[x].used}
Holding(S, o)   == {x \in Uses(S) : S[x].v = o}
Listed(m, p)    == {p[k] : k \in 1 .. m}
Spent(S, m, p)  == (1 .. Len(S)) \ (Listed(m, p) \cup Uses(S))

\* p names the m slots of the free list that starts at hd, in order.
Chain(S, hd, m, p) ==
    /\ p \in [1 .. m -> 1 .. Len(S)]
    /\ \A j, k \in 1 .. m : p[j] = p[k] => j = k
    /\ hd = IF m = 0 THEN FREE_END ELSE p[1]
    /\ \A k \in 1 .. m :
          /\ ~S[p[k]].used
          /\ S[p[k]].next_free = IF k = m THEN FREE_END ELSE p[k + 1]

\* Every slot is in use, listed, or retired at its last generation.
Listing(S, hd, spent) ==
    \E m \in 0 .. Len(S) : \E p \in [1 .. m -> 1 .. Len(S)] :
        /\ Chain(S, hd, m, p)
        /\ \A x \in Spent(S, m, p) : S[x].gen = SLOT_GEN_MAX
        /\ spent = Cardinality(Spent(S, m, p))

\* The counters of a registry are those of its slots.
Balanced(S, count, held) ==
    /\ count = Cardinality(Uses(S))
    /\ \A o \in Objects : held[o] = Cardinality(Holding(S, o))

Books(r) ==
    /\ Listing(slots[r], free_head[r], retired[r])
    /\ Balanced(slots[r], live[r], refs[r])

AccountInv ==
    /\ live \in [Runtimes -> Nat]
    /\ retired \in [Runtimes -> Nat]
    /\ refs \in [Runtimes -> [Objects -> Nat]]
    /\ \A r \in open : Books(r)

---------------------------------------------------------------------------
\* A free list is no longer than the registry.
LEMMA ChainBound ==
  ASSUME NEW S \in Seq(Slot), NEW hd, NEW m \in Nat, NEW p, Chain(S, hd, m, p)
  PROVE  m <= Len(S)
  <1>1. p \in Injection(1 .. m, 1 .. Len(S)) BY DEF Chain, Injection, IsInjective
  <1>a. \A n \in Nat : IsFiniteSet(1 .. n) /\ Cardinality(1 .. n) = n
    <2> SUFFICES ASSUME NEW n \in Nat PROVE IsFiniteSet(1 .. n) /\ Cardinality(1 .. n) = n
        OBVIOUS
    <2>1. IsFiniteSet(1 .. n) /\ Cardinality(1 .. n) = IF 1 > n THEN 0 ELSE n - 1 + 1
          BY FS_Interval
    <2> QED BY <2>1
  <1>b. Len(S) \in Nat OBVIOUS
  <1>2. /\ IsFiniteSet(1 .. Len(S)) /\ Cardinality(1 .. Len(S)) = Len(S)
        /\ Cardinality(1 .. m) = m
        BY <1>a, <1>b
  <1>3. Cardinality(1 .. m) <= Cardinality(1 .. Len(S)) BY <1>1, <1>2, FS_Injection
  <1> QED BY <1>2, <1>3

\* The sets of slots are finite.
LEMMA FiniteSlots ==
  ASSUME NEW S \in Seq(Slot), NEW A, A \subseteq 1 .. Len(S)
  PROVE  IsFiniteSet(A) /\ Cardinality(A) \in Nat
  <1>1. Len(S) \in Nat OBVIOUS
  <1>2. IsFiniteSet(1 .. Len(S)) BY <1>1, FS_Interval
  <1>3. IsFiniteSet(A) BY <1>2, FS_Subset
  <1> QED BY <1>3, FS_CardinalityType

\* slot_alloc takes the head of the list.
LEMMA ListPop ==
  ASSUME NEW S \in Seq(Slot), NEW hd, hd # FREE_END, NEW spent,
         Listing(S, hd, spent),
         NEW T \in Seq(Slot), Len(T) = Len(S),
         T[hd].used, T[hd].gen = S[hd].gen,
         \A x \in 1 .. Len(S) : x # hd => T[x] = S[x]
  PROVE  Listing(T, S[hd].next_free, spent) /\ hd \in 1 .. Len(S) /\ ~S[hd].used
  <1>a. PICK m \in 0 .. Len(S) : \E p \in [1 .. m -> 1 .. Len(S)] :
              /\ Chain(S, hd, m, p)
              /\ \A x \in Spent(S, m, p) : S[x].gen = SLOT_GEN_MAX
              /\ spent = Cardinality(Spent(S, m, p))
        BY DEF Listing
  <1>1. PICK p \in [1 .. m -> 1 .. Len(S)] :
              /\ Chain(S, hd, m, p)
              /\ \A x \in Spent(S, m, p) : S[x].gen = SLOT_GEN_MAX
              /\ spent = Cardinality(Spent(S, m, p))
        BY <1>a
  <1>2. m # 0 /\ hd = p[1] /\ m \in Nat /\ Len(S) \in Nat BY <1>1 DEF Chain
  <1>3. m - 1 \in 0 .. Len(S) /\ 1 \in 1 .. m BY <1>2
  <1> DEFINE n == m - 1
             q == [k \in 1 .. n |-> p[k + 1]]
  <1>4. \A k \in 1 .. n : k \in 1 .. m /\ k + 1 \in 1 .. m /\ k + 1 # 1 /\ (k + 1 = m <=> k = n)
        BY <1>2
  <1>5. hd \in 1 .. Len(S) /\ ~S[hd].used BY <1>1, <1>2, <1>3 DEF Chain
  <1>6. q \in [1 .. n -> 1 .. Len(T)] BY <1>1, <1>4
  <1>7. \A k \in 1 .. n : q[k] = p[k + 1] /\ q[k] # hd /\ T[q[k]] = S[q[k]]
        BY <1>1, <1>2, <1>3, <1>4 DEF Chain
  <1>8. \A j, k \in 1 .. n : q[j] = q[k] => j = k
    <2> SUFFICES ASSUME NEW j \in 1 .. n, NEW k \in 1 .. n, q[j] = q[k] PROVE j = k
        OBVIOUS
    <2>1. j + 1 = k + 1 BY <1>1, <1>4, <1>7 DEF Chain
    <2> QED BY <2>1
  <1>9. S[hd].next_free = IF n = 0 THEN FREE_END ELSE q[1]
    <2>1. S[p[1]].next_free = IF 1 = m THEN FREE_END ELSE p[1 + 1] BY <1>1, <1>3 DEF Chain
    <2>2. n # 0 => 1 \in 1 .. n /\ q[1] = p[2] BY <1>2
    <2> QED BY <1>2, <2>1, <2>2
  <1>10. ASSUME NEW k \in 1 .. n
         PROVE  ~T[q[k]].used /\ T[q[k]].next_free = IF k = n THEN FREE_END ELSE q[k + 1]
    <2>1. /\ ~S[p[k + 1]].used
          /\ S[p[k + 1]].next_free = IF k + 1 = m THEN FREE_END ELSE p[(k + 1) + 1]
          BY <1>1, <1>4 DEF Chain
    <2>2. k # n => k + 1 \in 1 .. n BY <1>2
    <2>3. k # n => q[k + 1] = p[(k + 1) + 1] BY <1>7, <2>2
    <2> HIDE DEF n, q
    <2> QED BY <1>4, <1>7, <2>1, <2>3
  <1>11. Chain(T, S[hd].next_free, n, q) BY <1>6, <1>8, <1>9, <1>10 DEF Chain
  <1>12. Listed(m, p) = Listed(n, q) \cup {hd}
    <2>1. ASSUME NEW k \in 1 .. m PROVE p[k] \in Listed(n, q) \cup {hd}
      <3>1. CASE k = 1 BY <1>2, <3>1
      <3>2. CASE k # 1
        <4>1. k - 1 \in 1 .. n /\ (k - 1) + 1 = k BY <1>2, <3>2
        <4>2. q[k - 1] = p[k] BY <1>7, <4>1
        <4> HIDE DEF q, n
        <4> QED BY <4>1, <4>2 DEF Listed
      <3> QED BY <3>1, <3>2
    <2>2. ASSUME NEW k \in 1 .. n PROVE q[k] \in Listed(m, p)
          BY <1>4, <1>7 DEF Listed
    <2>3. hd \in Listed(m, p) BY <1>2, <1>3 DEF Listed
    <2> HIDE DEF q, n
    <2> QED BY <2>1, <2>2, <2>3 DEF Listed
  <1>13. Uses(T) = Uses(S) \cup {hd}
         BY <1>5 DEF Uses
  <1>14. Spent(T, n, q) = Spent(S, m, p) BY <1>12, <1>13 DEF Spent
  <1>15. \A x \in Spent(T, n, q) : T[x].gen = SLOT_GEN_MAX
    <2>1. ASSUME NEW x \in Spent(S, m, p) PROVE x \in 1 .. Len(S) /\ x # hd
          BY <1>12 DEF Spent
    <2> QED BY <1>1, <1>14, <2>1
  <1>16. n \in 0 .. Len(T) BY <1>3
  <1> HIDE DEF n, q
  <1>17. Listing(T, S[hd].next_free, spent)
         BY <1>1, <1>6, <1>11, <1>14, <1>15, <1>16 DEF Listing
  <1> QED BY <1>5, <1>17

\* slot_alloc opens a slot past the last one.
LEMMA ListAppend ==
  ASSUME NEW S \in Seq(Slot), NEW spent, Listing(S, FREE_END, spent),
         NEW f \in Slot, f.used,
         NEW T \in Seq(Slot), T = Append(S, f)
  PROVE  Listing(T, FREE_END, spent)
  <1>a. PICK m \in 0 .. Len(S) : \E p \in [1 .. m -> 1 .. Len(S)] :
              /\ Chain(S, FREE_END, m, p)
              /\ \A x \in Spent(S, m, p) : S[x].gen = SLOT_GEN_MAX
              /\ spent = Cardinality(Spent(S, m, p))
        BY DEF Listing
  <1>1. PICK p \in [1 .. m -> 1 .. Len(S)] :
              /\ Chain(S, FREE_END, m, p)
              /\ \A x \in Spent(S, m, p) : S[x].gen = SLOT_GEN_MAX
              /\ spent = Cardinality(Spent(S, m, p))
        BY <1>a
  <1>2. /\ Len(S) \in Nat /\ Len(T) = Len(S) + 1 /\ T[Len(S) + 1] = f
        /\ \A x \in 1 .. Len(S) : T[x] = S[x]
        OBVIOUS
  <1>3. m = 0
    <2> SUFFICES ASSUME m # 0 PROVE FALSE OBVIOUS
    <2>1. 1 \in 1 .. m OBVIOUS
    <2>2. p[1] = 0 BY <1>1 DEF Chain, FREE_END
    <2> QED BY <1>1, <2>1, <2>2
  <1>4. 1 .. m = {} BY <1>3
  <1>5. 1 .. Len(T) = (1 .. Len(S)) \cup {Len(S) + 1} BY <1>2
  <1>6. p \in [1 .. m -> 1 .. Len(T)] BY <1>1, <1>4
  <1>7. Chain(T, FREE_END, m, p) BY <1>3, <1>4, <1>6 DEF Chain
  <1>8. Uses(T) = Uses(S) \cup {Len(S) + 1} BY <1>2, <1>5 DEF Uses
  <1>9. Spent(T, m, p) = Spent(S, m, p)
    <2>1. Len(S) + 1 \notin 1 .. Len(S) BY <1>2
    <2>2. Listed(m, p) = {} BY <1>4 DEF Listed
    <2> QED BY <1>5, <1>8, <2>1, <2>2 DEF Spent
  <1>10. \A x \in Spent(T, m, p) : T[x].gen = SLOT_GEN_MAX
         BY <1>1, <1>2, <1>9 DEF Spent
  <1>11. m \in 0 .. Len(T) BY <1>2
  <1> QED BY <1>1, <1>6, <1>7, <1>9, <1>10, <1>11 DEF Listing

\* slot_release at the last generation: one more slot is retired.
LEMMA ListRetire ==
  ASSUME NEW S \in Seq(Slot), NEW hd, NEW spent, Listing(S, hd, spent),
         NEW idx \in 1 .. Len(S), S[idx].used,
         NEW T \in Seq(Slot), Len(T) = Len(S),
         ~T[idx].used, T[idx].gen = SLOT_GEN_MAX,
         \A x \in 1 .. Len(S) : x # idx => T[x] = S[x]
  PROVE  Listing(T, hd, spent + 1)
  <1>a. PICK m \in 0 .. Len(S) : \E p \in [1 .. m -> 1 .. Len(S)] :
              /\ Chain(S, hd, m, p)
              /\ \A x \in Spent(S, m, p) : S[x].gen = SLOT_GEN_MAX
              /\ spent = Cardinality(Spent(S, m, p))
        BY DEF Listing
  <1>1. PICK p \in [1 .. m -> 1 .. Len(S)] :
              /\ Chain(S, hd, m, p)
              /\ \A x \in Spent(S, m, p) : S[x].gen = SLOT_GEN_MAX
              /\ spent = Cardinality(Spent(S, m, p))
        BY <1>a
  <1>2. \A k \in 1 .. m : p[k] # idx /\ T[p[k]] = S[p[k]] BY <1>1 DEF Chain
  <1>3. idx \notin Listed(m, p) BY <1>2 DEF Listed
  <1>4. Chain(T, hd, m, p) BY <1>1, <1>2 DEF Chain
  <1>5. idx \in Uses(S) BY DEF Uses
  <1>6. Uses(T) = Uses(S) \ {idx} BY DEF Uses
  <1>7. Spent(T, m, p) = Spent(S, m, p) \cup {idx} /\ idx \notin Spent(S, m, p)
        BY <1>3, <1>5, <1>6 DEF Spent
  <1>8. Spent(S, m, p) \subseteq 1 .. Len(S) BY DEF Spent
  <1>9. Cardinality(Spent(T, m, p)) = Cardinality(Spent(S, m, p)) + 1
    <2>1. IsFiniteSet(Spent(S, m, p)) BY <1>8, FiniteSlots
    <2> QED BY <1>7, <2>1, FS_AddElement
  <1>10. \A x \in Spent(T, m, p) : T[x].gen = SLOT_GEN_MAX BY <1>1, <1>7, <1>8
  <1> QED BY <1>1, <1>4, <1>9, <1>10 DEF Listing

\* slot_release below it: the slot becomes the head of the list.
LEMMA ListPush ==
  ASSUME NEW S \in Seq(Slot), NEW hd, NEW spent, Listing(S, hd, spent),
         NEW idx \in 1 .. Len(S), S[idx].used,
         NEW T \in Seq(Slot), Len(T) = Len(S),
         ~T[idx].used, T[idx].next_free = hd,
         \A x \in 1 .. Len(S) : x # idx => T[x] = S[x]
  PROVE  Listing(T, idx, spent)
  <1>a. PICK m \in 0 .. Len(S) : \E p \in [1 .. m -> 1 .. Len(S)] :
              /\ Chain(S, hd, m, p)
              /\ \A x \in Spent(S, m, p) : S[x].gen = SLOT_GEN_MAX
              /\ spent = Cardinality(Spent(S, m, p))
        BY DEF Listing
  <1>1. PICK p \in [1 .. m -> 1 .. Len(S)] :
              /\ Chain(S, hd, m, p)
              /\ \A x \in Spent(S, m, p) : S[x].gen = SLOT_GEN_MAX
              /\ spent = Cardinality(Spent(S, m, p))
        BY <1>a
  <1> DEFINE n == m + 1
             q == [k \in 1 .. n |-> IF k = 1 THEN idx ELSE p[k - 1]]
  <1>2. m \in Nat /\ n \in Nat /\ n # 0 /\ 1 \in 1 .. n BY <1>1
  <1>3. \A k \in 1 .. n : k # 1 => k - 1 \in 1 .. m /\ (k - 1) + 1 = k /\ (k - 1 = m <=> k = n)
        BY <1>2
  <1>4. \A k \in 1 .. m : p[k] # idx /\ T[p[k]] = S[p[k]] BY <1>1 DEF Chain
  <1>5. q[1] = idx /\ \A k \in 1 .. n : k # 1 => q[k] = p[k - 1] BY <1>2
  <1>6. q \in [1 .. n -> 1 .. Len(T)] BY <1>1, <1>3
  <1>7. ASSUME NEW j \in 1 .. n, NEW k \in 1 .. n, q[j] = q[k] PROVE j = k
    <2> HIDE DEF n, q
    <2>1. CASE j = 1 \/ k = 1 BY <1>3, <1>4, <1>5, <1>7, <2>1
    <2>2. CASE j # 1 /\ k # 1
      <3>1. j - 1 = k - 1 BY <1>1, <1>3, <1>5, <1>7, <2>2 DEF Chain
      <3>2. (j - 1) + 1 = j /\ (k - 1) + 1 = k BY <1>3, <2>2
      <3> QED BY <3>1, <3>2
    <2> QED BY <2>1, <2>2
  <1>8. ASSUME NEW k \in 1 .. n
        PROVE  ~T[q[k]].used /\ T[q[k]].next_free = IF k = n THEN FREE_END ELSE q[k + 1]
    <2>1. CASE k = 1
      <3>1. hd = IF m = 0 THEN FREE_END ELSE p[1] BY <1>1 DEF Chain
      <3>2. m # 0 => 2 \in 1 .. n /\ q[2] = p[1] BY <1>2
      <3> QED BY <1>2, <1>5, <2>1, <3>1, <3>2
    <2>2. CASE k # 1
      <3>1. /\ ~S[p[k - 1]].used
            /\ S[p[k - 1]].next_free = IF k - 1 = m THEN FREE_END ELSE p[(k - 1) + 1]
            BY <1>1, <1>3, <2>2 DEF Chain
      <3>2. k # n => k + 1 \in 1 .. n /\ k + 1 # 1 /\ (k + 1) - 1 = k BY <1>2
      <3>3. k # n => q[k + 1] = p[k] BY <1>5, <3>2
      <3> HIDE DEF n, q
      <3> QED BY <1>3, <1>4, <1>5, <2>2, <3>1, <3>3
    <2> QED BY <2>1, <2>2
  <1>9. Chain(T, idx, n, q) BY <1>2, <1>5, <1>6, <1>7, <1>8 DEF Chain
  <1>10. n \in 0 .. Len(T) BY <1>2, <1>9, ChainBound
  <1>11. Listed(n, q) = Listed(m, p) \cup {idx}
    <2>1. ASSUME NEW k \in 1 .. n PROVE q[k] \in Listed(m, p) \cup {idx}
          BY <1>3, <1>5 DEF Listed
    <2>2. ASSUME NEW k \in 1 .. m PROVE p[k] \in Listed(n, q)
      <3>1. k + 1 \in 1 .. n /\ k + 1 # 1 /\ (k + 1) - 1 = k BY <1>2
      <3>2. q[k + 1] = p[k] BY <1>5, <3>1
      <3> HIDE DEF n, q
      <3> QED BY <3>1, <3>2 DEF Listed
    <2>3. idx \in Listed(n, q) BY <1>2, <1>5 DEF Listed
    <2> HIDE DEF n, q
    <2> QED BY <2>1, <2>2, <2>3 DEF Listed
  <1>12. Uses(T) = Uses(S) \ {idx} /\ idx \in Uses(S) BY DEF Uses
  <1>13. Spent(T, n, q) = Spent(S, m, p) BY <1>11, <1>12 DEF Spent
  <1>14. \A x \in Spent(T, n, q) : T[x].gen = SLOT_GEN_MAX
    <2>1. ASSUME NEW x \in Spent(S, m, p) PROVE x \in 1 .. Len(S) /\ x # idx
          BY <1>12 DEF Spent
    <2> QED BY <1>1, <1>13, <2>1
  <1> HIDE DEF n, q
  <1> QED BY <1>1, <1>6, <1>9, <1>10, <1>13, <1>14 DEF Listing

\* A slot is taken into use, at an index that is free or new, for the value v.
LEMMA UseMore ==
  ASSUME NEW S \in Seq(Slot), NEW T \in Seq(Slot), NEW idx \in 1 .. Len(T),
         1 .. Len(T) = (1 .. Len(S)) \cup {idx},
         idx \notin Uses(S), T[idx].used,
         \A x \in 1 .. Len(S) : x # idx => T[x] = S[x]
  PROVE  /\ Cardinality(Uses(T)) = Cardinality(Uses(S)) + 1
         /\ \A o : Cardinality(Holding(T, o)) =
                     IF T[idx].v = o THEN Cardinality(Holding(S, o)) + 1
                     ELSE Cardinality(Holding(S, o))
  <1>1. Uses(T) = Uses(S) \cup {idx} BY DEF Uses
  <1>2. IsFiniteSet(Uses(S)) BY FiniteSlots DEF Uses
  <1>3. Cardinality(Uses(T)) = Cardinality(Uses(S)) + 1 BY <1>1, <1>2, FS_AddElement
  <1>4. ASSUME NEW o
        PROVE  Cardinality(Holding(T, o)) =
                 IF T[idx].v = o THEN Cardinality(Holding(S, o)) + 1
                 ELSE Cardinality(Holding(S, o))
    <2>1. \A x \in Uses(S) : x # idx /\ T[x] = S[x] BY DEF Uses
    <2>2. idx \notin Holding(S, o) /\ Holding(S, o) \subseteq Uses(S) BY DEF Holding
    <2>3. IsFiniteSet(Holding(S, o)) BY <1>2, <2>2, FS_Subset
    <2>4. CASE T[idx].v = o
      <3>1. Holding(T, o) = Holding(S, o) \cup {idx} BY <1>1, <2>1, <2>4 DEF Holding
      <3>2. Cardinality(Holding(T, o)) = Cardinality(Holding(S, o)) + 1
            BY <2>2, <2>3, <3>1, FS_AddElement
      <3> QED BY <2>4, <3>2
    <2>5. CASE T[idx].v # o
      <3>1. Holding(T, o) = Holding(S, o) BY <1>1, <2>1, <2>5 DEF Holding
      <3> QED BY <2>5, <3>1
    <2> QED BY <2>4, <2>5
  <1> QED BY <1>3, <1>4

\* A slot goes out of use.
LEMMA UseLess ==
  ASSUME NEW S \in Seq(Slot), NEW T \in Seq(Slot), NEW idx \in 1 .. Len(S),
         Len(T) = Len(S), S[idx].used, ~T[idx].used,
         \A x \in 1 .. Len(S) : x # idx => T[x] = S[x]
  PROVE  /\ Cardinality(Uses(T)) = Cardinality(Uses(S)) - 1
         /\ Cardinality(Uses(S)) > 0 /\ Cardinality(Uses(T)) \in Nat
         /\ \A o : /\ Cardinality(Holding(T, o)) =
                        IF S[idx].v = o THEN Cardinality(Holding(S, o)) - 1
                        ELSE Cardinality(Holding(S, o))
                   /\ Cardinality(Holding(T, o)) \in Nat
  <1>1. Uses(T) = Uses(S) \ {idx} /\ idx \in Uses(S) BY DEF Uses
  <1>2. /\ IsFiniteSet(Uses(S)) /\ Cardinality(Uses(S)) \in Nat
        /\ Cardinality(Uses(T)) \in Nat
        BY FiniteSlots DEF Uses
  <1>3. Cardinality(Uses(T)) = Cardinality(Uses(S)) - 1
        BY <1>1, <1>2, FS_RemoveElement
  <1>4. ASSUME NEW o
        PROVE  /\ Cardinality(Holding(T, o)) =
                    IF S[idx].v = o THEN Cardinality(Holding(S, o)) - 1
                    ELSE Cardinality(Holding(S, o))
               /\ Cardinality(Holding(T, o)) \in Nat
    <2>1. \A x \in Uses(T) : x # idx /\ T[x] = S[x] BY <1>1 DEF Uses
    <2>2. Holding(S, o) \subseteq 1 .. Len(S) /\ Holding(T, o) \subseteq 1 .. Len(T)
          BY DEF Holding, Uses
    <2>3. IsFiniteSet(Holding(S, o)) /\ Cardinality(Holding(T, o)) \in Nat
          BY <2>2, FiniteSlots
    <2>4. Holding(T, o) = Holding(S, o) \ {idx} BY <1>1, <2>1 DEF Holding
    <2>5. idx \in Holding(S, o) <=> S[idx].v = o BY <1>1 DEF Holding
    <2> QED BY <2>3, <2>4, <2>5, FS_RemoveElement
  <1> QED BY <1>2, <1>3, <1>4

---------------------------------------------------------------------------
\* The order of the natural numbers is well founded, as a relation.
LEMMA LessThan == \A x, y \in Nat : y < x => <<y, x>> \in OpToRel(<, Nat)
  BY DEF OpToRel

\* So there is a relation to take minima by.
LEMMA Ordered ==
  \E R : IsWellFoundedOn(R, Nat) /\ \A x, y \in Nat : y < x => <<y, x>> \in R
  BY LessThan, NatLessThanWellFounded, Zenon

\* A set that holds 0 and the successors of its members holds every number.
LEMMA SetInduction ==
  ASSUME NEW T, 0 \in T, \A n \in Nat : n \in T => n + 1 \in T
  PROVE  Nat \subseteq T
  <1>1. PICK R : IsWellFoundedOn(R, Nat) /\ \A x, y \in Nat : y < x => <<y, x>> \in R
        BY Ordered
  <1>2. SUFFICES ASSUME Nat \ T # {} PROVE FALSE
        OBVIOUS
  <1>3. PICK x \in Nat \ T : \A y \in Nat \ T : <<y, x>> \notin R
        BY <1>1, <1>2, WFMin
  <1>4. x # 0 BY <1>3
  <1>5. x - 1 \in Nat /\ x - 1 < x BY <1>3, <1>4
  <1>6. x - 1 \in T BY <1>1, <1>3, <1>5
  <1>7. (x - 1) + 1 = x BY <1>3
  <1> QED BY <1>3, <1>5, <1>6, <1>7

\* f is the walk along the free list from hd, as the recursion of Walk has it.
Walks(f, S, hd) ==
    f = [k \in 0 .. Len(S) |-> IF k = 0 THEN hd
                               ELSE IF f[k - 1] = FREE_END THEN FREE_END
                               ELSE S[f[k - 1]].next_free]

\* The recursion of Walk defines a walk if there is one.
LEMMA WalkWalks ==
  ASSUME NEW r, NEW f, Walks(f, slots[r], free_head[r])
  PROVE  Walks(Walk(r), slots[r], free_head[r])
  <1> DEFINE w == Walk(r)
  <1>1. w = [k \in 0 .. Len(slots[r]) |->
               IF k = 0 THEN free_head[r]
               ELSE IF w[k - 1] = FREE_END THEN FREE_END
               ELSE slots[r][w[k - 1]].next_free]
        BY DEF Walk, Walks
  <1> QED BY <1>1 DEF Walks

\* There is at most one.
LEMMA WalkUnique ==
  ASSUME NEW S, Len(S) \in Nat, NEW hd, NEW f, NEW g, Walks(f, S, hd), Walks(g, S, hd)
  PROVE  f = g
  <1> DEFINE n == Len(S)
  <1> DEFINE T == {k \in Nat : k \in 0 .. n => f[k] = g[k]}
  <1>2. 0 \in T BY DEF Walks
  <1>3. ASSUME NEW k \in Nat, k \in 0 .. n => f[k] = g[k], k + 1 \in 0 .. n
        PROVE  f[k + 1] = g[k + 1]
    <2>1. f[k] = g[k] BY <1>3
    <2>2. k + 1 # 0 /\ (k + 1) - 1 = k OBVIOUS
    <2> DEFINE j == k + 1
    <2>3. j \in 0 .. n /\ j # 0 /\ j - 1 = k BY <1>3, <2>2
    <2> HIDE DEF j
    <2>4. f[j] = IF f[k] = FREE_END THEN FREE_END ELSE S[f[k]].next_free BY <2>3 DEF Walks
    <2>5. g[j] = IF g[k] = FREE_END THEN FREE_END ELSE S[g[k]].next_free BY <2>3 DEF Walks
    <2>6. f[j] = g[j] BY <2>1, <2>4, <2>5
    <2> QED BY <2>6 DEF j
  <1>4. \A k \in Nat : k \in T => k + 1 \in T BY <1>3
  <1>5. Nat \subseteq T
    <2> HIDE DEF T
    <2> QED BY <1>2, <1>4, SetInduction
  <1>6. \A k \in 0 .. n : f[k] = g[k] BY <1>5
  <1> HIDE DEF n, T
  <1>7. f = [k \in 0 .. n |-> f[k]] BY DEF Walks, n
  <1>8. g = [k \in 0 .. n |-> g[k]] BY DEF Walks, n
  <1> QED BY <1>6, <1>7, <1>8


\* The chain is what the walk visits before it ends.
LEMMA ChainWalk ==
  ASSUME NEW S \in Seq(Slot), NEW hd, NEW m \in 0 .. Len(S), NEW p, Chain(S, hd, m, p)
  PROVE  Walks([k \in 0 .. Len(S) |-> IF k < m THEN p[k + 1] ELSE FREE_END], S, hd)
  <1> DEFINE n == Len(S)
             f == [k \in 0 .. n |-> IF k < m THEN p[k + 1] ELSE FREE_END]
  <1>1. n \in Nat /\ m \in Nat /\ m <= n OBVIOUS
  <1>2. \A k \in 1 .. m : p[k] \in 1 .. n BY DEF Chain
  <1>3. \A k \in 0 .. n : f[k] = IF k < m THEN p[k + 1] ELSE FREE_END OBVIOUS
  <1>4. f[0] = hd
    <2>1. m # 0 => 0 < m /\ p[0 + 1] = p[1] BY <1>1
    <2>2. hd = IF m = 0 THEN FREE_END ELSE p[1] BY DEF Chain
    <2>3. 0 \in 0 .. n BY <1>1
    <2> HIDE DEF n, f
    <2> QED BY <1>1, <1>3, <2>1, <2>2, <2>3
  <1>5. ASSUME NEW k \in 0 .. n, k # 0
        PROVE  f[k] = IF f[k - 1] = FREE_END THEN FREE_END ELSE S[f[k - 1]].next_free
    <2>1. k - 1 \in 0 .. n /\ (k - 1) + 1 = k /\ k \in Nat BY <1>1, <1>5
    <2>2. f[k - 1] = IF k - 1 < m THEN p[k] ELSE FREE_END BY <1>3, <2>1
    <2>3. CASE k - 1 < m
      <3>1. k \in 1 .. m BY <1>1, <1>5, <2>1, <2>3
      <3>2. p[k] # FREE_END BY <1>2, <3>1 DEF FREE_END
      <3>3. S[p[k]].next_free = IF k = m THEN FREE_END ELSE p[k + 1] BY <3>1 DEF Chain
      <3>4. k = m <=> ~(k < m) BY <1>1, <3>1
      <3>5. f[k] = IF k < m THEN p[k + 1] ELSE FREE_END BY <1>3
      <3> HIDE DEF n, f
      <3> QED BY <2>2, <2>3, <3>2, <3>3, <3>4, <3>5
    <2>4. CASE ~(k - 1 < m)
      <3>1. ~(k < m) BY <1>1, <2>1, <2>4
      <3>2. f[k] = FREE_END /\ f[k - 1] = FREE_END BY <1>3, <2>2, <2>4, <3>1
      <3> HIDE DEF n, f
      <3> QED BY <3>2
    <2> QED BY <2>3, <2>4
  <1>6. f = [k \in 0 .. n |-> IF k = 0 THEN hd
                              ELSE IF f[k - 1] = FREE_END THEN FREE_END
                              ELSE S[f[k - 1]].next_free]
    <2> DEFINE g == [k \in 0 .. n |-> IF k = 0 THEN hd
                              ELSE IF f[k - 1] = FREE_END THEN FREE_END
                              ELSE S[f[k - 1]].next_free]
    <2>1. f = [k \in 0 .. n |-> f[k]] OBVIOUS
    <2>2. g = [k \in 0 .. n |-> g[k]] OBVIOUS
    <2>3. \A k \in 0 .. n : g[k] = IF k = 0 THEN hd
                              ELSE IF f[k - 1] = FREE_END THEN FREE_END
                              ELSE S[f[k - 1]].next_free
          OBVIOUS
    <2> HIDE DEF f, g
    <2>4. \A k \in 0 .. n : f[k] = g[k] BY <1>4, <1>5, <2>3
    <2>5. f = g
      <3> HIDE DEF n
      <3> QED BY <2>1, <2>2, <2>4
    <2> QED BY <2>5 DEF g
  <1> HIDE DEF f
  <1>7. Walks(f, S, hd) BY <1>6 DEF Walks
  <1> QED BY <1>7 DEF f

\* The books say what SlotsAccounted asks.
LEMMA BooksAccount ==
  ASSUME IInv, AccountInv
  PROVE  SlotsAccounted
  <1> SUFFICES ASSUME NEW r \in open
               PROVE  LET walk == Walk(r)
                          free == {walk[k] : k \in DOMAIN walk} \ {FREE_END}
                          used == {x \in DOMAIN slots[r] : slots[r][x].used}
                          spent == DOMAIN slots[r] \ (free \cup used)
                      IN  /\ walk[Len(slots[r])] = FREE_END
                          /\ free \cap used = {}
                          /\ \A x \in spent : slots[r][x].gen = SLOT_GEN_MAX
                          /\ live[r] = Cardinality(used) /\ retired[r] = Cardinality(spent)
                          /\ \A o \in Objects :
                                refs[r][o] = Cardinality({x \in used : slots[r][x].v = o})
      BY DEF SlotsAccounted
  <1> DEFINE S == slots[r]
             n == Len(S)
             walk == Walk(r)
             free == {walk[k] : k \in DOMAIN walk} \ {FREE_END}
             used == {x \in DOMAIN S : S[x].used}
             spent == DOMAIN S \ (free \cup used)
  <1>1. S \in Seq(Slot) /\ r \in Runtimes BY DEF IInv, TypeInv
  <1>2. n \in Nat /\ DOMAIN S = 1 .. n BY <1>1
  <1>3. Books(r) BY DEF AccountInv
  <1> HIDE DEF S
  <1>a. PICK m \in 0 .. n : \E p \in [1 .. m -> 1 .. n] :
              /\ Chain(S, free_head[r], m, p)
              /\ \A x \in Spent(S, m, p) : S[x].gen = SLOT_GEN_MAX
              /\ retired[r] = Cardinality(Spent(S, m, p))
        BY <1>3 DEF Books, Listing, S
  <1>4. PICK p \in [1 .. m -> 1 .. n] :
              /\ Chain(S, free_head[r], m, p)
              /\ \A x \in Spent(S, m, p) : S[x].gen = SLOT_GEN_MAX
              /\ retired[r] = Cardinality(Spent(S, m, p))
        BY <1>a
  <1> DEFINE f == [k \in 0 .. n |-> IF k < m THEN p[k + 1] ELSE FREE_END]
  <1>5. Walks(f, S, free_head[r]) BY <1>1, <1>4, ChainWalk
  <1> HIDE DEF f
  <1>6. Walks(walk, S, free_head[r]) BY <1>5, WalkWalks DEF S
  <1> HIDE DEF walk
  <1>7. walk = f BY <1>2, <1>5, <1>6, WalkUnique
  <1>8. DOMAIN walk = 0 .. n /\ \A k \in 0 .. n : walk[k] = IF k < m THEN p[k + 1] ELSE FREE_END
        BY <1>7 DEF f
  <1>9. walk[n] = FREE_END BY <1>2, <1>8
  <1>10. free = Listed(m, p)
    <2>1. ASSUME NEW k \in 0 .. n, walk[k] # FREE_END PROVE walk[k] \in Listed(m, p)
      <3>1. k < m /\ walk[k] = p[k + 1] BY <1>8, <2>1
      <3>2. k + 1 \in 1 .. m BY <1>2, <3>1
      <3> QED BY <3>1, <3>2 DEF Listed
    <2>2. ASSUME NEW k \in 1 .. m PROVE p[k] \in free
      <3>1. k - 1 \in 0 .. n /\ k - 1 < m /\ (k - 1) + 1 = k BY <1>2
      <3>2. walk[k - 1] = p[k] BY <1>8, <3>1
      <3>3. p[k] # FREE_END BY <1>2 DEF FREE_END
      <3> QED BY <1>8, <3>1, <3>2, <3>3
    <2> QED BY <1>8, <2>1, <2>2 DEF Listed
  <1>11. used = Uses(S) BY <1>2 DEF Uses
  <1> HIDE DEF free, used
  <1>12. spent = Spent(S, m, p) BY <1>2, <1>10, <1>11 DEF Spent
  <1>13. free \cap used = {} BY <1>4, <1>10, <1>11 DEF Chain, Listed, Uses
  <1>14. live[r] = Cardinality(used) BY <1>3, <1>11 DEF Books, Balanced, S
  <1>15. \A o \in Objects : refs[r][o] = Cardinality({x \in used : S[x].v = o})
         BY <1>3, <1>11 DEF Books, Balanced, Holding, S
  <1> HIDE DEF spent
  <1>16. \A x \in spent : S[x].gen = SLOT_GEN_MAX BY <1>4, <1>12
  <1>17. retired[r] = Cardinality(spent) BY <1>4, <1>12
  <1> QED BY <1>9, <1>13, <1>14, <1>15, <1>16, <1>17 DEF spent, used, free, walk, S

---------------------------------------------------------------------------
\* A runtime whose registry is left alone keeps its books.
LEMMA BooksKept ==
  ASSUME NEW s, Books(s),
         slots'[s] = slots[s], free_head'[s] = free_head[s], live'[s] = live[s],
         retired'[s] = retired[s], refs'[s] = refs[s]
  PROVE  Books(s)'
  <1> QED BY DEF Books

\* An empty registry has empty books.
LEMMA BooksEmpty ==
  ASSUME NEW S, S = <<>>
  PROVE  Listing(S, FREE_END, 0) /\ Balanced(S, 0, NoRefs)
  <1>1. Len(S) = 0 OBVIOUS
  <1>2. 1 .. Len(S) = {} BY <1>1
  <1>3. Uses(S) = {} /\ \A o : Holding(S, o) = {} BY <1>2 DEF Uses, Holding
  <1>4. Cardinality({}) = 0 BY FS_EmptySet
  <1>5. Balanced(S, 0, NoRefs) BY <1>3, <1>4 DEF Balanced, NoRefs
  <1> DEFINE p == [k \in 1 .. 0 |-> 0]
  <1>6. 1 .. 0 = {} OBVIOUS
  <1>7. Chain(S, FREE_END, 0, p) BY <1>6 DEF Chain
  <1>8. Spent(S, 0, p) = {} BY <1>2 DEF Spent
  <1>9. p \in [1 .. 0 -> 1 .. Len(S)] BY <1>6
  <1>10. 0 \in 0 .. Len(S) BY <1>1
  <1> HIDE DEF p
  <1>11. Listing(S, FREE_END, 0) BY <1>4, <1>7, <1>8, <1>9, <1>10 DEF Listing
  <1> QED BY <1>5, <1>11

\* No runtime is open at first.
LEMMA InitAccount == Init => AccountInv
  <1> QED BY DEF Init, AccountInv, NoRefs

\* create and destroy.
LEMMA RuntimeAccount ==
  ASSUME IInv, AccountInv, NEW r \in Runtimes, Open(r) \/ Close(r)
  PROVE  AccountInv'
  <1>1. /\ slots' = [slots EXCEPT ![r] = <<>>]
        /\ free_head' = [free_head EXCEPT ![r] = FREE_END]
        /\ live' = [live EXCEPT ![r] = 0]
        /\ retired' = [retired EXCEPT ![r] = 0]
        /\ refs' = [refs EXCEPT ![r] = NoRefs]
        BY DEF Open, Close, EmptyRegistry
  <1>2. /\ slots \in [Runtimes -> Seq(Slot)] /\ free_head \in [Runtimes -> Nat]
        /\ live \in [Runtimes -> Nat] /\ retired \in [Runtimes -> Nat]
        /\ refs \in [Runtimes -> [Objects -> Nat]]
        BY DEF IInv, TypeInv, AccountInv
  <1>3. NoRefs \in [Objects -> Nat] BY DEF NoRefs
  <1>4. /\ live' \in [Runtimes -> Nat] /\ retired' \in [Runtimes -> Nat]
        /\ refs' \in [Runtimes -> [Objects -> Nat]]
        BY <1>1, <1>2, <1>3
  <1>5. open' \subseteq open \cup {r} /\ open \subseteq Runtimes
        BY DEF Open, Close, IInv, TypeInv
  <1>6. Books(r)'
    <2>1. /\ slots'[r] = <<>> /\ free_head'[r] = FREE_END /\ live'[r] = 0
          /\ retired'[r] = 0 /\ refs'[r] = NoRefs
          BY <1>1, <1>2
    <2> QED BY <2>1, BooksEmpty DEF Books
  <1>7. ASSUME NEW s \in open, s # r PROVE Books(s)'
    <2>1. /\ slots'[s] = slots[s] /\ free_head'[s] = free_head[s] /\ live'[s] = live[s]
          /\ retired'[s] = retired[s] /\ refs'[s] = refs[s] /\ Books(s)
          BY <1>1, <1>2, <1>5, <1>7 DEF AccountInv
    <2> QED BY <2>1, BooksKept
  <1> QED BY <1>4, <1>5, <1>6, <1>7 DEF AccountInv

\* The references of a registry after one more, or one less, on v.
LEMMA CountedMeans ==
  ASSUME AccountInv, NEW r \in Runtimes, NEW v, NEW d \in Int, Counted(r, v, d)
  PROVE  /\ \A s \in Runtimes : s # r => refs'[s] = refs[s]
         /\ \A o \in Objects : refs'[r][o] = IF v = o THEN refs[r][o] + d ELSE refs[r][o]
         /\ (\A o \in Objects : refs'[r][o] \in Nat) =>
               refs' \in [Runtimes -> [Objects -> Nat]]
  <1>1. refs \in [Runtimes -> [Objects -> Nat]] BY DEF AccountInv
  <1>2. CASE v \in Objects
    <2> DEFINE g == [refs[r] EXCEPT ![v] = @ + d]
    <2>1. refs' = [refs EXCEPT ![r] = g] BY <1>1, <1>2 DEF Counted
    <2>2. \A o \in Objects : g[o] = IF v = o THEN refs[r][o] + d ELSE refs[r][o]
          BY <1>1, <1>2
    <2>3. (\A o \in Objects : g[o] \in Nat) => g \in [Objects -> Nat]
      <3>1. g = [o \in Objects |-> IF v = o THEN refs[r][o] + d ELSE refs[r][o]]
            BY <1>1, <1>2
      <3> QED BY <3>1
    <2> HIDE DEF g
    <2>4. refs'[r] = g /\ \A s \in Runtimes : s # r => refs'[s] = refs[s] BY <1>1, <2>1
    <2> QED BY <1>1, <2>1, <2>2, <2>3, <2>4
  <1>3. CASE v \notin Objects BY <1>1, <1>3 DEF Counted
  <1> QED BY <1>2, <1>3

\* slot_alloc.
LEMMA AllocAccount ==
  ASSUME IInv, IInv', AccountInv, NEW r \in open, NEW v \in Values, slot_alloc(r, v)
  PROVE  AccountInv'
  <1>1. /\ slots \in [Runtimes -> Seq(Slot)] /\ slots' \in [Runtimes -> Seq(Slot)]
        /\ free_head \in [Runtimes -> Nat] /\ r \in Runtimes /\ open \subseteq Runtimes
        /\ live \in [Runtimes -> Nat] /\ retired \in [Runtimes -> Nat]
        /\ refs \in [Runtimes -> [Objects -> Nat]]
        BY DEF IInv, TypeInv, AccountInv
  <1>2. /\ open' = open /\ retired' = retired /\ live' = [live EXCEPT ![r] = @ + 1]
        /\ Counted(r, v, 1)
        BY DEF slot_alloc, runtime
  <1>3. /\ live' \in [Runtimes -> Nat] /\ live'[r] = live[r] + 1
        /\ \A s \in Runtimes : s # r => live'[s] = live[s]
        BY <1>1, <1>2
  <1>4. /\ \A s \in Runtimes : s # r => refs'[s] = refs[s]
        /\ \A o \in Objects : refs'[r][o] = IF v = o THEN refs[r][o] + 1 ELSE refs[r][o]
        /\ (\A o \in Objects : refs'[r][o] \in Nat) =>
              refs' \in [Runtimes -> [Objects -> Nat]]
    <2>1. 1 \in Int OBVIOUS
    <2> QED BY <1>1, <1>2, <2>1, CountedMeans
  <1>5. refs' \in [Runtimes -> [Objects -> Nat]]
    <2>1. \A o \in Objects : refs[r][o] \in Nat BY <1>1
    <2> QED BY <1>4, <2>1
  <1> DEFINE S == slots[r]
             T == slots'[r]
  <1>6. /\ Listing(S, free_head[r], retired[r])
        /\ live[r] = Cardinality(Uses(S))
        /\ \A o \in Objects : refs[r][o] = Cardinality(Holding(S, o))
        BY DEF AccountInv, Books, Balanced
  <1>7. S \in Seq(Slot) /\ T \in Seq(Slot) BY <1>1
  <1>8. /\ Listing(T, free_head'[r], retired[r])
        /\ \A s \in Runtimes : s # r => slots'[s] = slots[s] /\ free_head'[s] = free_head[s]
        /\ \E idx \in 1 .. Len(T) :
              /\ 1 .. Len(T) = (1 .. Len(S)) \cup {idx}
              /\ idx \notin Uses(S) /\ T[idx].used /\ T[idx].v = v
              /\ \A x \in 1 .. Len(S) : x # idx => T[x] = S[x]
    <2>1. CASE AllocFree(r, v)
      <3> DEFINE hd == free_head[r]
                 f  == [S[hd] EXCEPT !.v = v, !.used = TRUE]
      <3>1. /\ hd # FREE_END
            /\ free_head' = [free_head EXCEPT ![r] = S[hd].next_free]
            /\ slots' = [slots EXCEPT ![r] = [slots[r] EXCEPT ![hd] = f]]
            BY <2>1 DEF AllocFree
      <3>2. hd \in 1 .. Len(S) /\ ~S[hd].used
        <4>1. hd \in Fresh(r) BY <3>1 DEF IInv, FreeInv, FreeOk
        <4> QED BY <4>1 DEF Fresh
      <3>3. S[hd] \in Slot BY <1>7, <3>2
      <3>4. f \in Slot /\ f.used /\ f.v = v /\ f.gen = S[hd].gen BY <3>3 DEF Slot
      <3>5. /\ Len(T) = Len(S) /\ T[hd] = f
            /\ \A x \in 1 .. Len(S) : x # hd => T[x] = S[x]
            /\ \A s \in Runtimes : s # r => slots'[s] = slots[s]
        <4> HIDE DEF hd, f
        <4> QED BY <1>1, <3>1, <3>2, <3>4, SlotSet
      <3>6. /\ free_head'[r] = S[hd].next_free
            /\ \A s \in Runtimes : s # r => free_head'[s] = free_head[s]
            BY <1>1, <3>1
      <3> HIDE DEF hd, f, S, T
      <3>7. Listing(T, S[hd].next_free, retired[r])
            BY <1>6, <1>7, <3>1, <3>4, <3>5, ListPop DEF hd
      <3>8. 1 .. Len(T) = (1 .. Len(S)) \cup {hd} /\ hd \in 1 .. Len(T) /\ hd \notin Uses(S)
            BY <3>2, <3>5 DEF Uses
      <3> QED BY <3>4, <3>5, <3>6, <3>7, <3>8
    <2>2. CASE AllocNew(r, v)
      <3> DEFINE f == [v |-> v, gen |-> 1, next_free |-> 0, used |-> TRUE]
      <3>1. /\ free_head[r] = FREE_END /\ free_head' = free_head
            /\ slots' = [slots EXCEPT ![r] = Append(slots[r], f)]
            BY <2>2 DEF AllocNew
      <3>2. f \in Slot /\ f.used /\ f.v = v BY LimitsAssumption DEF Slot
      <3> HIDE DEF f
      <3>3. T = Append(S, f) /\ \A s \in Runtimes : s # r => slots'[s] = slots[s]
            BY <1>1, <3>1
      <3>4. /\ Len(S) \in Nat /\ Len(T) = Len(S) + 1 /\ T[Len(S) + 1] = f
            /\ \A x \in 1 .. Len(S) : T[x] = S[x]
            BY <1>7, <3>2, <3>3
      <3> HIDE DEF S, T
      <3>5. Listing(T, FREE_END, retired[r])
            BY <1>6, <1>7, <3>1, <3>2, <3>3, ListAppend
      <3>6. /\ 1 .. Len(T) = (1 .. Len(S)) \cup {Len(S) + 1}
            /\ Len(S) + 1 \in 1 .. Len(T) /\ Len(S) + 1 \notin 1 .. Len(S)
            BY <3>4
      <3>7. Len(S) + 1 \notin Uses(S) BY <3>6 DEF Uses
      <3> QED BY <3>1, <3>2, <3>3, <3>4, <3>5, <3>6, <3>7
    <2> QED BY <2>1, <2>2 DEF slot_alloc
  <1> HIDE DEF S, T
  <1>9. PICK idx \in 1 .. Len(T) :
              /\ 1 .. Len(T) = (1 .. Len(S)) \cup {idx}
              /\ idx \notin Uses(S) /\ T[idx].used /\ T[idx].v = v
              /\ \A x \in 1 .. Len(S) : x # idx => T[x] = S[x]
        BY <1>8
  <1>10. /\ Cardinality(Uses(T)) = Cardinality(Uses(S)) + 1
         /\ \A o : Cardinality(Holding(T, o)) =
                     IF T[idx].v = o THEN Cardinality(Holding(S, o)) + 1
                     ELSE Cardinality(Holding(S, o))
         BY <1>7, <1>9, UseMore
  <1>11. live'[r] = Cardinality(Uses(T)) BY <1>3, <1>6, <1>10
  <1>12. \A o \in Objects : refs'[r][o] = Cardinality(Holding(T, o))
         BY <1>4, <1>6, <1>9, <1>10
  <1>13. Books(r)' BY <1>2, <1>8, <1>11, <1>12 DEF Books, Balanced, T
  <1>14. ASSUME NEW s \in open, s # r PROVE Books(s)'
    <2>1. Books(s) /\ s \in Runtimes BY <1>1 DEF AccountInv
    <2> QED BY <1>2, <1>3, <1>4, <1>8, <1>14, <2>1, BooksKept
  <1> QED BY <1>1, <1>2, <1>3, <1>5, <1>13, <1>14 DEF AccountInv

\* slot_release.
LEMMA FreeAccount ==
  ASSUME IInv, IInv', AccountInv, NEW r \in Runtimes, NEW h \in Held, Free(r, h)
  PROVE  AccountInv'
  <1>1. /\ slots \in [Runtimes -> Seq(Slot)] /\ slots' \in [Runtimes -> Seq(Slot)]
        /\ free_head \in [Runtimes -> Nat] /\ r \in open /\ open \subseteq Runtimes
        /\ live \in [Runtimes -> Nat] /\ retired \in [Runtimes -> Nat]
        /\ refs \in [Runtimes -> [Objects -> Nat]]
        BY DEF IInv, TypeInv, AccountInv, Free
  <1> DEFINE S   == slots[r]
             T   == slots'[r]
             idx == h.index
             v   == S[idx].v
  <1>2. /\ open' = open /\ Release(r, idx) /\ Counted(r, v, -1)
        /\ live' = IF live[r] > 0 THEN [live EXCEPT ![r] = @ - 1] ELSE live
        /\ idx \in 1 .. Len(S) /\ S[idx].used
        BY DEF Free, runtime, Resolves, slot_get
  <1>3. S \in Seq(Slot) /\ T \in Seq(Slot) BY <1>1
  <1>4. S[idx] \in Slot BY <1>2, <1>3
  <1>5. /\ Listing(S, free_head[r], retired[r])
        /\ live[r] = Cardinality(Uses(S))
        /\ \A o \in Objects : refs[r][o] = Cardinality(Holding(S, o))
        BY <1>1 DEF AccountInv, Books, Balanced
  <1>6. PICK f \in Slot :
           /\ slots' = [slots EXCEPT ![r] = [slots[r] EXCEPT ![idx] = f]]
           /\ ~f.used
           /\ \/ /\ f.gen = SLOT_GEN_MAX
                 /\ retired' = [retired EXCEPT ![r] = @ + 1]
                 /\ free_head' = free_head
              \/ /\ f.next_free = free_head[r]
                 /\ free_head' = [free_head EXCEPT ![r] = idx]
                 /\ retired' = retired
    <2> DEFINE e == S[idx]
    <2>1. e.gen \in 1 .. SLOT_GEN_MAX /\ e.next_free \in Nat /\ Undefined \in Values
          BY <1>4 DEF Slot, Values
    <2>2. SLOT_GEN_MAX \in Nat BY LimitsAssumption
    <2>3. CASE e.gen >= SLOT_GEN_MAX
      <3> DEFINE f == [e EXCEPT !.v = Undefined, !.used = FALSE]
      <3>1. f \in Slot /\ ~f.used /\ f.gen = e.gen BY <1>4, <2>1 DEF Slot
      <3>2. e.gen = SLOT_GEN_MAX
        <4> HIDE DEF e
        <4> QED BY <2>1, <2>2, <2>3
      <3>3. /\ slots' = [slots EXCEPT ![r] = [slots[r] EXCEPT ![idx] = f]]
            /\ retired' = [retired EXCEPT ![r] = @ + 1]
            /\ free_head' = free_head
            BY <1>2, <2>3 DEF Release
      <3> HIDE DEF f
      <3> QED BY <3>1, <3>2, <3>3
    <2>4. CASE ~(e.gen >= SLOT_GEN_MAX)
      <3> DEFINE f == [v |-> Undefined, gen |-> e.gen + 1,
                       next_free |-> free_head[r], used |-> FALSE]
      <3>1. e.gen + 1 \in 1 .. SLOT_GEN_MAX
        <4> HIDE DEF e
        <4> QED BY <2>1, <2>2, <2>4
      <3>2. free_head[r] \in Nat BY <1>1
      <3>3. f \in Slot /\ ~f.used /\ f.next_free = free_head[r]
            BY <2>1, <3>1, <3>2 DEF Slot
      <3>4. /\ slots' = [slots EXCEPT ![r] = [slots[r] EXCEPT ![idx] = f]]
            /\ free_head' = [free_head EXCEPT ![r] = idx]
            /\ retired' = retired
            BY <1>2, <2>4 DEF Release
      <3> HIDE DEF f
      <3> QED BY <3>3, <3>4
    <2> QED BY <2>3, <2>4
  <1> HIDE DEF v, idx
  <1>7. /\ Len(T) = Len(S) /\ T[idx] = f
        /\ \A x \in 1 .. Len(S) : x # idx => T[x] = S[x]
        /\ \A s \in Runtimes : s # r => slots'[s] = slots[s]
        BY <1>1, <1>2, <1>6, SlotSet
  <1> HIDE DEF S, T
  <1>8. /\ Cardinality(Uses(T)) = Cardinality(Uses(S)) - 1
        /\ Cardinality(Uses(S)) > 0 /\ Cardinality(Uses(T)) \in Nat
        /\ \A o : /\ Cardinality(Holding(T, o)) =
                       IF S[idx].v = o THEN Cardinality(Holding(S, o)) - 1
                       ELSE Cardinality(Holding(S, o))
                  /\ Cardinality(Holding(T, o)) \in Nat
        BY <1>2, <1>3, <1>6, <1>7, UseLess
  <1>9. /\ live' \in [Runtimes -> Nat] /\ live'[r] = Cardinality(Uses(T))
        /\ \A s \in Runtimes : s # r => live'[s] = live[s]
    <2>1. live' = [live EXCEPT ![r] = @ - 1] BY <1>2, <1>5, <1>8
    <2>2. live[r] - 1 = Cardinality(Uses(T)) BY <1>5, <1>8
    <2> QED BY <1>1, <1>8, <2>1, <2>2
  <1>10. /\ \A s \in Runtimes : s # r => refs'[s] = refs[s]
         /\ \A o \in Objects : refs'[r][o] = IF v = o THEN refs[r][o] + (-1) ELSE refs[r][o]
         /\ (\A o \in Objects : refs'[r][o] \in Nat) =>
               refs' \in [Runtimes -> [Objects -> Nat]]
    <2>1. -1 \in Int OBVIOUS
    <2> QED BY <1>1, <1>2, <2>1, CountedMeans
  <1>11. \A o \in Objects : refs'[r][o] = Cardinality(Holding(T, o))
    <2> SUFFICES ASSUME NEW o \in Objects PROVE refs'[r][o] = Cardinality(Holding(T, o))
        OBVIOUS
    <2>1. refs[r][o] = Cardinality(Holding(S, o)) /\ refs[r][o] \in Nat BY <1>1, <1>5
    <2>2. refs[r][o] + (-1) = refs[r][o] - 1 BY <2>1
    <2>3. v = S[idx].v BY DEF v
    <2> QED BY <1>8, <1>10, <2>1, <2>2, <2>3
  <1>12. refs' \in [Runtimes -> [Objects -> Nat]] BY <1>8, <1>10, <1>11
  <1>13. /\ Listing(T, free_head'[r], retired'[r])
         /\ retired' \in [Runtimes -> Nat]
         /\ \A s \in Runtimes : s # r =>
               free_head'[s] = free_head[s] /\ retired'[s] = retired[s]
    <2>1. CASE /\ f.gen = SLOT_GEN_MAX
               /\ retired' = [retired EXCEPT ![r] = @ + 1]
               /\ free_head' = free_head
      <3>1. Listing(T, free_head[r], retired[r] + 1)
            BY <1>2, <1>3, <1>5, <1>6, <1>7, <2>1, ListRetire
      <3> QED BY <1>1, <2>1, <3>1
    <2>2. CASE /\ f.next_free = free_head[r]
               /\ free_head' = [free_head EXCEPT ![r] = idx]
               /\ retired' = retired
      <3>1. Listing(T, idx, retired[r])
            BY <1>2, <1>3, <1>5, <1>6, <1>7, <2>2, ListPush
      <3> QED BY <1>1, <2>2, <3>1
    <2> QED BY <1>6, <2>1, <2>2
  <1>14. Books(r)' BY <1>9, <1>11, <1>13 DEF Books, Balanced, T
  <1>15. ASSUME NEW s \in open, s # r PROVE Books(s)'
    <2>1. Books(s) /\ s \in Runtimes BY <1>1 DEF AccountInv
    <2> QED BY <1>7, <1>9, <1>10, <1>13, <1>15, <2>1, BooksKept
  <1> QED BY <1>1, <1>2, <1>9, <1>12, <1>13, <1>14, <1>15 DEF AccountInv

\* Every step keeps the books.
LEMMA NextAccount == IInv /\ IInv' /\ AccountInv /\ [Next]_vars => AccountInv'
  <1> SUFFICES ASSUME IInv, IInv', AccountInv, [Next]_vars PROVE AccountInv' OBVIOUS
  <1>1. ASSUME NEW r \in Runtimes, Open(r) \/ Close(r) PROVE AccountInv'
        BY <1>1, RuntimeAccount
  <1>2. ASSUME NEW r \in Runtimes, Store(r) PROVE AccountInv'
        BY <1>2, AllocAccount DEF Store
  <1>3. ASSUME NEW r \in Runtimes, NEW h \in Held, Persist(r, h) PROVE AccountInv'
    <2>1. PICK d \in Contexts(r) : ResolvesIn(r, d, h) /\ slot_alloc(r, ValueIn(r, d, h))
          BY <1>3 DEF Persist
    <2>2. ValueIn(r, d, h) \in Values BY <2>1, ValueType
    <2> QED BY <1>3, <2>1, <2>2, AllocAccount DEF Persist
  <1>4. ASSUME NEW r \in Runtimes, NEW h \in Held, Free(r, h) PROVE AccountInv'
        BY <1>4, FreeAccount
  <1>5. ASSUME UNCHANGED <<registry, open>> PROVE AccountInv'
        BY <1>5 DEF registry, AccountInv, Books
  <1>6. ASSUME NEW r \in Runtimes, Enter(r) \/ Return(r) \/ Take(r) PROVE AccountInv'
        BY <1>5, <1>6 DEF Enter, Return, Take, runtime
  <1>7. CASE UNCHANGED vars BY <1>5, <1>7 DEF vars, runtime
  <1> QED BY <1>1, <1>2, <1>3, <1>4, <1>6, <1>7 DEF Next

\* Whatever the host allocates, frees, opens and closes, every slot of a
\* registry is in use, on the free list or retired, each in one role; the list
\* ends, and live, retired and the references are what the slots say
\* (slot_alloc, slot_release).
THEOREM SlotsAreAccounted == Spec => []SlotsAccounted
  <1>1. Spec => []IInv BY InitInv, NextInv, PTL DEF Spec
  <1>2. Spec => []AccountInv BY <1>1, InitAccount, NextAccount, PTL DEF Spec
  <1> QED BY <1>1, <1>2, BooksAccount, PTL

=============================================================================
