---------------------------- MODULE HostHandles ----------------------------
(***************************************************************************)
(* The values a host holds (embed.c3, capi.c3): each runtime's registry of *)
(* slots, whose handles live until bk_free or bk_close, and the scopes of  *)
(* the host callbacks that are running (heap.c3, builtins/core.c3), whose  *)
(* handles name the arguments of a call.  The host may pass any handle it  *)
(* ever got to any runtime.                                                *)
(*                                                                         *)
(* A handle is a record of the fields of its 64-bit word; the word 0, "no  *)
(* value", is never recorded as given out.  Slots count from 1, as the     *)
(* index in a handle does; 0 stands for SLOT_FREE_END.                     *)
(***************************************************************************)
EXTENDS Integers, Sequences, FiniteSets, TLC

CONSTANTS
    Runtimes,          \* addresses a Runtime may be allocated at
    Objects,           \* heap values, which are reference counted
    Undefined,         \* a value that is not
    RT_ID_MASK,        \* largest runtime id
    SLOT_GEN_MAX,      \* largest generation
    SLOT_INITIAL_CAP,
    SLOT_INDEX_LIMIT,  \* most slots a registry can have
    MaxOpened,         \* bounds of the instance: runtimes opened,
    MaxOwned,          \* registry handles given out,
    MaxCalls,          \* callbacks entered,
    MaxArgs,           \* arguments of a callback,
    MaxTaken           \* scope handles given out

Values == Objects \cup {Undefined}

ASSUME LimitsAssumption ==
    /\ {SLOT_GEN_MAX, SLOT_INITIAL_CAP, SLOT_INDEX_LIMIT} \subseteq Nat \ {0}
    /\ {RT_ID_MASK, MaxOwned, MaxCalls, MaxArgs, MaxTaken} \subseteq Nat
    /\ Undefined \notin Objects

\* Runtime ids are not reused: at most RT_ID_MASK runtimes are ever opened.
ASSUME OpenedAssumption == MaxOpened \in 0 .. RT_ID_MASK

VARIABLES
    open,          \* the runtimes that exist
    next_id,       \* g_next_rt_id
    rt_id,         \* of each runtime
    slots,         \* the registry up to slot_count
    slot_cap,
    free_head,
    live,
    retired,
    refs,          \* the references each registry holds on each object
    scopes,        \* host_scopes: values of the running callbacks, innermost last
    birth,         \* history: how many runtimes were opened when this one was
    opened,        \* history: runtimes opened so far
    owned,         \* history: the registry handles given out
    freed,         \* history: the numbers of those released
    calls,         \* history: the numbers of the running callbacks
    entered,       \* history: callbacks entered so far
    taken          \* history: the scope handles given out

registry == <<slots, slot_cap, free_head, live, retired, refs>>
runtime  == <<open, next_id, rt_id, birth, opened>>
callback == <<scopes, calls, entered>>
vars     == <<registry, runtime, callback, owned, freed, taken>>

FREE_END == 0

---------------------------------------------------------------------------
(***************************************************************************)
(* Handles and what they resolve to.                                       *)
(***************************************************************************)
\* The word slot_alloc returns for a slot of the runtime r.
slot_handle(r, idx, gen) ==
    [rt |-> rt_id[r], scope |-> FALSE, gen |-> gen % (SLOT_GEN_MAX + 1), index |-> idx]

scope_handle(r, idx) == [rt |-> rt_id[r], scope |-> TRUE, gen |-> 0, index |-> idx]

\* slot_entry finds an entry for h.
Resolves(r, h) ==
    /\ ~h.scope
    /\ h.rt = rt_id[r]
    /\ h.index \in 1 .. Len(slots[r])
    /\ LET e == slots[r][h.index]
       IN  /\ e.used
           /\ h.gen = e.gen % (SLOT_GEN_MAX + 1)

slot_get(r, h) == slots[r][h.index].v

\* A broken variant: the innermost scope answers for every call.
ScopeValueInnermost(r, d, idx) ==
    LET values == scopes[r][Len(scopes[r])]
    IN  IF idx < Len(values) THEN values[idx + 1] ELSE Undefined

\* host_this, host_new_target and host_arg of the call whose scope is d; an
\* argument past the last one is undefined.
ScopeValue(r, d, idx) ==
    LET values == scopes[r][d]
    IN  IF idx < Len(values) THEN values[idx + 1] ELSE Undefined

\* resolve_handle through the context of call d, or the root context if d = 0.
ResolvesIn(r, d, h) ==
    \/ h.scope /\ d # 0 /\ h.rt = rt_id[r]
    \/ Resolves(r, h)

ValueIn(r, d, h) == IF h.scope THEN ScopeValue(r, d, h.index) ELSE slot_get(r, h)

Contexts(r) == 0 .. Len(scopes[r])

---------------------------------------------------------------------------
(***************************************************************************)
(* The registry.                                                           *)
(***************************************************************************)
\* slot_grow: the capacity it asks for; the step is not taken without memory.
NewCap(cap) ==
    LET twice == IF cap = 0 THEN SLOT_INITIAL_CAP ELSE 2 * cap
    IN  IF twice > SLOT_INDEX_LIMIT THEN SLOT_INDEX_LIMIT ELSE twice

Counted(r, v, n) ==
    refs' = IF v \in Objects THEN [refs EXCEPT ![r][v] = @ + n] ELSE refs

\* The host is given a handle: it owns the value v until it frees it.
GiveOut(r, v, h) ==
    owned' = owned \cup
        {[n |-> Cardinality(owned) + 1, h |-> h, rt |-> r, birth |-> birth[r], v |-> v]}

\* slot_alloc with a slot from the free list.
AllocFree(r, v) ==
    LET idx == free_head[r]
    IN  /\ idx # FREE_END
        /\ free_head' = [free_head EXCEPT ![r] = slots[r][idx].next_free]
        /\ slots' = [slots EXCEPT ![r] =
                       [slots[r] EXCEPT ![idx] =
                          [slots[r][idx] EXCEPT !.v = v, !.used = TRUE]]]
        /\ GiveOut(r, v, slot_handle(r, idx, slots[r][idx].gen))
        /\ UNCHANGED slot_cap

\* slot_alloc with a slot past the last one.
AllocNew(r, v) ==
    LET count == Len(slots[r])
        full  == count = slot_cap[r]
    IN  /\ free_head[r] = FREE_END
        /\ count < SLOT_INDEX_LIMIT
        /\ full => NewCap(slot_cap[r]) > slot_cap[r]
        /\ slot_cap' = IF full THEN [slot_cap EXCEPT ![r] = NewCap(@)] ELSE slot_cap
        /\ slots' = [slots EXCEPT ![r] =
                       Append(slots[r], [v |-> v, gen |-> 1, next_free |-> 0, used |-> TRUE])]
        /\ GiveOut(r, v, slot_handle(r, count + 1, 1))
        /\ UNCHANGED free_head

slot_alloc(r, v) ==
    /\ Cardinality(owned) < MaxOwned
    /\ AllocFree(r, v) \/ AllocNew(r, v)
    /\ Counted(r, v, 1)
    /\ live' = [live EXCEPT ![r] = @ + 1]
    /\ UNCHANGED <<retired, freed, taken, runtime, callback>>

\* bk_eval, bk_call, the constructors: a new value is stored in the registry.
Store(r) == r \in open /\ \E v \in Values : slot_alloc(r, v)

\* bk_persist of a handle through some context.
Persist(r, h) ==
    /\ r \in open
    /\ \E d \in Contexts(r) : ResolvesIn(r, d, h) /\ slot_alloc(r, ValueIn(r, d, h))

\* Broken variants: a slot at the last generation is listed again with the
\* first one; the slot's old successor stays.
ReleaseWraps(r, idx) ==
    LET e == slots[r][idx]
        gen == IF e.gen = SLOT_GEN_MAX THEN 1 ELSE e.gen + 1
    IN  /\ slots' = [slots EXCEPT ![r] = [@ EXCEPT ![idx] =
                       [v |-> Undefined, gen |-> gen, next_free |-> free_head[r], used |-> FALSE]]]
        /\ free_head' = [free_head EXCEPT ![r] = idx]
        /\ UNCHANGED retired
ReleaseUnlinked(r, idx) ==
    LET e == slots[r][idx]
    IN  IF e.gen >= SLOT_GEN_MAX
        THEN /\ slots' = [slots EXCEPT ![r] = [@ EXCEPT ![idx] =
                            [@ EXCEPT !.v = Undefined, !.used = FALSE]]]
             /\ retired' = [retired EXCEPT ![r] = @ + 1]
             /\ UNCHANGED free_head
        ELSE /\ slots' = [slots EXCEPT ![r] = [@ EXCEPT ![idx] =
                            [@ EXCEPT !.v = Undefined, !.gen = @ + 1, !.used = FALSE]]]
             /\ free_head' = [free_head EXCEPT ![r] = idx]
             /\ UNCHANGED retired

\* The slot of a released handle: retired at the last generation, otherwise
\* given the next one and put at the head of the free list.
Release(r, idx) ==
    LET e == slots[r][idx]
    IN  IF e.gen >= SLOT_GEN_MAX
        THEN /\ slots' = [slots EXCEPT ![r] = [slots[r] EXCEPT ![idx] =
                            [e EXCEPT !.v = Undefined, !.used = FALSE]]]
             /\ retired' = [retired EXCEPT ![r] = @ + 1]
             /\ UNCHANGED free_head
        ELSE /\ slots' = [slots EXCEPT ![r] = [slots[r] EXCEPT ![idx] =
                            [v |-> Undefined, gen |-> e.gen + 1,
                             next_free |-> free_head[r], used |-> FALSE]]]
             /\ free_head' = [free_head EXCEPT ![r] = idx]
             /\ UNCHANGED retired

\* bk_free (slot_release) of a handle the host holds, as runtime r sees it: a
\* stale one, another runtime's and a scope handle are ignored.
Free(r, h) ==
    /\ r \in open
    /\ Resolves(r, h)
    /\ Release(r, h.index)
    /\ Counted(r, slot_get(r, h), -1)
    /\ live' = IF live[r] > 0 THEN [live EXCEPT ![r] = @ - 1] ELSE live
    /\ freed' = freed \cup {i.n : i \in {j \in owned : j.rt = r /\ j.birth = birth[r] /\ j.h = h}}
    /\ UNCHANGED <<slot_cap, owned, taken, runtime, callback>>

---------------------------------------------------------------------------
(***************************************************************************)
(* Runtimes.                                                               *)
(***************************************************************************)
NoRefs == [o \in Objects |-> 0]

EmptyRegistry(r) ==
    /\ slots' = [slots EXCEPT ![r] = <<>>]
    /\ slot_cap' = [slot_cap EXCEPT ![r] = 0]
    /\ free_head' = [free_head EXCEPT ![r] = FREE_END]
    /\ live' = [live EXCEPT ![r] = 0]
    /\ retired' = [retired EXCEPT ![r] = 0]
    /\ refs' = [refs EXCEPT ![r] = NoRefs]

\* create.  Id 0 is skipped when the counter wraps.
Open(r) ==
    /\ r \notin open
    /\ opened < MaxOpened
    /\ LET id == next_id % (RT_ID_MASK + 1)
       IN  /\ rt_id' = [rt_id EXCEPT ![r] = IF id = 0 THEN 1 ELSE id]
           /\ next_id' = IF id = 0 THEN 2 ELSE next_id + 1
    /\ open' = open \cup {r}
    /\ opened' = opened + 1
    /\ birth' = [birth EXCEPT ![r] = opened + 1]
    /\ EmptyRegistry(r)
    /\ UNCHANGED <<callback, owned, freed, taken>>

\* destroy, which the header forbids inside a callback: the references are
\* dropped, and the registry and the Runtime freed.
Close(r) ==
    /\ r \in open
    /\ scopes[r] = <<>>
    /\ open' = open \ {r}
    /\ rt_id' = [rt_id EXCEPT ![r] = 0]
    /\ birth' = [birth EXCEPT ![r] = 0]
    /\ EmptyRegistry(r)
    /\ UNCHANGED <<next_id, opened, callback, owned, freed, taken>>

---------------------------------------------------------------------------
(***************************************************************************)
(* Callbacks.                                                              *)
(***************************************************************************)
\* this, new.target and the arguments: new.target is undefined in a plain call,
\* and this is an object in a construction.
CallValues ==
    {values \in UNION {[1 .. n -> Values] : n \in 2 .. 2 + MaxArgs} :
        values[2] # Undefined => values[1] \in Objects}

\* The dispatch of a host function: host_scope_push, then this, new.target and
\* the arguments are copied; the handler runs until Return.
Enter(r) ==
    /\ r \in open
    /\ entered < MaxCalls
    /\ entered' = entered + 1
    /\ \E values \in CallValues : scopes' = [scopes EXCEPT ![r] = Append(@, values)]
    /\ calls' = [calls EXCEPT ![r] = Append(@, entered + 1)]
    /\ UNCHANGED <<registry, runtime, owned, freed, taken>>

\* The handler returns: host_scope_pop.
Return(r) ==
    /\ r \in open
    /\ scopes[r] # <<>>
    /\ scopes' = [scopes EXCEPT ![r] = SubSeq(@, 1, Len(@) - 1)]
    /\ calls' = [calls EXCEPT ![r] = SubSeq(@, 1, Len(@) - 1)]
    /\ UNCHANGED <<entered, registry, runtime, owned, freed, taken>>

\* bk_this, bk_new_target or bk_arg, with the context of a running call.
Take(r) ==
    /\ r \in open
    /\ Cardinality(taken) < MaxTaken
    /\ \E d \in 1 .. Len(scopes[r]), idx \in 0 .. 1 + MaxArgs :
          taken' = taken \cup
              {[h |-> scope_handle(r, idx), rt |-> r, birth |-> birth[r],
                call |-> calls[r][d], v |-> ScopeValue(r, d, idx)]}
    /\ UNCHANGED <<registry, runtime, callback, owned, freed>>

---------------------------------------------------------------------------
Init ==
    /\ open = {} /\ next_id = 1 /\ opened = 0
    /\ rt_id = [r \in Runtimes |-> 0]
    /\ birth = [r \in Runtimes |-> 0]
    /\ slots = [r \in Runtimes |-> <<>>]
    /\ slot_cap = [r \in Runtimes |-> 0]
    /\ free_head = [r \in Runtimes |-> FREE_END]
    /\ live = [r \in Runtimes |-> 0]
    /\ retired = [r \in Runtimes |-> 0]
    /\ refs = [r \in Runtimes |-> NoRefs]
    /\ scopes = [r \in Runtimes |-> <<>>]
    /\ calls = [r \in Runtimes |-> <<>>]
    /\ entered = 0
    /\ owned = {} /\ freed = {} /\ taken = {}

\* Every handle the host has been given.
Held == {i.h : i \in owned} \cup {t.h : t \in taken}

Next ==
    \E r \in Runtimes :
        \/ Open(r) \/ Close(r)
        \/ Store(r)
        \/ \E h \in Held : Persist(r, h)
        \/ \E h \in Held : Free(r, h)
        \/ Enter(r) \/ Return(r) \/ Take(r)

Spec == Init /\ [][Next]_vars

\* Runtimes are interchangeable, and so are objects.
Symmetric == Permutations(Runtimes) \cup Permutations(Objects)

---------------------------------------------------------------------------
(***************************************************************************)
(* Properties.                                                             *)
(***************************************************************************)
\* Whether r is still the runtime that gave out x.
From(x, r) == x.rt = r /\ x.birth = birth[r]

\* A registry handle resolves exactly in the runtime that gave it out and until
\* it is freed, to the value it was given for.
ResolvesExactly ==
    \A i \in owned, r \in open :
        /\ Resolves(r, i.h) <=> From(i, r) /\ i.n \notin freed
        /\ Resolves(r, i.h) => slot_get(r, i.h) = i.v

\* No handle is ever given out twice.
NeverReissued == \A i, j \in owned : i.h = j.h => i = j

\* "A freed handle is retired, not recycled blindly" (boomkat.h): whatever the
\* host allocates, frees (twice, or in the wrong runtime), opens and closes, a
\* handle means its own value or nothing.
OwnedExact == ResolvesExactly /\ NeverReissued

\* The slots from free_head on, as slot_alloc would take them; 0 ends the list.
Walk(r) ==
    LET walk[k \in 0 .. Len(slots[r])] ==
          IF k = 0 THEN free_head[r]
          ELSE IF walk[k - 1] = FREE_END THEN FREE_END
          ELSE slots[r][walk[k - 1]].next_free
    IN  walk

\* No slot is lost or in two roles: each one is in use, on the free list, which
\* ends, or retired at its last generation; the registry's references on the
\* heap are those of the slots in use.
SlotsAccounted ==
    \A r \in open :
        LET walk == Walk(r)
            free == {walk[k] : k \in DOMAIN walk} \ {FREE_END}
            used == {x \in DOMAIN slots[r] : slots[r][x].used}
            spent == DOMAIN slots[r] \ (free \cup used)
        IN  /\ walk[Len(slots[r])] = FREE_END
            /\ free \cap used = {}
            /\ \A x \in spent : slots[r][x].gen = SLOT_GEN_MAX
            /\ live[r] = Cardinality(used) /\ retired[r] = Cardinality(spent)
            /\ \A o \in Objects :
                  refs[r][o] = Cardinality({x \in used : slots[r][x].v = o})

\* A scope handle read through the context it was taken from is the value the
\* call was made with, whatever calls were made and returned inside it.
ScopedRight ==
    \A t \in taken : \A d \in 1 .. Len(scopes[t.rt]) :
        From(t, t.rt) /\ calls[t.rt][d] = t.call =>
            ResolvesIn(t.rt, d, t.h) /\ ValueIn(t.rt, d, t.h) = t.v

\* "a handle used after its callback returned fails the check" (heap.c3:460): a
\* scope handle resolves in its own call only.
ScopeHandlesExpire ==
    \A t \in taken, r \in open : \A d \in Contexts(r) :
        ResolvesIn(r, d, t.h) => d # 0 /\ From(t, r) /\ calls[r][d] = t.call

=============================================================================
