------------------------------- MODULE Shapes -------------------------------
(***************************************************************************)
(* Hidden classes and inline caches: heap.c3 "Shape (hidden class) system",*)
(* hobject.c3 put_prop, set_prop_flags, make_shape_private, delete_prop,   *)
(* and the property opcodes of vm/vm_property.c3.                          *)
(*                                                                         *)
(* Objects that gain the same properties in the same order share a shape   *)
(* of the transition tree; a delete or a change of attributes gives an     *)
(* object a private flat shape, whose slot is recycled when the next one   *)
(* replaces it.  Caches remember where a property was by shape id, so a    *)
(* recycled id must never be taken for the shape it named before.          *)
(*                                                                         *)
(* Objects keep at most INLINE_PROPS properties here, so their storage     *)
(* never moves and an object stands for its prop_values() pointer; the     *)
(* hash tables of objects with eight properties or more do not arise.      *)
(***************************************************************************)
EXTENDS Integers, Sequences, FiniteSets, SequencesExt

CONSTANTS
    Objects, Keys, Values, Flags, ReadOnly,
    Prototype, None,    \* as in PropertyMap
    Plain,          \* PROP_FLAGS_WEC, the attributes of an ordinary property
    Cleared,        \* what reading a zeroed property slot gives
    Pinned,         \* keys with a pinned reference count
    KeyRefs,        \* references the string table and others hold to a key
    MaxShapes,      \* slots of the shapes array
    AllocFails,     \* TRUE: without a slot operations fail; FALSE: none is tried
    MaxRecycles,    \* slots recycled in one behaviour
    LinkMask,       \* SHAPE_FREE_LINK_MASK
    GenMask,        \* SHAPE_FREE_GEN_MASK
    Caches          \* the caches in use, of "getprop", "getpropc", "put", "mega";
                    \* without any, nothing is read

ASSUME MasksAssumption ==
    /\ LinkMask \in Nat /\ GenMask \in Nat /\ MaxShapes \in Nat \ {0}
    /\ MaxRecycles \in Nat /\ KeyRefs \in Nat \ {0} /\ AllocFails \in BOOLEAN
ASSUME SetsAssumption ==
    /\ Plain \in Flags /\ Pinned \subseteq Keys /\ None \notin Objects \cup Values
    /\ Prototype \in [Objects -> Objects \cup {None}]
    /\ Caches \subseteq {"getprop", "getpropc", "put", "mega"}
    /\ IsFiniteSet(Keys) /\ Cardinality(Keys) <= 4       \* INLINE_PROPS

VARIABLES
    shapes,     \* slot id -> shape, or a link of the free list
    head,       \* shape_free_head
    epoch,      \* shape_recycle_epoch
    trans,      \* the transition table
    refs,       \* refs[k]: the reference count of key k
    obj,        \* obj[o]: shape id, property count and property slots
    getic,      \* the ICEntry of a reading site
    putic,      \* the ICEntry of a writing site
    mega,       \* an entry of the megamorphic cache
    got         \* the result of the last read

vars == <<shapes, head, epoch, trans, refs, obj, getic, putic, mega, got>>

FreeEnd == LinkMask             \* SHAPE_FREE_END
Private == -1                   \* PRIVATE_SHAPE_PARENT
NoShape == -2                   \* SHAPE_NONE
Root == 0
Slot == 1..Cardinality(Keys)
----------------------------------------------------------------------------
(* A shape's chain of slots from its oldest ancestor to itself stands for  *)
(* the parent_shape pointers; own is its ShapeProperty array.              *)
Shape(parent, chain, own, gen) ==
    [free |-> FALSE, parent |-> parent, chain |-> chain, own |-> own, gen |-> gen]
Link(next, gen) == [free |-> TRUE, next |-> next, gen |-> gen]
Layout(sh, id) == FlattenSeq([i \in 1..Len(sh[id].chain) |-> sh[sh[id].chain[i]].own])

(* HObject.find_prop_idx and get_prop_flags, by walking the chain.         *)
FindProp(o, k) == SelectInSeq(Layout(shapes, obj[o].shape), LAMBDA p : p.key = k)
FlagsOf(o, k) == Layout(shapes, obj[o].shape)[FindProp(o, k)].flags

(* Heap.alloc_shape_slot: a recycled slot before a new one, and the        *)
(* generation the next shape is stamped with.                              *)
Recycles == head # FreeEnd
SlotFree == Recycles \/ Cardinality(DOMAIN shapes) < MaxShapes
(* Broken variants: recycled ids start at generation 0; the list keeps the *)
(* slot it handed out.                                                     *)
NewGenZero == 0
NewHeadStuck == head
NewSlot == IF Recycles THEN head ELSE Cardinality(DOMAIN shapes)
NewGen == IF Recycles THEN shapes[head].gen + 1 ELSE 0
NewHead == IF Recycles THEN shapes[head].next ELSE head
NewEpoch == IF Recycles THEN epoch + 1 ELSE epoch
Stored(sh) == [i \in DOMAIN shapes \cup {NewSlot} |-> IF i = NewSlot THEN sh ELSE shapes[i]]
WithinBounds == NewEpoch <= MaxRecycles /\ (SlotFree \/ AllocFails)

(* Heap.free_shape_slot, in array sh with free list hd: only a private     *)
(* shape is freed.                                                         *)
(* A broken variant: any shape is freed.                                   *)
FreesAny(sh, hd, id) == id # Root /\ hd # id /\ ~sh[id].free
Frees(sh, hd, id) == id # Root /\ hd # id /\ sh[id].parent = Private
FreeSlot(sh, hd, id) ==
    IF Frees(sh, hd, id)
    THEN [sh EXCEPT ![id] = Link(hd % (LinkMask + 1), sh[id].gen % (GenMask + 1))]
    ELSE sh
FreeHead(sh, hd, id) == IF Frees(sh, hd, id) THEN id ELSE hd

(* incref and decref of keys: pinned counts and freed keys do not move.    *)
Increfed(r, k, n) == IF k \in Pinned THEN r ELSE [r EXCEPT ![k] = @ + n]
Decrefed(r, k) == IF k \in Pinned \/ r[k] = 0 THEN r ELSE [r EXCEPT ![k] = @ - 1]
Released(r, own) == FoldLeft(LAMBDA acc, p : Decrefed(acc, p.key), r, own)
----------------------------------------------------------------------------
NoEntry == [shape |-> None]
Init ==
    /\ shapes = [i \in {Root} |-> Shape(NoShape, <<Root>>, <<>>, 0)]
    /\ head = FreeEnd
    /\ epoch = 0
    /\ trans = {}
    /\ refs = [k \in Keys |-> KeyRefs]
    /\ obj = [o \in Objects |-> [shape |-> Root, count |-> 0,
                                 slots |-> [i \in Slot |-> Cleared]]]
    /\ getic = NoEntry /\ putic = NoEntry /\ mega = NoEntry
    /\ got = None

caches == <<getic, putic, mega, got>>

(* HObject.put_prop of a new key, with Heap.transition_shape_new_flags.    *)
Appended(o, v, id) == [obj EXCEPT ![o].shape = id, ![o].count = @ + 1,
                                  ![o].slots[obj[o].count + 1] = v]
Taken(o, k, f) == {t \in trans : t.parent = obj[o].shape /\ t.key = k /\ t.flags = f}
PutShared(o, k, v, f) ==
    /\ FindProp(o, k) = 0
    /\ \E t \in Taken(o, k, f) : obj' = Appended(o, v, t.child)
    /\ UNCHANGED <<shapes, head, epoch, trans, refs, caches>>
PutNew(o, k, v, f) ==
    /\ FindProp(o, k) = 0 /\ Taken(o, k, f) = {}
    /\ SlotFree /\ WithinBounds
    /\ LET cur == obj[o].shape IN
       /\ shapes' = Stored(Shape(cur, Append(shapes[cur].chain, NewSlot),
                                 <<[key |-> k, flags |-> f]>>, NewGen))
       /\ trans' = trans \cup {[parent |-> cur, key |-> k, flags |-> f, child |-> NewSlot]}
       /\ refs' = Increfed(refs, k, 2)          \* the shape's and the table's
       /\ obj' = Appended(o, v, NewSlot)
    /\ head' = NewHead
    /\ epoch' = NewEpoch
    /\ UNCHANGED caches

(* HObject.put_prop of an existing key: the value, then set_prop_flags,    *)
(* which makes the shape private first; without a slot make_shape_private  *)
(* gives up and the flags are written where they stand.                    *)
Valued(o, k, v) == [obj EXCEPT ![o].slots[FindProp(o, k)] = v]
PutSame(o, k, v, f) ==
    /\ FindProp(o, k) # 0 /\ FlagsOf(o, k) = f
    /\ obj' = Valued(o, k, v)
    /\ UNCHANGED <<shapes, head, epoch, trans, refs, caches>>
Reflagged(own, k, f) == [i \in DOMAIN own |->
                            IF own[i].key = k THEN [own[i] EXCEPT !.flags = f] ELSE own[i]]
SetFlags(o, k, v, f) ==
    /\ FindProp(o, k) # 0 /\ FlagsOf(o, k) # f
    /\ SlotFree /\ WithinBounds
    /\ LET old == obj[o].shape
           flat == Reflagged(Layout(shapes, old), k, f)
           sh == Stored(Shape(Private, <<NewSlot>>, flat, NewGen))
       IN  /\ shapes' = FreeSlot(sh, NewHead, old)
           /\ head' = FreeHead(sh, NewHead, old)
           /\ obj' = [Valued(o, k, v) EXCEPT ![o].shape = NewSlot]
    /\ epoch' = NewEpoch
    /\ UNCHANGED <<trans, refs, caches>>
SetFlagsInPlace(o, k, v, f) ==
    /\ FindProp(o, k) # 0 /\ FlagsOf(o, k) # f
    /\ ~SlotFree /\ AllocFails
    /\ shapes' = [i \in DOMAIN shapes |->
                    IF i \in Range(shapes[obj[o].shape].chain)
                    THEN [shapes[i] EXCEPT !.own = Reflagged(@, k, f)] ELSE shapes[i]]
    /\ obj' = Valued(o, k, v)
    /\ UNCHANGED <<head, epoch, trans, refs, caches>>

(* HObject.delete_prop: the values shift down over the deleted one.        *)
(* A broken variant: they stay where they are.                             *)
CompactedNoShift(o, at, id) ==
    [obj EXCEPT ![o] = [@ EXCEPT !.shape = id, !.count = @ - 1]]
Compacted(o, at, id) ==
    [obj EXCEPT ![o] =
        [shape |-> id, count |-> @.count - 1,
         slots |-> [i \in Slot |-> CASE i >= @.count -> Cleared
                                     [] i \in at..(@.count - 1) -> @.slots[i + 1]
                                     [] OTHER -> @.slots[i]]]]
DeleteLast(o, k) ==
    /\ FindProp(o, k) # 0 /\ obj[o].count = 1
    /\ LET old == obj[o].shape IN
       /\ obj' = Compacted(o, 1, Root)
       /\ shapes' = FreeSlot(shapes, head, old)
       /\ head' = FreeHead(shapes, head, old)
       /\ refs' = IF Frees(shapes, head, old) THEN Released(refs, shapes[old].own) ELSE refs
    /\ UNCHANGED <<epoch, trans, caches>>
Delete(o, k) ==
    /\ FindProp(o, k) # 0 /\ obj[o].count > 1
    /\ SlotFree /\ WithinBounds
    /\ LET old == obj[o].shape
           sh == Stored(Shape(Private, <<NewSlot>>,
                              RemoveAt(Layout(shapes, old), FindProp(o, k)), NewGen))
       IN  /\ obj' = Compacted(o, FindProp(o, k), NewSlot)
           /\ shapes' = FreeSlot(sh, NewHead, old)
           /\ head' = FreeHead(sh, NewHead, old)
           /\ refs' = IF shapes[old].parent = Private THEN Decrefed(refs, k) ELSE refs
    /\ epoch' = NewEpoch
    /\ UNCHANGED <<trans, caches>>
----------------------------------------------------------------------------
(* GETPROP and GETPROPC.  An entry names the receiver's shape by id and    *)
(* generation, each prototype stepped onto by identity and shape id, and   *)
(* the owner's storage and slot.                                           *)
Generation(o) == shapes[obj[o].shape].gen
ChainTo(o, owner) ==
    IF owner = o THEN <<>> ELSE <<[proto |-> owner, shape |-> obj[owner].shape]>>
Entry(o, k, owner) ==
    [shape |-> obj[o].shape, gen |-> Generation(o), key |-> k,
     chain |-> ChainTo(o, owner), owner |-> owner, slot |-> FindProp(owner, k),
     flags |-> FlagsOf(owner, k)]

(* ic_resolve_owner: the recorded walk still leads to the owner.           *)
ResolvesOwner(ic, o) ==
    IF ic.chain = <<>> THEN ic.owner = o
    ELSE /\ Prototype[o] = ic.chain[1].proto
         /\ obj[Prototype[o]].shape = ic.chain[1].shape
ICHit(ic, o, k) ==
    /\ ic # NoEntry
    /\ ic.shape = obj[o].shape /\ ic.key = k /\ ic.gen = Generation(o)
    /\ ResolvesOwner(ic, o)

(* mega_cache_lookup and mega_cache_store.                                 *)
MegaEntry(o, k, owner) ==
    [shape |-> obj[o].shape, key |-> k, owner |-> owner, own |-> owner = o,
     ownerShape |-> obj[owner].shape, epoch |-> epoch, slot |-> FindProp(owner, k)]
(* Broken variants: the epoch, or the owner's shape, is not compared.      *)
MegaHitNoOwnerShape(o, k) ==
    /\ mega # NoEntry
    /\ mega.key = k /\ mega.shape = obj[o].shape /\ mega.epoch = epoch
    /\ IF mega.own THEN mega.owner = o ELSE Prototype[o] = mega.owner
MegaHitNoEpoch(o, k) ==
    /\ mega # NoEntry
    /\ mega.key = k /\ mega.shape = obj[o].shape
    /\ IF mega.own THEN mega.owner = o
       ELSE Prototype[o] = mega.owner /\ obj[mega.owner].shape = mega.ownerShape
MegaHit(o, k) ==
    /\ mega # NoEntry
    /\ mega.key = k /\ mega.shape = obj[o].shape /\ mega.epoch = epoch
    /\ IF mega.own THEN mega.owner = o
       ELSE Prototype[o] = mega.owner /\ obj[mega.owner].shape = mega.ownerShape

Owner(o, k) ==
    IF FindProp(o, k) # 0 THEN o
    ELSE IF Prototype[o] # None /\ FindProp(Prototype[o], k) # 0 THEN Prototype[o]
    ELSE None
Read(o, i) == obj[o].slots[i]

(* What a reading site caches: GETPROP own properties only, GETPROPC       *)
(* inherited ones too.                                                     *)
Cacheable(o, owner) ==
    \/ "getpropc" \in Caches
    \/ "getprop" \in Caches /\ owner = o
RefsOnFill(ic, k) == IF ic = NoEntry THEN Increfed(refs, k, 1)
                     ELSE Decrefed(Increfed(refs, k, 1), ic.key)
Fill(o, k, owner) ==
    IF Cacheable(o, owner)
    THEN getic' = Entry(o, k, owner) /\ refs' = RefsOnFill(getic, k)
    ELSE UNCHANGED <<getic, refs>>

GetHit(o, k) ==
    /\ ICHit(getic, o, k)
    /\ got' = Read(getic.owner, getic.slot)
    /\ UNCHANGED <<shapes, head, epoch, trans, refs, obj, getic, putic, mega>>
GetMega(o, k) ==
    /\ ~ICHit(getic, o, k) /\ MegaHit(o, k)
    /\ got' = Read(mega.owner, mega.slot)
    /\ IF FindProp(mega.owner, k) # 0 THEN Fill(o, k, mega.owner)
       ELSE UNCHANGED <<getic, refs>>
    /\ UNCHANGED <<shapes, head, epoch, trans, obj, putic, mega>>
GetWalk(o, k) ==
    /\ Caches # {} /\ ~ICHit(getic, o, k) /\ ~MegaHit(o, k)
    /\ LET owner == Owner(o, k) IN
       IF owner = None
       THEN got' = None /\ UNCHANGED <<getic, mega, refs>>
       ELSE /\ got' = Read(owner, FindProp(owner, k))
            /\ mega' = IF "mega" \in Caches THEN MegaEntry(o, k, owner) ELSE mega
            /\ Fill(o, k, owner)
    /\ UNCHANGED <<shapes, head, epoch, trans, obj, putic>>

(* PUTPROP to an existing own property; a read-only one throws.            *)
AssignHit(o, k, v) ==
    /\ ICHit(putic, o, k) /\ putic.flags # ReadOnly
    /\ obj' = [obj EXCEPT ![o].slots[putic.slot] = v]
    /\ UNCHANGED <<shapes, head, epoch, trans, refs, caches>>
AssignSlow(o, k, v) ==
    /\ ~(ICHit(putic, o, k) /\ putic.flags # ReadOnly)
    /\ FindProp(o, k) # 0 /\ FlagsOf(o, k) # ReadOnly
    /\ obj' = Valued(o, k, v)
    /\ IF "put" \in Caches
       THEN putic' = Entry(o, k, o) /\ refs' = RefsOnFill(putic, k)
       ELSE UNCHANGED <<putic, refs>>
    /\ UNCHANGED <<shapes, head, epoch, trans, getic, mega, got>>

Next ==
    \E o \in Objects, k \in Keys :
        \/ \E v \in Values, f \in Flags :
              \/ PutShared(o, k, v, f) \/ PutNew(o, k, v, f) \/ PutSame(o, k, v, f)
              \/ SetFlags(o, k, v, f) \/ SetFlagsInPlace(o, k, v, f)
        \/ Delete(o, k) \/ DeleteLast(o, k)
        \/ GetHit(o, k) \/ GetMega(o, k) \/ GetWalk(o, k)
        \/ \E v \in Values : AssignHit(o, k, v) \/ AssignSlow(o, k, v)

Spec == Init /\ [][Next]_vars
----------------------------------------------------------------------------
(* Every variable has its type.                                            *)
Id == 0..(MaxShapes - 1)
ShapeProperty == [key : Keys, flags : Flags]
TypeOK ==
    /\ DOMAIN shapes = 0..(Cardinality(DOMAIN shapes) - 1)
    /\ DOMAIN shapes \subseteq Id
    /\ \A i \in DOMAIN shapes :
          IF shapes[i].free THEN shapes[i].next \in 0..LinkMask
          ELSE shapes[i].own \in Seq(ShapeProperty) /\ shapes[i].chain \in Seq(Id)
    /\ head \in Id \cup {FreeEnd}
    /\ epoch \in 0..MaxRecycles
    /\ trans \subseteq [parent : Id, key : Keys, flags : Flags, child : Id]
    /\ refs \in [Keys -> Nat]
    /\ obj \in [Objects -> [shape : Id, count : 0..Cardinality(Keys),
                            slots : [Slot -> Values \cup {Cleared}]]]
    /\ got \in Values \cup {None, Cleared}

(* heap.c3 free_shape_slot, "referenced by exactly one object -- the one   *)
(* replacing it right now": a private shape an object has is no other      *)
(* object's, no other shape's ancestor and in no transition, so freeing it *)
(* leaves nothing behind; and no object's shape is built on a freed slot.  *)
Live == {i \in DOMAIN shapes : ~shapes[i].free}
PrivateUnshared ==
    \A o \in Objects :
        LET s == obj[o].shape IN
        /\ s \in Live /\ Range(shapes[s].chain) \subseteq Live
        /\ shapes[s].parent = Private =>
              /\ \A p \in Objects \ {o} : obj[p].shape # s
              /\ \A i \in Live \ {s} : s \notin Range(shapes[i].chain)
              /\ \A t \in trans : s \notin {t.parent, t.child}

(* heap.c3 alloc_shape_slot: the list that starts at shape_free_head runs  *)
(* through every reclaimed slot once, through no live one, and ends.       *)
FreeWalk ==
    LET walk[i \in 0..MaxShapes] ==
          IF i = 0 THEN <<head>>
          ELSE LET seen == walk[i - 1]
               IN  IF Last(seen) \in DOMAIN shapes \ Live
                   THEN Append(seen, shapes[Last(seen)].next) ELSE seen
    IN  walk[MaxShapes]
FreeListSound ==
    /\ Last(FreeWalk) = FreeEnd
    /\ Range(Front(FreeWalk)) = DOMAIN shapes \ Live
    /\ IsInjective(FreeWalk)

(* heap.c3 alloc_shape_slot and SHAPE_FREE_LINK_MASK, "Ids stop at 0xFFFE, *)
(* so 16 bits cover them": no link of the free list names a live slot.     *)
LinksFree ==
    /\ head \notin Live \ {FreeEnd}
    /\ \A i \in DOMAIN shapes \ Live : shapes[i].next \notin Live \ {FreeEnd}

(* hobject.c3 shape_free, "a shape built by copying keys from another shape*)
(* never took its own references and must not drop them": no key that the  *)
(* shape of an object names is ever released to nothing.                   *)
KeysLive ==
    \A o \in Objects : \A p \in Range(Layout(shapes, obj[o].shape)) : refs[p.key] > 0

(* hobject.c3 ICEntry, "(id, generation) pairs uniquely name one layout",  *)
(* and ic_resolve_owner, which promises to reject "a shadowing property on *)
(* an intermediate, and a delete on the owner": a cache that would answer  *)
(* points at the slot the property is in.                                  *)
HitsRight(o, k, entry) ==
    /\ entry.owner = Owner(o, k) /\ entry.slot = FindProp(entry.owner, k)
CachesRight ==
    \A o \in Objects, k \in Keys :
        /\ ICHit(getic, o, k) => HitsRight(o, k, getic)
        /\ ICHit(putic, o, k) => HitsRight(o, k, putic) /\ putic.flags = FlagsOf(o, k)
        /\ MegaHit(o, k) => HitsRight(o, k, mega)

(* The properties the shapes and slots stand for.                          *)
PropertiesOf(o) ==
    LET layout == Layout(shapes, obj[o].shape)
    IN  [i \in 1..Len(layout) |-> [key |-> layout[i].key, value |-> obj[o].slots[i],
                                   flags |-> layout[i].flags]]
Map == INSTANCE PropertyMap WITH props <- [o \in Objects |-> PropertiesOf(o)]

(* hobject.c3 and vm_property.c3: whatever is shared, privatised, recycled *)
(* and cached, objects behave as independent ordered property lists and a  *)
(* read returns what the nearest object has.                               *)
BehavesAsMap == Map!Spec
=============================================================================
