----------------------------- MODULE StringTable -----------------------------
(***************************************************************************)
(* The interning table of a heap and the registry of un-interned strings:  *)
(* heap.c3, sections "String table" and "sweep".  The table is an array    *)
(* with linear probing and tombstones that grows, shrinks and may fail to  *)
(* do either; the registry is a compact array with swap-removal.  Every    *)
(* live string has exactly one of the two as its owner, whichever way      *)
(* interning, growth, appends, reference counts and sweeps interleave.     *)
(*                                                                         *)
(* A text is a natural number and an append makes it a greater one.  Two   *)
(* neighbouring numbers share a hash, so that collisions of hashes and     *)
(* collisions of slots both happen in small instances.                     *)
(***************************************************************************)
EXTENDS Integers, Sequences, FiniteSets, SequencesExt

CONSTANTS
    MaxStrings,     \* HStrings alive at once
    Contents,       \* the texts, natural numbers
    Large,          \* the ones longer than MAX_INTERN_BYTES
    InitialSize,    \* INITIAL_STR_TABLE_SIZE, a power of two
    MaxSize,        \* the size beyond which no memory is found
    MaxHeld,        \* counted references to one string
    ResetSlack,     \* reset() shrinks a table this many times its first size
    RegistryFails   \* may the registry find no memory to grow?

Null == 0                       \* an empty slot, and no string
Id == 1..MaxStrings
Tombstone == MaxStrings + 1
Deferred == -1                  \* HASH_DEFERRED

ASSUME SizesAssumption ==
    /\ MaxStrings \in Nat /\ MaxHeld \in Nat /\ ResetSlack \in Nat \ {0}
    /\ MaxSize \in Nat /\ InitialSize \in 1..MaxSize
    /\ RegistryFails \in BOOLEAN
ASSUME ContentsAssumption == Contents \subseteq Nat /\ Large \subseteq Contents

VARIABLES
    table,      \* the slots, slot i of the code at position i + 1
    used,       \* str_table_used
    registry,   \* large_strings
    unlisted,   \* un-interned strings the registry had no room for
    str,        \* str[s]: the header of string s
    held,       \* held[s]: registers, properties and bindings that hold s
    keys,       \* strings property tables hold as keys, uncounted
    native,     \* is a builtin's frame on the native stack?
    local       \* the raw HString* in a local of that frame

vars == <<table, used, registry, unlisted, str, held, keys, native, local>>

Hash(c) == c \div 2
Dead == [live |-> FALSE, content |-> 0, refcount |-> 0, interned |-> FALSE,
         hash |-> Deferred]
Header == [live : {TRUE}, content : Contents, refcount : 0..(MaxHeld + 1),
           interned : BOOLEAN, hash : {Hash(c) : c \in Contents} \cup {Deferred}]
Live == {s \in Id : str[s].live}
Unused == Id \ Live
NewString == CHOOSE s \in Unused : \A u \in Unused : s <= u
----------------------------------------------------------------------------
(* The probe sequence of a hash: positions from its slot on, wrapping.     *)
Probe(t, hash) == [i \in 1..Len(t) |-> 1 + ((hash + i - 1) % Len(t))]
(* A broken variant: a deleted slot ends the chain.                        *)
ChainToTombstone(t, hash) ==
    LET gap == SelectInSeq(Probe(t, hash), LAMBDA p : t[p] \in {Null, Tombstone})
    IN  IF gap = 0 THEN Len(t) ELSE gap - 1

(* How many probes come before the first empty slot.                       *)
Chain(t, hash) ==
    LET gap == SelectInSeq(Probe(t, hash), LAMBDA p : t[p] = Null)
    IN  IF gap = 0 THEN Len(t) ELSE gap - 1

(* Heap.str_table_lookup: the first entry of the chain with this hash and  *)
(* this text.                                                              *)
Lookup(h, t, c) ==
    LET path == SubSeq(Probe(t, Hash(c)), 1, Chain(t, Hash(c)))
        hit == SelectInSeq(path, LAMBDA p : /\ t[p] \in Id
                                            /\ h[t[p]].hash = Hash(c)
                                            /\ h[t[p]].content = c)
    IN  IF hit = 0 THEN Null ELSE t[path[hit]]

(* Rehashing puts every entry, in slot order, into a cleared array.        *)
Place(h, t, s) ==
    LET path == Probe(t, h[s].hash)
    IN  [t EXCEPT ![path[SelectInSeq(path, LAMBDA p : t[p] = Null)]] = s]
Rehash(h, t, size) ==
    LET placed[i \in 0..Len(t)] ==
          IF i = 0 THEN [p \in 1..size |-> Null]
          ELSE IF t[i] \in Id THEN Place(h, placed[i - 1], t[i])
          ELSE placed[i - 1]
    IN  placed[Len(t)]

(* Heap.str_table_grow, which an insert past the load factor of 0.70       *)
(* calls; without memory the old table stays.                              *)
Grown(h, t, n, memory) ==
    IF 10 * (n + 1) > 7 * Len(t) /\ memory /\ 2 * Len(t) <= MaxSize
    THEN Rehash(h, t, 2 * Len(t)) ELSE t
(* Heap.str_table_shrink, called by the sweep of a table that emptied out. *)
Shrunk(h, t, n, memory) ==
    IF n < Len(t) \div 4 /\ Len(t) > InitialSize /\ memory
    THEN Rehash(h, t, Len(t) \div 2) ELSE t

(* Where Heap.str_table_insert puts an entry: the first tombstone of the   *)
(* chain, else the empty slot that ends it, else nowhere (0).              *)
FreeSlot(t, hash) ==
    LET path == Probe(t, hash)
        n == Chain(t, hash)
        grave == SelectInSeq(SubSeq(path, 1, n), LAMBDA p : t[p] = Tombstone)
    IN  CASE grave # 0 -> path[grave]
          [] grave = 0 /\ n < Len(t) -> path[n + 1]
          [] OTHER -> 0

(* Heap.large_string_unregister: the last entry fills the gap.             *)
Unregister(reg, s) ==
    LET i == SelectInSeq(reg, LAMBDA e : e = s)
    IN  IF i = 0 THEN reg ELSE Front([reg EXCEPT ![i] = Last(reg)])
(* Heap.sweep_large_strings: survivors are compacted downward.             *)
Compacted(reg, gone) ==
    LET kept[i \in 0..Len(reg)] ==
          IF i = 0 THEN <<>>
          ELSE IF reg[i] \in gone THEN kept[i - 1]
          ELSE Append(kept[i - 1], reg[i])
    IN  kept[Len(reg)]
(* Heap.large_string_register: a string it finds no room for stays out,    *)
(* "a pure refcounted leaf".                                               *)
Register(reg, s, memory) ==
    IF memory \/ ~RegistryFails
    THEN registry' = Append(reg, s) /\ unlisted' = unlisted \ {s}
    ELSE registry' = reg /\ unlisted' = unlisted \cup {s}
(* A broken variant: the slot is emptied.                                  *)
EntombEmpty(t, dead) == [i \in 1..Len(t) |-> IF t[i] \in dead THEN Null ELSE t[i]]
(* Heap.str_table_remove.                                                  *)
Entomb(t, dead) == [i \in 1..Len(t) |-> IF t[i] \in dead THEN Tombstone ELSE t[i]]
(* A broken variant: the string also stays in the registry.                *)
InsertTwice(h, reg, s, memory) ==
    LET t == Grown(h, table, used, memory)
        slot == FreeSlot(t, h[s].hash)
    IN  /\ slot # 0
        /\ table' = [t EXCEPT ![slot] = s]
        /\ used' = used + 1
        /\ registry' = IF h[s].refcount > 0 THEN Append(reg, s) ELSE reg
        /\ unlisted' = unlisted \ {s}
        /\ str' = [h EXCEPT ![s].interned = TRUE, ![s].refcount = @ + 1]
(* A broken variant: a string without a slot is left without an owner.     *)
InsertLost(h, reg, s, memory) ==
    LET t == Grown(h, table, used, memory)
        slot == FreeSlot(t, h[s].hash)
    IN  IF slot # 0
        THEN /\ table' = [t EXCEPT ![slot] = s]
             /\ used' = used + 1
             /\ registry' = reg
             /\ unlisted' = unlisted \ {s}
             /\ str' = [h EXCEPT ![s].interned = TRUE, ![s].refcount = @ + 1]
        ELSE /\ table' = t
             /\ registry' = reg
             /\ str' = h
             /\ UNCHANGED <<used, unlisted>>

(* str_table_insert(s) with str_table_adopt, or, when the table has no     *)
(* slot for it, large_string_register: h and reg are the headers and the   *)
(* registry without s's new owner.                                         *)
Insert(h, reg, s, memory) ==
    LET t == Grown(h, table, used, memory)
        slot == FreeSlot(t, h[s].hash)
    IN  IF slot # 0
        THEN /\ table' = [t EXCEPT ![slot] = s]
             /\ used' = used + 1
             /\ registry' = reg
             /\ unlisted' = unlisted \ {s}
             /\ str' = [h EXCEPT ![s].interned = TRUE, ![s].refcount = @ + 1]
        ELSE /\ table' = t
             /\ Register(reg, s, memory)
             /\ str' = h
             /\ UNCHANGED used
----------------------------------------------------------------------------
Init ==
    /\ table = [i \in 1..InitialSize |-> Null]
    /\ used = 0
    /\ registry = <<>>
    /\ unlisted = {}
    /\ str = [s \in Id |-> Dead]
    /\ held = [s \in Id |-> 0]
    /\ keys = {}
    /\ native = FALSE
    /\ local = Null

(* hstring_alloc: a header that nobody holds yet.                          *)
Alloc(c, hash) == [str EXCEPT ![NewString] =
                      [live |-> TRUE, content |-> c, refcount |-> 0,
                       interned |-> FALSE, hash |-> hash]]

(* Heap.str_intern_normalized, called by a builtin, which keeps the result *)
(* in a local: an opcode's result is held before anything else happens     *)
(* (Hold).                                                                 *)
InternKnown(c) ==
    /\ native /\ c \notin Large /\ Lookup(str, table, c) # Null
    /\ local' = Lookup(str, table, c)
    /\ UNCHANGED <<table, used, registry, unlisted, str, held, keys, native>>

InternNew(c, memory) ==
    /\ native /\ c \notin Large /\ Lookup(str, table, c) = Null
    /\ Unused # {}
    /\ Insert(Alloc(c, Hash(c)), registry, NewString, memory)
    /\ local' = NewString
    /\ UNCHANGED <<held, keys, native>>

(* A large text, or an accumulator of Heap.alloc_concat_accumulator.       *)
AllocUninterned(c, memory) ==
    /\ native /\ Unused # {}
    /\ str' = Alloc(c, Deferred)
    /\ Register(registry, NewString, memory)
    /\ local' = NewString
    /\ UNCHANGED <<table, used, held, keys, native>>

(* TVal.set_string: a register, property or binding takes a reference.     *)
Hold ==
    /\ local # Null /\ held[local] < MaxHeld
    /\ str' = [str EXCEPT ![local].refcount = @ + 1]
    /\ held' = [held EXCEPT ![local] = @ + 1]
    /\ UNCHANGED <<table, used, registry, unlisted, keys, native, local>>

(* Heap.decref: at zero the string leaves its owner and is freed; one that *)
(* a builtin still has in a local is anchored by its caller.               *)
Drop(s) ==
    /\ held[s] > 0 /\ (s = local => held[s] > 1)
    /\ held' = [held EXCEPT ![s] = @ - 1]
    /\ IF str[s].refcount > 1
       THEN /\ str' = [str EXCEPT ![s].refcount = @ - 1]
            /\ UNCHANGED <<table, used, registry, unlisted>>
       ELSE /\ str' = [str EXCEPT ![s] = Dead]
            /\ table' = IF str[s].interned THEN Entomb(table, {s}) ELSE table
            /\ used' = IF str[s].interned /\ s \in Range(table) THEN used - 1 ELSE used
            /\ registry' = IF str[s].interned THEN registry ELSE Unregister(registry, s)
            /\ unlisted' = unlisted \ {s}
    /\ UNCHANGED <<keys, native, local>>

(* Heap.ensure_interned, for a held string used as a property key.         *)
Hashed(s) == [str EXCEPT ![s].hash =
                IF @ = Deferred THEN Hash(str[s].content) ELSE @]
UseAsKey(s, memory) ==
    /\ held[s] > 0
    /\ LET h == Hashed(s)
           found == Lookup(h, table, str[s].content)
       IN  IF str[s].interned
           THEN keys' = keys \cup {s} /\ UNCHANGED <<table, used, registry, unlisted, str>>
           ELSE IF found # Null
           THEN /\ keys' = keys \cup {found} /\ str' = h
                /\ UNCHANGED <<table, used, registry, unlisted>>
           ELSE /\ Insert(h, Unregister(registry, s), s, memory)
                /\ keys' = keys \cup {s}
    /\ UNCHANGED <<held, native, local>>

(* A property is deleted, or its object dies.                              *)
DropKey(k) ==
    /\ k \in keys
    /\ keys' = keys \ {k}
    /\ UNCHANGED <<table, used, registry, unlisted, str, held, native, local>>

(* HString.try_append_in_place on an unshared, un-interned string.         *)
AppendInPlace(s, c) ==
    /\ held[s] = 1 /\ str[s].refcount = 1 /\ ~str[s].interned /\ s # local
    /\ c > str[s].content
    /\ str' = [str EXCEPT ![s].content = c, ![s].hash = Deferred]
    /\ UNCHANGED <<table, used, registry, unlisted, held, keys, native, local>>

(* builtin_dispatch brackets every builtin with native_frame_depth.        *)
EnterNative ==
    /\ ~native /\ native' = TRUE
    /\ UNCHANGED <<table, used, registry, unlisted, str, held, keys, local>>
LeaveNative ==
    /\ native /\ native' = FALSE /\ local' = Null
    /\ UNCHANGED <<table, used, registry, unlisted, str, held, keys>>

(* Heap.safepoint_gc: the mark phase reaches what is held and what a live  *)
(* property table has as a key; no string is swept under a builtin.        *)
Marked(s) == held[s] > 0 \/ s \in keys
(* A broken variant: builtins are ignored.                                 *)
SweepAlways == TRUE
SweepSafe == ~native
(* Broken variants: a count of one is proof enough; a string nobody ever   *)
(* held is left alone.                                                     *)
SweptByCount == {s \in Live : str[s].interned /\ str[s].refcount = 1}
SweptCounted == {s \in Range(registry) : ~Marked(s) /\ str[s].refcount > 0}
(* Heap.sweep_strings and Heap.sweep_large_strings.                        *)
SweptInterned == {s \in Live : str[s].interned /\ str[s].refcount = 1 /\ ~Marked(s)}
SweptLarge == {s \in Range(registry) : ~Marked(s)}
Safepoint(memory) ==
    /\ SweepSafe
    /\ LET n == used - Cardinality(SweptInterned)
           h == [s \in Id |-> IF s \in SweptInterned \cup SweptLarge THEN Dead ELSE str[s]]
       IN  /\ str' = h
           /\ used' = n
           /\ table' = Shrunk(h, Entomb(table, SweptInterned), n, memory)
           /\ registry' = Compacted(registry, SweptLarge)
    /\ UNCHANGED <<unlisted, held, keys, native, local>>

(* Heap.reset between two scripts frees everything it can reach, which is  *)
(* all but a string neither held nor registered.  Tombstones stay unless   *)
(* the table is replaced; the new table's allocation is taken to succeed.  *)
Leaked == {s \in unlisted : held[s] = 0}
Reset ==
    /\ ~native
    /\ str' = [s \in Id |-> IF s \in Leaked THEN str[s] ELSE Dead]
    /\ unlisted' = Leaked
    /\ held' = [s \in Id |-> 0]
    /\ keys' = {}
    /\ registry' = <<>>
    /\ used' = 0
    /\ table' = IF Len(table) > ResetSlack * InitialSize
                THEN [i \in 1..InitialSize |-> Null]
                ELSE [i \in 1..Len(table) |-> IF table[i] \in Id THEN Null ELSE table[i]]
    /\ UNCHANGED <<native, local>>

Next ==
    \/ \E c \in Contents : InternKnown(c)
    \/ \E c \in Contents, memory \in BOOLEAN :
          InternNew(c, memory) \/ AllocUninterned(c, memory)
    \/ Hold
    \/ \E s \in Live : Drop(s)
    \/ \E s \in Live, memory \in BOOLEAN : UseAsKey(s, memory)
    \/ \E k \in keys : DropKey(k)
    \/ \E s \in Live, c \in Contents : AppendInPlace(s, c)
    \/ EnterNative \/ LeaveNative
    \/ \E memory \in BOOLEAN : Safepoint(memory)
    \/ Reset

Spec == Init /\ [][Next]_vars
----------------------------------------------------------------------------
(* Every variable has its type.                                            *)
TypeOK ==
    /\ table \in Seq(Id \cup {Null, Tombstone})
    /\ Len(table) \in InitialSize..MaxSize
    /\ used \in 0..MaxStrings
    /\ registry \in Seq(Id)
    /\ unlisted \subseteq Id
    /\ str \in [Id -> Header \cup {Dead}]
    /\ held \in [Id -> 0..MaxHeld]
    /\ keys \subseteq Id
    /\ native \in BOOLEAN
    /\ local \in Id \cup {Null}

(* heap.c3 str_table_lookup: an interned string is what a lookup of its    *)
(* text returns, across tombstones, wrap-around, a full table, failed and  *)
(* successful growth, shrinking and reset.  So a text is interned once,    *)
(* which is what lets property keys be compared by pointer.                *)
FindsInterned ==
    \A s \in Live : str[s].interned => Lookup(str, table, str[s].content) = s

(* heap.c3 ensure_interned: "the table owns the string from here on, so it *)
(* must leave the registry or the sweep would free it behind the table's   *)
(* back".  Every live string is in exactly one slot of the one owner its   *)
(* flag names, a dead one in neither, and the counters agree; a string the *)
(* registry had no room for is in neither, and only those are.             *)
OneOwner ==
    /\ \A s \in Id :
          /\ Cardinality({i \in DOMAIN table : table[i] = s})
                = IF str[s].live /\ str[s].interned THEN 1 ELSE 0
          /\ Cardinality({i \in DOMAIN registry : registry[i] = s})
                = IF str[s].live /\ ~str[s].interned /\ s \notin unlisted THEN 1 ELSE 0
    /\ used = Cardinality({s \in Live : str[s].interned})

(* heap.c3 sweep_strings and safepoint_gc: no sweep and no decref frees a  *)
(* string that somebody holds or that a builtin has in a local.            *)
HoldersLive ==
    /\ \A s \in Id : held[s] > 0 => str[s].live
    /\ local # Null => str[local].live

(* hobject.c3:1379, "a stored key must be the canonical interned string":  *)
(* property tables hold keys without a reference, so each must be alive    *)
(* and owned by the string table.                                          *)
KeysInterned == \A k \in keys : str[k].live /\ str[k].interned

(* heap.c3 sweep_large_strings, "a backstop": a safepoint leaves no string *)
(* that nothing refers to, but for one the registry had no room for.       *)
SweepCollects ==
    [][(\E memory \in BOOLEAN : Safepoint(memory)) =>
            \A s \in Id : str'[s].live => Marked(s) \/ s \in unlisted]_vars
=============================================================================
