---------------------------- MODULE StringConcat ----------------------------
(***************************************************************************)
(* How the VM concatenates strings: ADD's string path in vm_execute.c3     *)
(* with vm_concat_accumulate (append in place), vm_concat_birth (a result  *)
(* born as an un-interned accumulator with spare capacity), the code that  *)
(* the compiler emits around it, reference counting, and ensure_interned,  *)
(* which turns a string used as a property key into the canonical one.     *)
(*                                                                         *)
(* Strings are shared by pointer, so appending in place is right only if   *)
(* no other place of the program still means the old text.  The ghost js   *)
(* records the text ECMAScript gives every place; the properties compare   *)
(* it with what the places really hold.                                    *)
(***************************************************************************)
EXTENDS Naturals, Sequences, FiniteSets

CONSTANTS
    MaxStrings,     \* HStrings alive at once
    MaxLen,         \* longest text the script builds
    AccumMin,       \* CONCAT_ACCUM_MIN, in chunks
    Chunks,         \* the literals of the script, one unit of text each
    Bindings,       \* variables that live in an environment record
    ConstBindings,  \* the ones declared with const
    Locals,         \* home registers of variables no closure captures
    Slots,          \* array elements, properties and temporaries
    AssignOther,    \* does the script write `t = s + rhs`, t another variable?
    RhsCalls        \* may the right operand call functions that assign?

Undef == 0
String == 1..MaxStrings
Deferred == <<"HASH_DEFERRED">>
Acc == "acc"        \* the register the left operand is loaded into
Rhs == "rhs"        \* the register of the right operand
Registers == {Acc, Rhs} \cup Locals
Places == Registers \cup Bindings \cup Slots

ASSUME BoundsAssumption ==
    MaxStrings \in Nat /\ MaxLen \in Nat \ {0} /\ AccumMin \in Nat \ {0}
ASSUME PlacesAssumption ==
    /\ ConstBindings \subseteq Bindings
    /\ Registers \cap (Bindings \cup Slots) = {} /\ Bindings \cap Slots = {}
    /\ Locals \cap {Acc, Rhs} = {}
ASSUME FlagsAssumption == AssignOther \in BOOLEAN /\ RhsCalls \in BOOLEAN

VARIABLES
    str,    \* str[s]: the header of string s
    at,     \* at[p]: the string place p points to, or Undef
    keys,   \* strings a property table holds as keys, without a reference
    stmt,   \* the statement being executed
    pc,     \* its next instruction
    js      \* ghost: the text every place has by the language's rules

vars == <<str, at, keys, stmt, pc, js>>

Text == UNION {[1..n -> Chunks] : n \in 1..MaxLen}
Free == [live |-> FALSE, text |-> <<>>, capacity |-> 0, refcount |-> 0,
         interned |-> FALSE, hash |-> Deferred]
(* A header: the hash field holds the text it was computed from.           *)
Header == [live : {TRUE}, text : Text, capacity : 1..(2 * MaxLen + 1),
           refcount : Nat, interned : BOOLEAN, hash : Text \cup {Deferred}]

(* The shapes assignment_expr compiles a string `+` to.  A variable        *)
(* statement is GETVAR acc, src / rhs / ADD acc, acc, rhs / PUTVAR acc,    *)
(* dst; when the value of the expression is used, LDREG slot, acc comes    *)
(* before the PUTVAR.  A local one is rhs / ADD local, local, rhs.         *)
Statement == [kind : {"variable"}, src : Bindings, dst : Bindings,
              used : BOOLEAN, calls : BOOLEAN]
             \cup [kind : {"local"}, src : Locals, dst : Locals,
                   used : {TRUE}, calls : BOOLEAN]
Shapes == {m \in Statement :
             /\ m.src # m.dst => m.kind = "variable" /\ AssignOther
             /\ m.kind = "variable" /\ m.used => Slots # {}
             /\ m.calls => RhsCalls}
NoStatement == [kind |-> "none", src |-> Acc, dst |-> Acc,
                used |-> FALSE, calls |-> FALSE]
Register == IF stmt.kind = "local" THEN stmt.src ELSE Acc
----------------------------------------------------------------------------
(* Reference counting.                                                     *)

TextOf(s) == str[s].text
Count(h, s, n) == [h EXCEPT ![s] = [h[s] EXCEPT !.refcount = n]]
Incref(h, s) == IF s = Undef THEN h ELSE Count(h, s, h[s].refcount + 1)
(* Heap.decref: at zero the string leaves its owner and is freed.          *)
Decref(h, s) ==
    IF s = Undef THEN h
    ELSE IF h[s].refcount = 1 THEN [h EXCEPT ![s] = Free]
    ELSE Count(h, s, h[s].refcount - 1)

(* Allocation fails only in the model, when all headers are in use; which  *)
(* of the unused ones it hands out is immaterial.                          *)
Unused(h) == {s \in String : ~h[s].live}
NewString(h) == CHOOSE s \in Unused(h) : TRUE

(* Heap.str_table_lookup: the probe compares the hash before the text.     *)
Lookup(h, t) == {s \in String : h[s].live /\ h[s].interned /\ h[s].hash = t
                                 /\ h[s].text = t}

(* Heap.str_intern_normalized: find the canonical string or make it.       *)
InternId(h, t) == IF Lookup(h, t) # {} THEN CHOOSE s \in Lookup(h, t) : TRUE
                  ELSE NewString(h)
Intern(h, t) ==
    IF Lookup(h, t) # {} THEN h
    ELSE [h EXCEPT ![NewString(h)] =
            [live |-> TRUE, text |-> t, capacity |-> Len(t), refcount |-> 1,
             interned |-> TRUE, hash |-> t]]

(* Heap.alloc_concat_accumulator: un-interned, no reference yet.           *)
Accumulator(h, t, cap) ==
    [h EXCEPT ![NewString(h)] =
        [live |-> TRUE, text |-> t, capacity |-> cap, refcount |-> 0,
         interned |-> FALSE, hash |-> Deferred]]

(* set_reg_string: release what the register held, then take the string.   *)
SetReg(h, r, s) ==
    /\ str' = Incref(Decref(h, at[r]), s)
    /\ at' = [at EXCEPT ![r] = s]

(* Heap.tval_copy_ref: incref the source before the destination's decref.  *)
CopyRef(dst, src) ==
    /\ str' = Decref(Incref(str, at[src]), at[dst])
    /\ at' = [at EXCEPT ![dst] = at[src]]
    /\ js' = [js EXCEPT ![dst] = js[src]]
----------------------------------------------------------------------------
Init ==
    /\ str = [s \in String |-> Free]
    /\ at = [p \in Places |-> Undef]
    /\ keys = {}
    /\ stmt = NoStatement
    /\ pc = "idle"
    /\ js = [p \in Places |-> <<>>]

(* Plain statements run between concatenations, and inside a function that *)
(* the right operand of one calls.                                         *)
ScriptRuns == pc = "idle" \/ (pc = "rhs" /\ stmt.calls)
(* The temporaries belong to the concatenation, a local to its frame.      *)
Reachable == Bindings \cup Slots \cup (IF pc = "idle" THEN Locals ELSE {})

(* `p = "chunk"`: LDCONST and a store.                                     *)
AssignLiteral(p, c) ==
    /\ ScriptRuns /\ p \in Reachable \ ConstBindings
    /\ Unused(str) # {}
    /\ SetReg(Intern(str, <<c>>), p, InternId(str, <<c>>))
    /\ js' = [js EXCEPT ![p] = <<c>>]
    /\ UNCHANGED <<keys, stmt, pc>>

(* `p = q`; a const is only assigned by its initialiser.                   *)
Assign(p, q) ==
    /\ ScriptRuns /\ p \in Reachable /\ q \in Reachable
    /\ p # q /\ at[q] # Undef
    /\ p \in ConstBindings => at[p] = Undef
    /\ CopyRef(p, q)
    /\ UNCHANGED <<keys, stmt, pc>>

(* A place goes away: an element is deleted, a register is overwritten.    *)
Clear(p) ==
    /\ ScriptRuns
    /\ p \in Slots \cup (IF pc = "idle" THEN Registers ELSE {})
    /\ at[p] # Undef
    /\ str' = Decref(str, at[p])
    /\ at' = [at EXCEPT ![p] = Undef]
    /\ js' = [js EXCEPT ![p] = <<>>]
    /\ UNCHANGED <<keys, stmt, pc>>

(* `o[p] = ...`: get_prop_key canonicalises the key with ensure_interned.  *)
UseAsKey(p) ==
    /\ ScriptRuns /\ p \in Reachable /\ at[p] # Undef
    /\ LET s == at[p]
           known == Lookup(str, TextOf(s))
           key == IF str[s].interned \/ known = {} THEN s
                  ELSE CHOOSE k \in known : TRUE
           hash == IF str[s].hash = Deferred THEN TextOf(s) ELSE str[s].hash
       IN  /\ keys' = keys \cup {key}
           /\ str' = IF str[s].interned THEN str
                     ELSE IF known # {} THEN [str EXCEPT ![s].hash = hash]
                     ELSE [str EXCEPT ![s].hash = hash, ![s].interned = TRUE,
                                      ![s].refcount = @ + 1]
    /\ UNCHANGED <<at, stmt, pc, js>>

(* The object that holds a key dies.                                       *)
DropKey(k) ==
    /\ ScriptRuns /\ k \in keys
    /\ keys' = keys \ {k}
    /\ UNCHANGED <<str, at, stmt, pc, js>>

(* Heap.sweep_strings at a safepoint: what only the table holds, and no    *)
(* live property table has as a key, is freed.                             *)
Swept(s) == str[s].live /\ str[s].interned /\ str[s].refcount = 1 /\ s \notin keys
SweepStrings ==
    /\ ScriptRuns /\ \E s \in String : Swept(s)
    /\ str' = [s \in String |-> IF Swept(s) THEN Free ELSE str[s]]
    /\ UNCHANGED <<at, keys, stmt, pc, js>>
----------------------------------------------------------------------------
(* One concatenation statement, an instruction at a time.                  *)

(* GETVAR / GETGLOBAL: the left operand is read before the right one runs. *)
Begin(m) ==
    /\ pc = "idle" /\ at[m.src] # Undef
    /\ stmt' = m /\ pc' = "rhs"
    /\ IF m.kind = "local" THEN UNCHANGED <<str, at, js>> ELSE CopyRef(Acc, m.src)
    /\ UNCHANGED keys

(* The right operand: a literal, or a variable.                            *)
OperandLiteral(c) ==
    /\ pc = "rhs" /\ Unused(str) # {}
    /\ SetReg(Intern(str, <<c>>), Rhs, InternId(str, <<c>>))
    /\ js' = [js EXCEPT ![Rhs] = <<c>>]
    /\ pc' = "add" /\ UNCHANGED <<keys, stmt>>

OperandVariable(p) ==
    /\ pc = "rhs" /\ at[p] # Undef
    /\ CopyRef(Rhs, p)
    /\ pc' = "add" /\ UNCHANGED <<keys, stmt>>

(* Broken variants of the guards, for the mutants: one reference too many, *)
(* and no test of the interned flag.                                       *)
UnsharedLoose(s) ==
    /\ Len(TextOf(s)) >= AccumMin
    /\ ~str[s].interned
    /\ str[s].refcount <= 3
    /\ at[Rhs] # s
UnsharedByCount(s) ==
    /\ Len(TextOf(s)) >= AccumMin
    /\ str[s].refcount = 1 \/ (str[s].refcount = 2 /\ ~stmt.used)
    /\ at[Rhs] # s

(* vm_concat_accumulate's guards: who else may see this string?  A second  *)
(* reference is tolerated when the next instruction stores the register.   *)
NextStores == ~stmt.used
Unshared(s) ==
    /\ Len(TextOf(s)) >= AccumMin
    /\ ~str[s].interned
    /\ str[s].refcount = 1 \/ (str[s].refcount = 2 /\ NextStores)
    /\ at[Rhs] # s

Concatenated == TextOf(at[Register]) \o TextOf(at[Rhs])
AfterAdd ==
    /\ js' = [js EXCEPT ![Register] = js[Register] \o js[Rhs]]
    /\ pc' = IF stmt.kind = "local" THEN "idle"
             ELSE IF stmt.used THEN "copy" ELSE "put"
    /\ stmt' = IF stmt.kind = "local" THEN NoStatement ELSE stmt
    /\ UNCHANGED keys

(* A broken variant: the stale hash is kept.                               *)
AppendKeepsHash ==
    /\ pc = "add" /\ Len(Concatenated) <= MaxLen
    /\ LET s == at[Register] IN
         /\ Unshared(s)
         /\ Len(Concatenated) <= str[s].capacity
         /\ str' = [str EXCEPT ![s].text = Concatenated]
    /\ AfterAdd
    /\ UNCHANGED at

(* HString.try_append_in_place: the text changes under every holder, and   *)
(* the cached hash is invalidated.                                         *)
AppendInPlace ==
    /\ pc = "add" /\ Len(Concatenated) <= MaxLen
    /\ LET s == at[Register] IN
         /\ Unshared(s)
         /\ Len(Concatenated) <= str[s].capacity
         /\ str' = [str EXCEPT ![s].text = Concatenated, ![s].hash = Deferred]
    /\ AfterAdd
    /\ UNCHANGED at

(* Out of capacity: a bigger accumulator replaces it in the register.      *)
AppendGrown ==
    /\ pc = "add" /\ Len(Concatenated) <= MaxLen /\ Unused(str) # {}
    /\ LET s == at[Register]
           need == Len(Concatenated)
           twice == 2 * str[s].capacity
       IN /\ Unshared(s)
          /\ need > str[s].capacity
          /\ SetReg(Accumulator(str, Concatenated, IF twice < need THEN need ELSE twice),
                    Register, NewString(str))
    /\ AfterAdd

(* The generic path copies both halves; a long result is born as an        *)
(* accumulator with room for as much again, a short one is interned.       *)
ConcatCopy ==
    /\ pc = "add" /\ Len(Concatenated) <= MaxLen /\ Unused(str) # {}
    /\ ~Unshared(at[Register])
    /\ IF Len(Concatenated) >= AccumMin
       THEN SetReg(Accumulator(str, Concatenated, 2 * Len(Concatenated)),
                   Register, NewString(str))
       ELSE SetReg(Intern(str, Concatenated), Register, InternId(str, Concatenated))
    /\ AfterAdd

(* "Invalid string length", or no memory: an error leaves the statement.   *)
ConcatTooLong ==
    /\ pc = "add" /\ (Len(Concatenated) > MaxLen \/ Unused(str) = {})
    /\ pc' = "idle" /\ stmt' = NoStatement
    /\ UNCHANGED <<str, at, keys, js>>

(* LDREG slot, acc: the expression's value outlives the PUTVAR.            *)
CopyResult(p) ==
    /\ pc = "copy" /\ p \in Slots
    /\ CopyRef(p, Acc)
    /\ pc' = "put" /\ UNCHANGED <<keys, stmt>>

(* A broken variant: the binding's old string is not released.             *)
PutVarLeaks ==
    /\ pc = "put" /\ stmt.dst \notin ConstBindings
    /\ at' = [at EXCEPT ![stmt.dst] = at[Acc], ![Acc] = Undef]
    /\ js' = [js EXCEPT ![stmt.dst] = js[Acc], ![Acc] = <<>>]
    /\ pc' = "idle" /\ stmt' = NoStatement
    /\ UNCHANGED <<str, keys>>

(* PUTVAR / PUTGLOBAL: the register's reference moves to the binding.      *)
PutVar ==
    /\ pc = "put" /\ stmt.dst \notin ConstBindings
    /\ str' = Decref(str, at[stmt.dst])
    /\ at' = [at EXCEPT ![stmt.dst] = at[Acc], ![Acc] = Undef]
    /\ js' = [js EXCEPT ![stmt.dst] = js[Acc], ![Acc] = <<>>]
    /\ pc' = "idle" /\ stmt' = NoStatement
    /\ UNCHANGED keys

(* A const binding: the TypeError leaves the statement.                    *)
PutConst ==
    /\ pc = "put" /\ stmt.dst \in ConstBindings
    /\ pc' = "idle" /\ stmt' = NoStatement
    /\ UNCHANGED <<str, at, keys, js>>

Script ==
    \/ \E p \in Places, c \in Chunks : AssignLiteral(p, c)
    \/ \E p, q \in Places : Assign(p, q)
    \/ \E p \in Places : Clear(p) \/ UseAsKey(p)
    \/ \E k \in keys : DropKey(k)
    \/ SweepStrings

Concat ==
    \/ \E m \in Shapes : Begin(m)
    \/ \E c \in Chunks : OperandLiteral(c)
    \/ \E p \in Bindings \cup Locals : OperandVariable(p)
    \/ AppendInPlace \/ AppendGrown \/ ConcatCopy \/ ConcatTooLong
    \/ \E p \in Slots : CopyResult(p)
    \/ PutVar \/ PutConst

Next == Script \/ Concat
Spec == Init /\ [][Next]_vars
----------------------------------------------------------------------------
(* Every variable has its type.                                            *)
TypeOK ==
    /\ str \in [String -> Header \cup {Free}]
    /\ at \in [Places -> String \cup {Undef}]
    /\ keys \subseteq String
    /\ stmt \in Shapes \cup {NoStatement}
    /\ pc \in {"idle", "rhs", "add", "copy", "put"}
    /\ js \in [Places -> Text \cup {<<>>}]

(* vm_execute.c3:203 and test_concat_accumulate_aliasing.js: appending in  *)
(* place cannot be observed.  Every place reads the text the language      *)
(* gives it; only the variable that the pending PUTVAR overwrites may      *)
(* already hold the longer text.                                           *)
AppendUnobservable ==
    \A p \in Places :
        (pc \in {"copy", "put"} /\ p = stmt.dst)
        \/ (IF at[p] = Undef THEN <<>> ELSE TextOf(at[p])) = js[p]

(* heap.c3 decref and str_table_adopt: a string's count is the number of   *)
(* places that hold it plus the table's own reference, so it is freed      *)
(* neither early nor late, through appends, growth, keys and sweeps.       *)
CountsExact ==
    \A s \in String :
        LET holders == {p \in Places : at[p] = s} IN
        IF str[s].live
        THEN str[s].refcount = Cardinality(holders) + (IF str[s].interned THEN 1 ELSE 0)
        ELSE holders = {} /\ s \notin keys

(* heap.c3 ensure_interned: property lookup compares pointers, so a text   *)
(* has one canonical string, and the table finds it by its hash and text   *)
(* although the string was built by appends that deferred the hash.        *)
KeysCanonical ==
    \A s \in String : str[s].live /\ str[s].interned => Lookup(str, TextOf(s)) = {s}

(* vm_execute.c3:206: an interned string may be anybody's literal or key,  *)
(* so while it lives its text never changes.                               *)
InternedFrozen ==
    [][\A s \in String : str[s].live /\ str[s].interned /\ str'[s].live
            => str'[s].interned /\ str'[s].text = str[s].text]_vars
=============================================================================
