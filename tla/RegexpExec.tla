----------------------------- MODULE RegexpExec -----------------------------
(***************************************************************************)
(* lre_exec_backtrack: the backtracking interpreter of the bytecode, one   *)
(* action per opcode (the variants that share a case share an action), and *)
(* the entry and exit of lre_exec and re_run around it.                    *)
(*                                                                         *)
(* stack is the array of StackElem between stack_buf and sp: pairs         *)
(* <<index, old value>> that undo a write to capture[], and triples        *)
(* <<pc, cptr, [bp, type]>> that save a state.  bp is the height of the    *)
(* stack just above the newest saved state, 0 when there is none.          *)
(***************************************************************************)
EXTENDS RegexpCode

CONSTANTS
    STACK_SIZE,      \* elements of static_stack_buf
    StackMax         \* bound: a stack of more elements cannot be allocated

ASSUME StackAssumption ==
    STACK_SIZE \in Nat \ {0} /\ StackMax \in Nat /\ STACK_SIZE <= StackMax

VARIABLES
    subject,         \* the code units matched against (cbuf)
    utf16,           \* cbuf_type = 2: surrogate pairs are one character
    pc,              \* position in code
    cptr,            \* position in subject
    capture,         \* capture[]: two slots a group, then the registers
    stack,
    bp,
    stack_size,      \* elements allocated
    ret              \* "idle", "running", "match", "no_match" or an error

execVars == <<subject, utf16, pc, cptr, capture, stack, bp, stack_size, ret>>

Null   == -1         \* a capture that did not participate
Unset  == -2         \* a register nothing has been stored in

MEMORY_ERROR == "memory_error"

Ins == code[pc + 1]

\* The position of the instruction after this one.
After == pc + InsLen(Ins)

Running(ops) == ret = "running" /\ Ins.op \in ops

AtEnd == cptr >= Len(subject)

Cur == CharAt(subject, cptr, utf16)

---------------------------------------------------------------------------
(***************************************************************************)
(* The stack.                                                              *)
(***************************************************************************)
\* CHECK_STACK_SPACE(n) with an array of size elements filled to height: the
\* size it has afterwards, half as much again at least when it must grow.
Room(size, height, n) ==
    IF size - height >= n THEN size
    ELSE Max({(size * 3) \div 2, height + n})

\* The array is grown to size, which the bound allows.
Grown(size) ==
    /\ stack_size' = size
    /\ UNCHANGED ret

OutOfMemory ==
    /\ ret' = MEMORY_ERROR
    /\ UNCHANGED <<pc, cptr, capture, stack, bp, stack_size>>

\* Save a state that resumes at p.
SavedState(p, type) == <<p, cptr, [bp |-> bp, type |-> type]>>

PushState(p, type, next) ==
    LET size == Room(stack_size, Len(stack), 3)
    IN  IF size > StackMax THEN OutOfMemory
        ELSE /\ Grown(size)
             /\ stack' = stack \o SavedState(p, type)
             /\ bp' = Len(stack) + 3
             /\ pc' = next
             /\ UNCHANGED <<cptr, capture>>

\* SAVE_CAPTURE for each of the writes <<index, value>>, into an array that
\* has size elements.
SaveCapture(size, writes, next) ==
    LET undo == [n \in 1 .. 2 * Len(writes) |->
                    LET i == writes[(n + 1) \div 2][1]
                    IN  IF n % 2 = 1 THEN i ELSE capture[i]]
        sizes[k \in 0 .. Len(writes)] ==
            IF k = 0 THEN size
            ELSE Room(sizes[k - 1], Len(stack) + 2 * (k - 1), 2)
    IN  IF sizes[Len(writes)] > StackMax THEN OutOfMemory
        ELSE /\ Grown(sizes[Len(writes)])
             /\ stack' = stack \o undo
             /\ capture' = [i \in DOMAIN capture |->
                              IF \E k \in DOMAIN writes : writes[k][1] = i
                              THEN writes[CHOOSE k \in DOMAIN writes :
                                             writes[k][1] = i][2]
                              ELSE capture[i]]
             /\ pc' = next
             /\ UNCHANGED <<cptr, bp>>

\* The heights just above the saved states, found from bp down.
Saved ==
    LET below[h \in 0 .. Len(stack)] ==
            IF h = 0 THEN {}
            ELSE {h} \cup IF stack[h].bp \in 0 .. h - 1 THEN below[stack[h].bp]
                          ELSE {}
    IN  below[bp]

SavedAs(types) == {h \in Saved : stack[h].type \in types}

\* The states no_match may return to.
Resumable == SavedAs({"split", "negative_lookahead"})

\* The height at which the part of the stack above the saved state under height
\* g (or above the bottom, g = 0) ends: below the next saved state.
TopOf(g) ==
    LET above == {h \in Saved : h > g}
    IN  IF above = {} THEN Len(stack) ELSE Min(above) - 3

\* The undo pairs in that part.
Pairs(g) == {k \in g + 1 .. TopOf(g) : (k - g) % 2 = 1}

\* Mutant: the register has an undo pair anywhere on the stack.
AlreadySavedAnywhere(i) == \E g \in Saved \cup {0} : \E k \in Pairs(g) : stack[k] = i

\* SAVE_CAPTURE_CHECK's test: the register has an undo pair since the newest
\* saved state.
AlreadySaved(i) == \E k \in Pairs(bp) : stack[k] = i

\* The undo pair SAVE_CAPTURE_CHECK pushes for register i, if any.
UndoOf(i) == IF AlreadySaved(i) THEN <<>> ELSE <<i, capture[i]>>

\* capture[] after the writes above height h are undone: the lowest undo pair
\* of a slot holds its oldest value.
UndoneTo(h) ==
    LET pairs == UNION {Pairs(g) : g \in {x \in Saved : x >= h}}
    IN  [i \in DOMAIN capture |->
            LET saved == {k \in pairs : stack[k] = i}
            IN  IF saved = {} THEN capture[i] ELSE stack[Min(saved) + 1]]

\* Mutant: one element of the saved state stays on the stack.
RestoreShort(h) ==
    /\ capture' = UndoneTo(h)
    /\ pc' = stack[h - 2]
    /\ cptr' = stack[h - 1]
    /\ bp' = stack[h].bp
    /\ stack' = SubSeq(stack, 1, h - 2)

\* Return to the state saved just under height h.
Restore(h) ==
    /\ capture' = UndoneTo(h)
    /\ pc' = stack[h - 2]
    /\ cptr' = stack[h - 1]
    /\ bp' = stack[h].bp
    /\ stack' = SubSeq(stack, 1, h - 3)

\* Mutant: the oldest saved state is returned to without being popped.
NoMatchKeepsLast(size) ==
    /\ stack_size' = size
    /\ IF Resumable = {}
       THEN ret' = "no_match" /\ UNCHANGED <<pc, cptr, capture, stack, bp>>
       ELSE LET h == Max(Resumable)
            IN  IF Cardinality(Resumable) > 1 THEN Restore(h) /\ UNCHANGED ret
                ELSE /\ capture' = UndoneTo(h)
                     /\ pc' = stack[h - 2] /\ cptr' = stack[h - 1]
                     /\ bp' = h /\ stack' = SubSeq(stack, 1, h)
                     /\ UNCHANGED ret

\* no_match: back to the newest saved state that is not the start of a
\* lookahead, which has then failed too.
NoMatchIn(size) ==
    /\ stack_size' = size
    /\ IF Resumable = {}
       THEN ret' = "no_match" /\ UNCHANGED <<pc, cptr, capture, stack, bp>>
       ELSE Restore(Max(Resumable)) /\ UNCHANGED ret

NoMatch == NoMatchIn(stack_size)

\* The step succeeds and goes on at next with the subject at p.
Advance(next, p) ==
    /\ pc' = next
    /\ cptr' = p
    /\ UNCHANGED <<capture, stack, bp, stack_size, ret>>

---------------------------------------------------------------------------
(***************************************************************************)
(* Characters.                                                             *)
(***************************************************************************)
Folded(c, i) == IF i THEN lre_canonicalize(c, is_unicode) ELSE c

\* The binary search of REOP_range and REOP_range32 over n intervals.
InRanges(c, ranges, wide) ==
    LET n == Len(ranges) \div 2
        low(k)  == ranges[2 * k + 1]
        high(k) == ranges[2 * k + 2]
        search[lo \in 0 .. n, hi \in -1 .. n - 1] ==
            IF lo > hi THEN FALSE
            ELSE LET k == (lo + hi) \div 2
                 IN  IF c < low(k) THEN search[lo, k - 1]
                     ELSE IF c > high(k) THEN search[k + 1, hi]
                     ELSE TRUE
    IN  /\ c >= low(0)
        /\ \/ ~wide /\ c >= 65535 /\ high(n - 1) = 65535
           \/ c <= high(n - 1) /\ search[0, n - 1]

\* Whether the instruction accepts the character c.
Accepts(ins, c) ==
    CASE ins.op \in {"char", "char32"} -> Folded(c, ins.i) = ins.c
      [] ins.op = "range"     -> InRanges(Folded(c, ins.i), ins.ranges, FALSE)
      [] ins.op = "range32"   -> InRanges(Folded(c, ins.i), ins.ranges, TRUE)
      [] ins.op = "dot"       -> ~is_line_terminator(c)
      [] ins.op = "any"       -> TRUE
      [] ins.op = "space"     -> lre_is_space(c)
      [] ins.op = "not_space" -> ~lre_is_space(c)

OpChar ==
    /\ Running(Consuming)
    /\ IF ~AtEnd /\ Accepts(Ins, Cur.c) THEN Advance(After, Cur.at) ELSE NoMatch

OpPrev ==
    /\ Running({"prev"})
    /\ IF cptr = 0 THEN NoMatch
       ELSE Advance(After, CharBefore(subject, cptr, 0, utf16).at)

Previous == CharBefore(subject, cptr, 0, utf16).c

OpLineStart ==
    /\ Running({"line_start", "line_start_m"})
    /\ IF \/ cptr = 0
          \/ Ins.op = "line_start_m" /\ is_line_terminator(Previous)
       THEN Advance(After, cptr) ELSE NoMatch

OpLineEnd ==
    /\ Running({"line_end", "line_end_m"})
    /\ IF \/ cptr = Len(subject)
          \/ Ins.op = "line_end_m" /\ is_line_terminator(Cur.c)
       THEN Advance(After, cptr) ELSE NoMatch

IsWord(c, i) == IF c < 256 THEN lre_is_word_byte(c) ELSE i /\ c \in {383, 8490}

OpWordBoundary ==
    /\ Running({"word_boundary", "not_word_boundary"})
    /\ LET v1 == cptr # 0 /\ IsWord(Previous, Ins.i)
           v2 == ~AtEnd /\ IsWord(Cur.c, Ins.i)
       IN  IF (v1 # v2) = (Ins.op = "word_boundary")
           THEN Advance(After, cptr) ELSE NoMatch

(***************************************************************************)
(* A back reference compares the first of its groups that is set with the  *)
(* subject, character by character; with none set it matches nothing.      *)
(***************************************************************************)
Positions == 0 .. Len(subject)

\* The position after the text between s and e is read again at p, or -1: d is
\* how far the text and the subject have been read.
MatchForward(s, e, p, i) ==
    LET go[d \in Positions \X Positions] ==
            LET a == IF PairAt(subject, d[1], utf16) /\ d[1] + 1 < e
                     THEN CharAt(subject, d[1], utf16)
                     ELSE [c |-> subject[d[1] + 1], at |-> d[1] + 1]
                b == CharAt(subject, d[2], utf16)
            IN  IF d[1] >= e THEN d[2]
                ELSE IF d[2] >= Len(subject) \/ Folded(a.c, i) # Folded(b.c, i) THEN -1
                ELSE go[<<a.at, b.at>>]
    IN  go[<<s, p>>]

MatchBackward(s, e, p, i) ==
    LET go[d \in Positions \X Positions] ==
            LET a == CharBefore(subject, d[1], s, utf16)
                b == CharBefore(subject, d[2], 0, utf16)
            IN  IF d[1] <= s THEN d[2]
                ELSE IF d[2] = 0 \/ Folded(a.c, i) # Folded(b.c, i) THEN -1
                ELSE go[<<a.at, b.at>>]
    IN  go[<<e, p>>]

IsSet(g) == capture[2 * g] # Null /\ capture[2 * g + 1] # Null

OpBackReference ==
    /\ Running({"back_reference", "backward_back_reference"})
    /\ LET set == {n \in DOMAIN Ins.groups : IsSet(Ins.groups[n])}
           g   == Ins.groups[Min(set)]
           s   == capture[2 * g]
           e   == capture[2 * g + 1]
           p   == IF Ins.op = "back_reference"
                  THEN MatchForward(s, e, cptr, Ins.i)
                  ELSE MatchBackward(s, e, cptr, Ins.i)
       IN  IF set = {} THEN Advance(After, cptr)
           ELSE IF p = -1 THEN NoMatch ELSE Advance(After, p)

---------------------------------------------------------------------------
(***************************************************************************)
(* Control.                                                                *)
(***************************************************************************)
Target == After + Ins.off

OpGoto == Running({"goto"}) /\ Advance(Target, cptr)

OpSplit ==
    /\ Running({"split_goto_first", "split_next_first"})
    /\ IF Ins.op = "split_next_first"
       THEN PushState(Target, "split", After)
       ELSE PushState(After, "split", Target)

OpLookahead ==
    /\ Running({"lookahead", "negative_lookahead"})
    /\ PushState(Target, Ins.op, After)

\* The lookahead has matched: its saved states go, its captures stay, and so
\* do their undo pairs when a state below may still be returned to.
OpLookaheadMatch ==
    /\ Running({"lookahead_match"})
    /\ LET h    == Max(SavedAs({"lookahead"}))
           gone == {g \in Saved : g >= h}
           kept == {k \in h + 1 .. Len(stack) :
                       \A g \in gone : k \notin g - 2 .. g}
           undo == [n \in 1 .. Cardinality(kept) |->
                       stack[CHOOSE k \in kept :
                                Cardinality({j \in kept : j <= k}) = n]]
       IN  /\ pc' = stack[h - 2]
           /\ cptr' = stack[h - 1]
           /\ bp' = stack[h].bp
           /\ stack' = IF h = 3 THEN <<>> ELSE SubSeq(stack, 1, h - 3) \o undo
    /\ UNCHANGED <<capture, stack_size, ret>>

\* The body of a negative lookahead has matched: everything since its start is
\* undone and the lookahead fails.
OpNegativeLookaheadMatch ==
    /\ Running({"negative_lookahead_match"})
    /\ LET h     == Max(SavedAs({"negative_lookahead"}))
           outer == {g \in Resumable : g < h}
       IN  IF outer = {}
           THEN /\ ret' = "no_match"
                /\ UNCHANGED <<pc, cptr, capture, stack, bp, stack_size>>
           ELSE /\ Restore(Max(outer))
                /\ UNCHANGED <<stack_size, ret>>

OpSave ==
    /\ Running({"save_start", "save_end"})
    /\ LET slot == 2 * Ins.group + (IF Ins.op = "save_end" THEN 1 ELSE 0)
       IN  SaveCapture(stack_size, << <<slot, cptr>> >>, After)

OpSaveReset ==
    /\ Running({"save_reset"})
    /\ LET slots == 2 * (Ins.hi - Ins.lo + 1)
       IN  SaveCapture(Room(stack_size, Len(stack), slots),
                       [k \in 1 .. slots |-> <<2 * Ins.lo + k - 1, Null>>],
                       After)

---------------------------------------------------------------------------
(***************************************************************************)
(* Counted loops and the advance check.                                    *)
(***************************************************************************)
Reg == 2 * capture_count + Ins.reg

\* A register write that saves the old value once per saved state.
SetRegister(v, next) ==
    LET size == Room(stack_size, Len(stack), Len(UndoOf(Reg)))
    IN  IF size > StackMax THEN OutOfMemory
        ELSE /\ Grown(size)
             /\ stack' = stack \o UndoOf(Reg)
             /\ capture' = [capture EXCEPT ![Reg] = v]
             /\ pc' = next
             /\ UNCHANGED <<cptr, bp>>

OpSetI32 == Running({"set_i32"}) /\ SetRegister(Ins.val, After)

OpSetCharPos == Running({"set_char_pos"}) /\ SetRegister(cptr, After)

OpCheckAdvance ==
    /\ Running({"check_advance"})
    /\ IF capture[Reg] = cptr THEN NoMatch ELSE Advance(After, cptr)

OpLoop ==
    /\ Running({"loop"})
    /\ SetRegister(capture[Reg] - 1, IF capture[Reg] - 1 # 0 THEN Target ELSE After)

LoopChecks == {"loop_check_adv_split_goto_first",
               "loop_check_adv_split_next_first"}

NextFirst == {"loop_split_next_first", "loop_check_adv_split_next_first"}

\* The counter is decremented; below the limit the atom must have advanced
\* (unless this is the last required repetition) and the loop becomes a
\* choice; at zero it ends.
OpLoopSplit ==
    /\ Running({"loop_split_goto_first", "loop_split_next_first"} \cup LoopChecks)
    /\ LET v     == capture[Reg] - 1
           stuck == /\ Ins.op \in LoopChecks
                    /\ capture[Reg + 1] = cptr
                    /\ v # Ins.limit
           stk   == stack \o UndoOf(Reg)
           size1 == Room(stack_size, Len(stack), Len(UndoOf(Reg)))
           size  == Room(size1, Len(stk), 3)
           first == IF Ins.op \in NextFirst THEN After ELSE Target
           later == IF Ins.op \in NextFirst THEN Target ELSE After
       IN  \/ v > Ins.limit /\ SetRegister(v, Target)
           \/ /\ v <= Ins.limit /\ stuck
              /\ IF size1 > StackMax THEN OutOfMemory ELSE NoMatchIn(size1)
           \/ v <= Ins.limit /\ ~stuck /\ v = 0 /\ SetRegister(v, After)
           \/ /\ v <= Ins.limit /\ ~stuck /\ v # 0
              /\ IF size > StackMax THEN OutOfMemory
                 ELSE /\ Grown(size)
                      /\ capture' = [capture EXCEPT ![Reg] = v]
                      /\ stack' = stk \o <<later, cptr,
                                          [bp |-> bp, type |-> "split"]>>
                      /\ bp' = Len(stk) + 3
                      /\ pc' = first
                      /\ UNCHANGED cptr

OpMatch ==
    /\ Running({"match"})
    /\ ret' = "match"
    /\ UNCHANGED <<pc, cptr, capture, stack, bp, stack_size>>

---------------------------------------------------------------------------
ExecNext ==
    /\ \/ OpChar \/ OpPrev \/ OpLineStart \/ OpLineEnd \/ OpWordBoundary
       \/ OpBackReference \/ OpGoto \/ OpSplit \/ OpLookahead
       \/ OpLookaheadMatch \/ OpNegativeLookaheadMatch \/ OpSave \/ OpSaveReset
       \/ OpSetI32 \/ OpSetCharPos \/ OpCheckAdvance \/ OpLoop \/ OpLoopSplit
       \/ OpMatch
    /\ UNCHANGED <<code, flags, capture_count, register_count, subject, utf16>>

---------------------------------------------------------------------------
(***************************************************************************)
(* The interpreter by itself, as re_run and lre_exec enter it: on code it  *)
(* can run, anywhere in the subject, with the captures and registers unset *)
(* and an empty stack.                                                     *)
(***************************************************************************)
ExecInit ==
    /\ Len(code) \in Nat /\ Runnable(code, capture_count, register_count)
    /\ capture_count \in Nat /\ register_count \in Nat
    /\ subject \in Seq(Nat) /\ utf16 \in BOOLEAN
    /\ pc = 0
    /\ cptr \in 0 .. Len(subject)
    /\ capture = [k \in 0 .. 2 * capture_count + register_count - 1 |->
                     IF k < 2 * capture_count THEN Null ELSE Unset]
    /\ stack = <<>> /\ bp = 0 /\ stack_size = STACK_SIZE
    /\ ret = "running"

ExecSpec ==
    ExecInit /\ [][ExecNext]_<<code, flags, capture_count, register_count, execVars>>

---------------------------------------------------------------------------
(***************************************************************************)
(* Properties.                                                             *)
(***************************************************************************)
IsState(x) == x.type \in {"split", "lookahead", "negative_lookahead"}

\* The part of the stack above the saved state under height g is undo pairs: a
\* slot of capture[] and a value.
UndoPairs(g) ==
    /\ (TopOf(g) - g) % 2 = 0
    /\ \A k \in Pairs(g) : stack[k] \in DOMAIN capture

\* The array divides into states, linked through bp, and undo pairs.
Divided ==
    /\ \A h \in Saved : /\ h \in 3 .. Len(stack)
                        /\ IsState(stack[h]) /\ stack[h].bp \in 0 .. h - 3
    /\ \A g \in Saved \cup {0} : UndoPairs(g)

\* The innermost lookaround that is open is one of type.
InLookaround(type) ==
    LET open == SavedAs({"lookahead", "negative_lookahead"})
    IN  open # {} /\ stack[Max(open)].type = type

\* The interpreter keeps saved states and undo pairs in one untyped array and
\* finds them by arithmetic on bp alone (SAVE_CAPTURE, SAVE_CAPTURE_CHECK and
\* the pops of no_match, lookahead_match and negative_lookahead_match).  In every
\* state the array divides exactly into states and undo pairs along the chain of
\* bp, it is within the memory allocated for it, and an instruction that ends a
\* lookaround finds the state of that very lookaround on the chain.
StackSound ==
    ret = "running" =>
        /\ Len(stack) <= stack_size
        /\ Divided
        /\ Ins.op = "lookahead_match" => InLookaround("lookahead")
        /\ Ins.op = "negative_lookahead_match" => InLookaround("negative_lookahead")

\* A write to capture[] is undone by the pair it pushed, or by one an earlier
\* write since the newest saved state had pushed; a lookaround that matches moves
\* the pairs down, under the states it drops (SAVE_CAPTURE, SAVE_CAPTURE_CHECK,
\* lookahead_match).  Whatever the interpreter does, a state that stays saved is
\* one whose return restores the same captures and registers as before.
RestoresSame ==
    (ret = "running" /\ ret' = "running") =>
        \A h \in Saved \cap Saved' : UndoneTo(h)' = UndoneTo(h)

BacktrackingExact == [][RestoresSame]_execVars

\* compute_register_count allots the registers of nested loops by counting
\* pushes and pops in one pass over the code, however the code jumps.  Wherever
\* execution and backtracking lead, a loop or an advance check reads a register
\* that has been set, inside the array re_run allocates.
RegistersSet ==
    (ret = "running" /\ Ins.op \in Pops1 \cup Pops2) =>
        \A r \in IF Ins.op \in LoopChecks THEN {Reg, Reg + 1} ELSE {Reg} :
            r \in DOMAIN capture /\ capture[r] # Unset

=============================================================================
