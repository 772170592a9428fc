----------------------------- MODULE RegexpCode -----------------------------
(***************************************************************************)
(* The bytecode of the regular-expression engine (libregexp/libregexp.c    *)
(* and libregexp-opcode.h) and the pure functions the compiler applies to  *)
(* it: emitting an instruction, inserting a quantifier around an atom,     *)
(* deciding whether the atom needs an advance check or a capture reset,    *)
(* and allotting registers.                                                *)
(*                                                                         *)
(* Bytecode is a sequence of byte cells.  The first byte of an instruction *)
(* is a record that carries its operands decoded, its other bytes are      *)
(* Operand; so sizes, positions and relative jumps are the byte counts of  *)
(* the source, and a jump into the middle of an instruction shows.         *)
(* Positions are 0-based like the C offsets: the byte at p is code[p + 1]. *)
(***************************************************************************)
EXTENDS CharRange, RegexpText, FiniteSets, FiniteSetsExt

\* INT32_MAX: the quantifier bound that stands for infinity.
Infinity == 2147483647

Operand == [op |-> "operand"]

\* The size in bytes of an instruction, without the intervals of a range and
\* the group numbers of a back reference.
OpSize(op) ==
    CASE op \in {"dot", "any", "space", "not_space", "line_start",
                 "line_start_m", "line_end", "line_end_m", "match",
                 "lookahead_match", "negative_lookahead_match",
                 "word_boundary", "not_word_boundary", "prev"}  -> 1
      [] op \in {"save_start", "save_end", "set_char_pos",
                 "check_advance", "back_reference",
                 "backward_back_reference"}                      -> 2
      [] op \in {"char", "save_reset", "range", "range32"}       -> 3
      [] op \in {"char32", "goto", "split_goto_first",
                 "split_next_first", "lookahead",
                 "negative_lookahead"}                           -> 5
      [] op \in {"loop", "set_i32"}                              -> 6
      [] op \in {"loop_split_goto_first", "loop_split_next_first",
                 "loop_check_adv_split_goto_first",
                 "loop_check_adv_split_next_first"}              -> 10

\* The number of bytes an instruction occupies.
InsLen(ins) ==
    OpSize(ins.op) +
      CASE ins.op = "range"   -> 4 * (Len(ins.ranges) \div 2)
        [] ins.op = "range32" -> 8 * (Len(ins.ranges) \div 2)
        [] ins.op \in {"back_reference", "backward_back_reference"}
                              -> Len(ins.groups)
        [] OTHER              -> 0

\* The bytes of one instruction.
Bytes(ins) == [k \in 1 .. InsLen(ins) |-> IF k = 1 THEN ins ELSE Operand]

Emit(code, ins) == code \o Bytes(ins)

Op(op)             == [op |-> op]
Jump(op, off)      == [op |-> op, off |-> off]
Save(op, group)    == [op |-> op, group |-> group]
Register(op)       == [op |-> op, reg |-> 0]
SetI32(v)          == [op |-> "set_i32", reg |-> 0, val |-> v]
SaveReset(lo, hi)  == [op |-> "save_reset", lo |-> lo, hi |-> hi]
Loop(off)          == [op |-> "loop", reg |-> 0, off |-> off]
LoopSplit(op, limit, off) ==
    [op |-> op, reg |-> 0, limit |-> limit, off |-> off]
BackReference(back, i, groups) ==
    [op |-> IF back THEN "backward_back_reference" ELSE "back_reference",
     i |-> i, groups |-> groups]
WordBoundary(not, i) ==
    [op |-> IF not THEN "not_word_boundary" ELSE "word_boundary", i |-> i]

\* A literal character: 16 bits when it fits, 32 otherwise.
EmitChar(code, c, i) ==
    Emit(code, [op |-> IF c <= 65535 THEN "char" ELSE "char32",
                c |-> c, i |-> i])

(***************************************************************************)
(* A set of characters is the sorted sequence of its boundaries (CharRange *)
(* points): in from the 1st, out from the 2nd, in from the 3rd, ...        *)
(***************************************************************************)
\* The sixteen-bit form stores an interval's last character; 16#ffff there
\* means there is no last one.  The empty class compiles to a character that
\* never occurs.
EmitRange(code, points, i) ==
    LET n     == Len(points)
        start == points[n - 1]
        high  == IF points[n] = RangeEnd THEN start ELSE points[n]
        last(p, unbounded) == IF p = RangeEnd THEN unbounded ELSE p - 1
        pairs(unbounded) ==
            [k \in 1 .. n |-> IF k % 2 = 1 THEN points[k]
                              ELSE last(points[k], unbounded)]
    IN  CASE n = 0 -> Emit(code, [op |-> "char32", c |-> -1, i |-> FALSE])
          [] n # 0 /\ high <= 65535 ->
               Emit(code, [op |-> "range", i |-> i, ranges |-> pairs(65535)])
          [] OTHER ->
               Emit(code, [op |-> "range32", i |-> i,
                           ranges |-> pairs(RangeEnd - 1)])

\* A class that holds strings: the longest first, then the characters, then
\* the empty string.  Every alternative but the last is tried by a split and
\* leaves by a goto to the end; strs holds the non-empty strings in the order
\* they are tried.
EmitStringList(code, strs, hasEmpty, points, i) ==
    LET n == Len(strs)
        chars[k \in 1 .. n] ==
            LET upTo[m \in 0 .. Len(strs[k])] ==
                    IF m = 0 THEN <<>> ELSE EmitChar(upTo[m - 1], strs[k][m], i)
            IN  upTo[Len(strs[k])]
        range == EmitRange(<<>>, points, i)
        rest ==
            CASE points = <<>>              -> <<>>
              [] points # <<>> /\ hasEmpty  ->
                    Bytes(Jump("split_next_first", Len(range))) \o range
              [] OTHER                      -> range
        from[k \in 1 .. n + 1] ==
            CASE k = n + 1 -> rest
              [] k = n /\ ~hasEmpty /\ points = <<>> -> chars[k]
              [] OTHER ->
                    Bytes(Jump("split_next_first", Len(chars[k]) + 5))
                      \o chars[k]
                      \o Bytes(Jump("goto", Len(from[k + 1])))
                      \o from[k + 1]
    IN  code \o (IF n = 0 /\ ~hasEmpty THEN range ELSE from[1])

---------------------------------------------------------------------------
(***************************************************************************)
(* What an atom's code tells the quantifier: the scan stops at the first   *)
(* instruction whose outcome it cannot predict.                            *)
(***************************************************************************)
Consuming == {"range", "range32", "char", "char32", "dot", "any", "space",
              "not_space"}
Neutral   == {"line_start", "line_start_m", "line_end", "line_end_m",
              "set_i32", "set_char_pos", "word_boundary",
              "not_word_boundary", "prev", "save_start", "save_end",
              "save_reset", "back_reference", "backward_back_reference",
              "operand"}

\* The part of the atom the scan of re_need_check_adv_and_capture_init reads.
Scanned(atom) ==
    LET stops == {k \in DOMAIN atom : atom[k].op \notin Consuming \cup Neutral}
    IN  IF stops = {} THEN atom ELSE SubSeq(atom, 1, Min(stops) - 1)

NeedCheckAdv(atom) ==
    \A k \in DOMAIN Scanned(atom) : atom[k].op \notin Consuming

\* Mutant: an unpredictable instruction does not ask for the reset.
CaptureInitForRefs(atom) ==
    \E k \in DOMAIN atom : atom[k].op \in {"back_reference", "backward_back_reference"}

NeedCaptureInit(atom) ==
    \/ Len(Scanned(atom)) # Len(atom)
    \/ \E k \in DOMAIN atom :
          atom[k].op \in {"back_reference", "backward_back_reference"}

\* The relative operand of a jump at position pos, of an instruction of size
\* len, to the position target (re_emit_goto and its variants).
Offset(pos, len, target) == target - (pos + len)

\* The pieces a quantifier puts around an atom.  adv: the atom may match
\* nothing, so its start is recorded and checked.
SplitFirst(next) == IF next THEN "split_next_first" ELSE "split_goto_first"

LoopSplitOp(adv, greedy) ==
    CASE adv /\ greedy   -> "loop_check_adv_split_goto_first"
      [] adv /\ ~greedy  -> "loop_check_adv_split_next_first"
      [] ~adv /\ greedy  -> "loop_split_goto_first"
      [] ~adv /\ ~greedy -> "loop_split_next_first"

Mark(adv)  == IF adv THEN Bytes(Register("set_char_pos")) ELSE <<>>
Check(adv) == IF adv THEN Bytes(Register("check_advance")) ELSE <<>>

\* code followed by an instruction that jumps back to position at.
BackGoto(code, op, at)  == Emit(code, Jump(op, Offset(Len(code), 5, at)))
BackLoop(code, at)      == Emit(code, Loop(Offset(Len(code), 6, at)))
BackSplit(code, adv, greedy, limit, at) ==
    Emit(code, LoopSplit(LoopSplitOp(adv, greedy), limit, Offset(Len(code), 10, at)))

\* {0,1} and {0,}.
Star(head, atom, adv, max, greedy) ==
    LET forever == max = Infinity
        skip    == Len(atom) + (IF forever THEN 5 ELSE 0) + 2 * Len(Mark(adv))
        once    == Emit(head, Jump(SplitFirst(greedy), skip))
                     \o Mark(adv) \o atom \o Check(adv)
    IN  IF forever THEN BackGoto(once, "goto", Len(head)) ELSE once

\* {0,max}: the loop after a choice to skip it.
UpTo(head, atom, adv, max, greedy) ==
    BackSplit(Emit(Emit(head, Jump(SplitFirst(greedy),
                                   6 + Len(Mark(adv)) + Len(atom) + 10)),
                   SetI32(max)) \o Mark(adv) \o atom,
              adv, greedy, max, Len(head) + 5 + 6)

\* {min,max}: max counts down, and from max - min on the loop is a choice.
Counted(before, atom, adv, min, max, greedy) ==
    LET counter == Emit(before, SetI32(max))
    IN  IF min = max THEN BackLoop(counter \o atom, Len(counter))
        ELSE BackSplit(counter \o Mark(adv) \o atom, adv, greedy, max - min,
                       Len(counter))

\* reset clears the captures of the atom, when it has any: in front of the atom
\* when init, or else once, in case the atom is skipped.
WithQuantifier(before, atom0, reset, adv, init, min, max, greedy) ==
    LET atom == IF init THEN reset \o atom0 ELSE atom0
        head == IF init THEN before ELSE before \o reset
    IN  CASE min = 0 /\ max = 0               -> head
          [] min = 0 /\ max \in {1, Infinity} -> Star(head, atom, adv, max, greedy)
          [] min = 0 /\ max \notin {0, 1, Infinity} ->
               UpTo(head, atom, adv, max, greedy)
          [] min = 1 /\ max = Infinity /\ ~adv ->
               BackGoto(before \o atom, SplitFirst(~greedy), Len(before))
          [] OTHER -> Counted(before, atom, adv, min, max, greedy)

\* The atom occupies code[start ..]; captures lastCap .. capCount - 1 are
\* inside it.  QuantifyAtom gives the code after a quantifier {min,max} on it.
QuantifyAtom(code, start, lastCap, capCount, min, max, greedy) ==
    LET atom == SubSeq(code, start + 1, Len(code))
    IN  WithQuantifier(SubSeq(code, 1, start), atom,
                 IF lastCap = capCount THEN <<>>
                 ELSE Bytes(SaveReset(lastCap, capCount - 1)),
                 NeedCheckAdv(atom), NeedCaptureInit(atom), min, max, greedy)

---------------------------------------------------------------------------
(***************************************************************************)
(* compute_register_count: registers are allotted as a stack in one linear *)
(* pass, a set pushing one and the closing instruction of a loop popping   *)
(* one or two.                                                             *)
(***************************************************************************)
Pushes == {"set_i32", "set_char_pos"}
Pops1  == {"check_advance", "loop", "loop_split_goto_first",
           "loop_split_next_first"}
Pops2  == {"loop_check_adv_split_goto_first",
           "loop_check_adv_split_next_first"}

\* The depth of the register stack before the instruction at code[k].
RegisterDepth(code, k) ==
    Cardinality({j \in 1 .. k - 1 : code[j].op \in Pushes})
      - Cardinality({j \in 1 .. k - 1 : code[j].op \in Pops1})
      - 2 * Cardinality({j \in 1 .. k - 1 : code[j].op \in Pops2})

\* Mutant: a loop with an advance check pops as one without.
AllotRegistersPop1(code) ==
    [k \in DOMAIN code |->
        CASE code[k].op \in Pushes -> [code[k] EXCEPT !.reg = RegisterDepth(code, k)]
          [] code[k].op \in Pops1 \cup Pops2 ->
                                      [code[k] EXCEPT !.reg = RegisterDepth(code, k) - 1]
          [] OTHER                 -> code[k]]

AllotRegisters(code) ==
    [k \in DOMAIN code |->
        CASE code[k].op \in Pushes -> [code[k] EXCEPT !.reg = RegisterDepth(code, k)]
          [] code[k].op \in Pops1  -> [code[k] EXCEPT !.reg = RegisterDepth(code, k) - 1]
          [] code[k].op \in Pops2  -> [code[k] EXCEPT !.reg = RegisterDepth(code, k) - 2]
          [] OTHER                 -> code[k]]

\* The greatest depth any prefix of the code reaches.
RegisterCount(code) ==
    Max({0} \cup {RegisterDepth(code, k) + 1 :
                     k \in {j \in DOMAIN code : code[j].op \in Pushes}})

---------------------------------------------------------------------------
(***************************************************************************)
(* Code the interpreter can run: what lre_exec_backtrack takes from the    *)
(* bytecode without checking it.  Instructions follow each other without   *)
(* gaps and go on at instructions; operands are within what re_run         *)
(* allocates; an instruction that ends a lookaround lies in one of its     *)
(* type; and a register is read only where every way to the instruction    *)
(* has stored in it what it is read as, a counter or a position.           *)
(***************************************************************************)
Loops       == {"loop", "loop_split_goto_first", "loop_split_next_first"} \cup Pops2
Lookarounds == {"lookahead", "negative_lookahead"}
Splits      == {"split_goto_first", "split_next_first"}
Ends        == {"match", "lookahead_match", "negative_lookahead_match"}

InsStarts(code) == {p \in 0 .. Len(code) - 1 : code[p + 1].op # "operand"}

NextOf(code, p)   == p + InsLen(code[p + 1])
TargetOf(code, p) == NextOf(code, p) + code[p + 1].off

\* Where execution may go on after the instruction at p, now or, from the state
\* it saves, later.
Successors(code, p) ==
    LET op == code[p + 1].op
    IN  (IF op \in Ends \cup {"goto"} THEN {} ELSE {NextOf(code, p)})
          \cup IF op \in Loops \cup Lookarounds \cup Splits \cup {"goto"}
               THEN {TargetOf(code, p)} ELSE {}

\* The lookarounds p lies in the body of.
Enclosing(code, p) ==
    {j \in InsStarts(code) : /\ code[j + 1].op \in Lookarounds
                          /\ j < p /\ p < TargetOf(code, j)}

\* The registers that are in use at p, each with the instruction that set it.
LiveRegs(code, p) ==
    {<<r, code[Max({k \in 1 .. p : code[k].op \in Pushes /\ code[k].reg = r})].op>> :
        r \in 0 .. RegisterDepth(code, p + 1) - 1}

OperandsFit(ins, captures, registers) ==
    LET op == ins.op
    IN  /\ op \in {"save_start", "save_end"} => ins.group \in 0 .. captures - 1
        /\ op = "save_reset" =>
              ins.lo \in Nat /\ ins.hi \in ins.lo .. captures - 1
        /\ op \in {"back_reference", "backward_back_reference"} =>
              ins.groups \in Seq(0 .. captures - 1)
        /\ op \in Pushes \cup Pops1 \cup Pops2 => ins.reg \in 0 .. registers - 1
        /\ op \in Pops2 => ins.reg + 1 \in 0 .. registers - 1
        /\ op = "set_i32" => ins.val \in Nat \ {0}
        /\ op \in Loops \ {"loop"} => ins.limit \in Nat

LookaroundsFit(code, p) ==
    LET op     == code[p + 1].op
        inside == Enclosing(code, p)
        Closes(end, start) ==
            op = end => /\ inside # {}
                        /\ code[Max(inside) + 1].op = start
                        /\ LiveRegs(code, TargetOf(code, Max(inside)))
                             \subseteq LiveRegs(code, p)
    IN  /\ op \in Lookarounds =>
              /\ Enclosing(code, NextOf(code, p)) = inside \cup {p}
              /\ Enclosing(code, TargetOf(code, p)) = inside
        /\ op \notin Lookarounds =>
              \A q \in Successors(code, p) : Enclosing(code, q) = inside
        /\ Closes("lookahead_match", "lookahead")
        /\ Closes("negative_lookahead_match", "negative_lookahead")

RegistersFit(code, p) ==
    LET ins  == code[p + 1]
        live == LiveRegs(code, p)
        set  == IF ins.op \in Pushes
                THEN {x \in live : x[1] # ins.reg} \cup {<<ins.reg, ins.op>>}
                ELSE live
    IN  /\ \A q \in Successors(code, p) : LiveRegs(code, q) \subseteq set
        /\ ins.op \in Loops =>
              /\ <<ins.reg, "set_i32">> \in live
              /\ \A x \in LiveRegs(code, NextOf(code, p)) : x[1] # ins.reg
        /\ ins.op = "check_advance" => <<ins.reg, "set_char_pos">> \in live
        /\ ins.op \in Pops2 => <<ins.reg + 1, "set_char_pos">> \in live

Runnable(code, captures, registers) ==
    /\ 0 \in InsStarts(code) /\ Enclosing(code, 0) = {} /\ LiveRegs(code, 0) = {}
    /\ \A p \in InsStarts(code) :
          /\ NextOf(code, p) \in InsStarts(code) \cup {Len(code)}
          /\ Successors(code, p) \subseteq InsStarts(code)
          /\ OperandsFit(code[p + 1], captures, registers)
          /\ LookaroundsFit(code, p)
          /\ RegistersFit(code, p)

---------------------------------------------------------------------------
(***************************************************************************)
(* A compiled regular expression, as the compiler leaves it to the         *)
(* interpreter: the bytecode and the fields of its header (RE_HEADER_x).   *)
(***************************************************************************)
VARIABLES
    code,            \* the bytecode
    flags,           \* the flags u, v, i, m, s and sticky
    capture_count,   \* the groups, the whole match included
    register_count

is_unicode == flags.u \/ flags.v

=============================================================================
