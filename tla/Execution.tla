------------------------------ MODULE Execution ------------------------------
(***************************************************************************)
(* What a function in three-address code does when it runs: the calls it    *)
(* makes, with their arguments, and the value it returns.  Each instruction *)
(* means what the machine code emitted for it does (src/codegen_x86.c).     *)
(*                                                                          *)
(* Words have WordBits bits for the machine's 64 and an int IntBits for 32. *)
(* A double is known by its bits: a sign, an exponent and FractionBits      *)
(* bits of fraction, one of the two at 2^(WordBits - 2) as in IEEE 754.     *)
(***************************************************************************)
EXTENDS IR, Bitwise, SequencesExt

CONSTANTS
  WordBits,      \* the width of a register
  IntBits,       \* the width of an int
  StepBound      \* a run longer than this is one that does not end

ASSUME WidthsAssumption == IntBits \in Nat \ {0} /\ WordBits \in Nat /\ IntBits < WordBits
ASSUME StepBoundAssumption == StepBound \in Nat

Narrowed(n, bits) == ((n + 2^(bits - 1)) % 2^bits) - 2^(bits - 1)
Word(n) == Narrowed(n, WordBits)
Unsigned(n) == n % 2^WordBits
Undefined == 2^WordBits    \* in a register or a local nothing was put into

Truth(p) == IF p THEN 1 ELSE 0
Magnitude(n) == IF n < 0 THEN -n ELSE n
Sign(n) == IF n < 0 THEN -1 ELSE 1
Quotient(a, b) == Sign(a) * Sign(b) * (Magnitude(a) \div Magnitude(b))

Compared(op, a, b) ==
  Truth(CASE op = "CMP_EQ" -> a = b [] op = "CMP_NE" -> a # b
          [] op = "CMP_LT" -> a < b [] op = "CMP_LE" -> a <= b
          [] op = "CMP_GT" -> a > b [] op = "CMP_GE" -> a >= b)

(* idivq truncates; a shift takes its count modulo the width, and to the    *)
(* right keeps the sign.                                                    *)
Integer(op, a, b) ==
  IF op \in Compare THEN Compared(op, a, b)
  ELSE Word(CASE op = "ADD" -> a + b [] op = "SUB" -> a - b [] op = "MUL" -> a * b
              [] op = "DIV" -> Quotient(a, b) [] op = "MOD" -> a - b * Quotient(a, b)
              [] op = "AND" -> Unsigned(a) & Unsigned(b)
              [] op = "OR" -> Unsigned(a) | Unsigned(b)
              [] op = "XOR" -> Unsigned(a) ^^ Unsigned(b)
              [] op = "SHL" -> a * 2^(b % WordBits)
              [] op = "SHR" -> a \div 2^(b % WordBits))

(***************************************************************************)
(* Doubles.  Magnitudes are in units so small that every double is a whole  *)
(* number of them; One is 1.0.  A result is rounded towards zero.           *)
(***************************************************************************)
FractionBits == WordBits - 4
Units(bits) ==
  LET m == bits % 2^(WordBits - 1)
  IN  Sign(bits) * IF m = 0 THEN 0
                   ELSE (2^FractionBits + (m % 2^FractionBits)) * 2^(m \div 2^FractionBits)
One == 2^(FractionBits + 3)
Double(units) ==
  LET m == CHOOSE k \in 0..(2^(WordBits - 1) - 1) :
             /\ Units(k) <= Magnitude(units)
             /\ \A j \in 0..(2^(WordBits - 1) - 1) : Units(j) <= Magnitude(units) => j <= k
  IN  IF units < 0 THEN m - 2^(WordBits - 1) ELSE m

IntegerOnly == {"MOD", "AND", "OR", "XOR", "SHL", "SHR"}
Floating(op, a, b) ==
  IF op \in Compare THEN Compared(op, Units(a), Units(b))
  ELSE Double(CASE op = "ADD" -> Units(a) + Units(b) [] op = "SUB" -> Units(a) - Units(b)
                [] op = "MUL" -> (Units(a) * Units(b)) \div One
                [] op = "DIV" -> (Units(a) * One) \div Units(b))

(***************************************************************************)
(* One instruction.  An input gives the arguments and what the callees      *)
(* answer, in turn; a callee also writes its answer to every local whose    *)
(* address has been taken.                                                  *)
(***************************************************************************)
Value(o, s, in) ==
  IF o.vreg > 0 THEN s.regs[o.vreg] ELSE IF o.vreg = 0 THEN o.imm ELSE in.args[o.imm + 1]

Stop(s, why, v) == [s EXCEPT !.end = why, !.value = v]
Put(s, d, v) == IF d > 0 THEN [s EXCEPT !.regs[d] = v] ELSE s
Jumped(code, s, l) ==
  IF LabelPos(code, l) = 0 THEN Stop(s, "lost", 0) ELSE [s EXCEPT !.pc = LabelPos(code, l)]

Called(s, i, target, args, in) ==
  LET answer == in.answers[(Len(s.calls) % Len(in.answers)) + 1]
  IN  Put([s EXCEPT !.calls = Append(@, [callee |-> i.callee, target |-> target, args |-> args]),
                    !.mem = [o \in DOMAIN @ |-> IF o \in s.taken THEN answer ELSE @[o]]],
          i.dest, answer)

Executed(code, s, in) ==
  LET i == code[s.pc]
      l == Value(i.src1, s, in)
      r == Value(i.src2, s, in)
      next == [s EXCEPT !.pc = @ + 1]
  IN
  CASE \E v \in Reads(i) : s.regs[v] = Undefined -> Stop(s, "undefined", 0)
    [] i.op = "LABEL" -> next
    [] i.op \in {"IMM", "MOV"} -> Put(next, i.dest, l)
    [] i.op = "CAST" -> Put(next, i.dest, Narrowed(l, IntBits))
    [] i.op = "ADDR_STACK" -> Put([next EXCEPT !.taken = @ \cup {i.offset}], i.dest, i.offset)
    [] i.op = "LOAD_STACK" -> Put(next, i.dest, s.mem[i.offset])
    [] i.op = "STORE_STACK" -> [next EXCEPT !.mem[i.offset] = l]
    [] i.op = "LOAD" -> IF l \in s.taken THEN Put(next, i.dest, s.mem[l])
                        ELSE Stop(s, "undefined", 0)
    [] i.op = "STORE" -> IF s.regs[i.dest] \in s.taken
                         THEN [next EXCEPT !.mem[s.regs[i.dest]] = l]
                         ELSE Stop(s, "undefined", 0)
    [] i.op \in {"DIV", "MOD"} /\ r = 0 -> Stop(s, "undefined", 0)
    [] i.op \in Binary \cup Compare ->
         Put(next, i.dest, IF i.fp /\ i.op \notin IntegerOnly THEN Floating(i.op, l, r)
                           ELSE Integer(i.op, l, r))
    [] i.op = "JMP" -> Jumped(code, s, i.label)
    [] i.op = "JMP_IF_ZERO" -> IF l = 0 THEN Jumped(code, s, i.label) ELSE next
    [] i.op = "JMP_IF_NOT_ZERO" -> IF l # 0 THEN Jumped(code, s, i.label) ELSE next
    [] i.op = "CALL" -> Called(next, i, l, [k \in DOMAIN i.args |-> Value(i.args[k], s, in)], in)
    [] i.op = "RET" -> Stop(s, "returned", l)

(* At most so many steps, by halves.                                        *)
RECURSIVE Executing(_, _, _, _)
Executing(code, s, in, steps) ==
  IF s.end # "running" \/ steps = 0 THEN s
  ELSE IF steps = 1 THEN IF s.pc > Len(code) THEN Stop(s, "lost", 0) ELSE Executed(code, s, in)
  ELSE Executing(code, Executing(code, s, in, steps \div 2), in, steps - (steps \div 2))

Locals(code) == {code[k].offset : k \in DOMAIN code}
Run(f, in) ==
  LET s == Executing(f.code,
             [pc |-> 1, regs |-> [v \in 1..(f.vregs - 1) |-> Undefined],
              mem |-> [o \in Locals(f.code) |-> Undefined], taken |-> {},
              calls |-> << >>, end |-> "running", value |-> 0], in, StepBound)
  IN  IF s.end = "running" THEN [end |-> "endless", calls |-> << >>, value |-> 0]
      ELSE [end |-> s.end, calls |-> s.calls, value |-> s.value]
=============================================================================
