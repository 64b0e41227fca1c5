---------------------------------- MODULE IR ----------------------------------
(***************************************************************************)
(* The three-address code that lowering produces, the optimizer rewrites    *)
(* and the back end allocates and emits (include/ir.h).  A function is a    *)
(* record [code, vregs, stack]: the instruction list, the virtual registers *)
(* handed out so far and the bytes of stack the locals take.                *)
(*                                                                          *)
(* A position in the code is an index of the sequence, so the source's      *)
(* instruction index i is position i + 1 and its "-1" is position 0.        *)
(***************************************************************************)
EXTENDS Integers, Sequences

Binary == {"ADD", "SUB", "MUL", "DIV", "MOD", "AND", "OR", "XOR", "SHL", "SHR"}
Compare == {"CMP_EQ", "CMP_NE", "CMP_LT", "CMP_LE", "CMP_GT", "CMP_GE"}
Jump == {"JMP", "JMP_IF_ZERO", "JMP_IF_NOT_ZERO"}
Op == Binary \cup Compare \cup Jump \cup
      {"LABEL", "IMM", "MOV", "CAST", "LOAD", "STORE", "LOAD_STACK",
       "STORE_STACK", "ADDR_STACK", "CALL", "RET"}

(***************************************************************************)
(* An operand is a virtual register, or an immediate when vreg is 0, or an  *)
(* incoming argument (by register, -1, or on the stack, -2) whose place is  *)
(* the immediate.                                                           *)
(***************************************************************************)
V(v) == [vreg |-> v, imm |-> 0]
K(k) == [vreg |-> 0, imm |-> k]
ArgRegister(k) == [vreg |-> -1, imm |-> k]
ArgStack(o) == [vreg |-> -2, imm |-> o]

(***************************************************************************)
(* make_inst: every field zero but the operation.  A label is the number    *)
(* gen_label appends to its prefix, unique in the module; 0 is none.  fp    *)
(* says that the operands are doubles, known by their bits.                 *)
(***************************************************************************)
Inst(op) == [op |-> op, dest |-> 0, src1 |-> K(0), src2 |-> K(0),
             offset |-> 0, label |-> 0, callee |-> "", args |-> << >>, fp |-> FALSE]

Label(l) == [Inst("LABEL") EXCEPT !.label = l]
Jmp(l) == [Inst("JMP") EXCEPT !.label = l]
JmpIfZero(c, l) == [Inst("JMP_IF_ZERO") EXCEPT !.src1 = c, !.label = l]
JmpIfNotZero(c, l) == [Inst("JMP_IF_NOT_ZERO") EXCEPT !.src1 = c, !.label = l]
Imm(d, k) == [Inst("IMM") EXCEPT !.dest = d, !.src1 = K(k)]
Mov(d, s) == [Inst("MOV") EXCEPT !.dest = d, !.src1 = s]
Cast(d, s) == [Inst("CAST") EXCEPT !.dest = d, !.src1 = s]
LoadStack(d, o) == [Inst("LOAD_STACK") EXCEPT !.dest = d, !.offset = o]
StoreStack(o, s) == [Inst("STORE_STACK") EXCEPT !.src1 = s, !.offset = o]
AddrStack(d, o) == [Inst("ADDR_STACK") EXCEPT !.dest = d, !.offset = o]
Load(d, p) == [Inst("LOAD") EXCEPT !.dest = d, !.src1 = p]
Store(p, s) == [Inst("STORE") EXCEPT !.dest = p, !.src1 = s]
Arith(op, d, a, b) == [Inst(op) EXCEPT !.dest = d, !.src1 = a, !.src2 = b]
FpArith(op, d, a, b) == [Arith(op, d, a, b) EXCEPT !.fp = TRUE]
Call(d, f, as) == [Inst("CALL") EXCEPT !.dest = d, !.callee = f, !.args = as]
CallIndirect(d, p, as) == [Inst("CALL") EXCEPT !.dest = d, !.src1 = p, !.args = as]
Ret(s) == [Inst("RET") EXCEPT !.src1 = s]

(***************************************************************************)
(* What an instruction reads and writes.  The dest of a STORE is the        *)
(* pointer it writes through: read, not written.                            *)
(***************************************************************************)
Operands(i) == {i.src1.vreg, i.src2.vreg} \cup
               (IF i.op = "CALL" THEN {i.args[k].vreg : k \in DOMAIN i.args} ELSE {})
Mentions(i) == Operands(i) \cup {i.dest}
Positive(S) == {v \in S : v > 0}
Reads(i) == Positive(Operands(i) \cup (IF i.op = "STORE" THEN {i.dest} ELSE {}))
Writes(i) == Positive(IF i.op = "STORE" THEN {} ELSE {i.dest})

(***************************************************************************)
(* find_label_pos: the position of the first such label, 0 when there is    *)
(* none.                                                                    *)
(***************************************************************************)
IsLabel(i, l) == i.op = "LABEL" /\ i.label = l
LabelPos(code, l) ==
  IF \E i \in DOMAIN code : IsLabel(code[i], l)
  THEN CHOOSE i \in DOMAIN code :
         /\ IsLabel(code[i], l)
         /\ \A j \in DOMAIN code : IsLabel(code[j], l) => i <= j
  ELSE 0

(***************************************************************************)
(* A jump at position j whose target is earlier in the text: a loop.        *)
(***************************************************************************)
BackwardJump(code, j) ==
  /\ code[j].op \in Jump
  /\ LabelPos(code, code[j].label) \in 1..(j - 1)

(***************************************************************************)
(* By the text of a function alone: where a register is mentioned, which    *)
(* jumps loop, and the stretches of it that hold all the mentions and that  *)
(* no loop they run into sticks out of.                                     *)
(***************************************************************************)
MentionsOf(f, v) == {i \in 1..Len(f.code) : v \in Mentions(f.code[i])}
Loops(f) == {<<LabelPos(f.code, f.code[j].label), j>> :
               j \in {i \in 1..Len(f.code) : BackwardJump(f.code, i)}}
Covers(mentions, loops, first, last) ==
  /\ mentions \subseteq first..last
  /\ \A l \in loops : first <= l[2] /\ l[1] <= last => l[2] <= last
=============================================================================
