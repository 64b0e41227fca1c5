----------------------------- MODULE AllocatedCode -----------------------------
(***************************************************************************)
(* The machine code codegen_function emits for an allocated function, run   *)
(* one three-address instruction at a time beside the instruction's own     *)
(* meaning (src/codegen_x86.c).  A value is known by the instruction that   *)
(* produced it, so a branch may go either way; LinearScan allocates first.  *)
(***************************************************************************)
EXTENDS LinearScan

VARIABLES
  stage,    \* "allocate", "run", "passing" (arguments), "calling", "returned"
  pc,       \* the position of the instruction to run
  lap,      \* told apart: a value of this turn of a loop and one of the last
  value,    \* what each virtual register holds, by the meaning of the code
  locals,   \* what each local holds, by the meaning of the code
  passed,   \* how many arguments of the call are where the callee expects them
  regs,     \* the machine's registers
  memory    \* the machine's stack, by offset from rbp

machine == <<stage, pc, lap, value, locals, passed, regs, memory>>
allVars == <<vars, machine>>

ArgRegs == << "rdi", "rsi", "rdx", "rcx", "r8", "r9" >>    \* k_arg_regs_64
Rax == "rax"
Target == "r11"    \* what an indirect call jumps through
Clobbered == {ArgRegs[k] : k \in DOMAIN ArgRegs} \cup {CallerSaved[k] : k \in DOMAIN CallerSaved}
             \cup {Rax, Target}

(* The registers that are handed out are neither those of arguments nor rax, *)
(* and a callee keeps none that a call may overwrite (regalloc.c:3-14).     *)
ASSUME MachineRegistersAssumption ==
  /\ Registers \cap ({ArgRegs[k] : k \in DOMAIN ArgRegs} \cup {Rax}) = {}
  /\ Saveable \cap Clobbered = {}

Tag(kind, n, l) == [kind |-> kind, n |-> n, lap |-> l]
Unset == Tag("unset", 0, 0)
Torn == Tag("torn", 0, 0)              \* eight bytes written over in part
Caller(r) == Tag("caller", r, 0)       \* what the caller kept in register r
Incoming(k) == Tag("argument", k, 0)
Constant(k) == Tag("constant", k, 0)
Produced(i) == Tag("produced", i, lap)

InstAt(i) == fn.code[i]
Here == fn.code[pc]
IsLocal(i) == i.op \in {"LOAD_STACK", "STORE_STACK"}
LocalOffsets == {InstAt(i).offset : i \in {k \in Positions : IsLocal(InstAt(k))}}

(***************************************************************************)
(* get_operand_reg and get_operand_offset: where a virtual register lives.  *)
(***************************************************************************)
InRegister(v) == assigned[v] # NoReg
SlotOf(v) == IF spillSlot[v] # 0 THEN spillSlot[v] ELSE -(LocalStack(fn) + 8 * v)

(* Where a call's arguments beyond those in registers are stored: from the  *)
(* top of the stack up, once rsp is down by their size, a multiple of 16.   *)
OnStack(i) == {k \in DOMAIN InstAt(i).args : k \notin DOMAIN ArgRegs}
ArgumentSpace(i) == AlignUp16(8 * (Len(InstAt(i).args) - Len(ArgRegs)))
ArgumentSlot(i, k) == 8 * (k - Len(ArgRegs) - 1) - FrameSize - ArgumentSpace(i)

Offsets == LocalOffsets \cup {saveSlot[r] : r \in SavedRegs}
           \cup {SlotOf(v) : v \in {w \in VRegs : ~InRegister(w)}}
           \cup UNION {{ArgumentSlot(i, k) : k \in OnStack(i)} : i \in Positions}

(***************************************************************************)
(* Every access to the frame moves eight bytes.                             *)
(***************************************************************************)
Written(m, o, t) ==
  [p \in DOMAIN m |-> IF p = o THEN t ELSE IF o - 8 < p /\ p < o + 8 THEN Torn ELSE m[p]]

\* emit_operand_to_reg: what loading the operand gives; Meaning: what it should.
\* Mutant: a spilled register is read at the place of one without a slot.
LoadedUnspilled(op) ==
  IF op.vreg <= 0 THEN Constant(op.imm)
  ELSE IF InRegister(op.vreg) THEN regs[assigned[op.vreg]]
  ELSE IF -(LocalStack(fn) + 8 * op.vreg) \in Offsets
  THEN memory[-(LocalStack(fn) + 8 * op.vreg)] ELSE Torn
Loaded(op) == IF op.vreg <= 0 THEN Constant(op.imm)
              ELSE IF InRegister(op.vreg) THEN regs[assigned[op.vreg]]
              ELSE memory[SlotOf(op.vreg)]
Meaning(op) == IF op.vreg <= 0 THEN Constant(op.imm) ELSE value[op.vreg]

\* emit_store_from_reg.
Stored(v, t) ==
  /\ regs' = IF v > 0 /\ InRegister(v) THEN [regs EXCEPT ![assigned[v]] = t] ELSE regs
  /\ memory' = IF v > 0 /\ ~InRegister(v) THEN Written(memory, SlotOf(v), t) ELSE memory

(***************************************************************************)
(* A comparison whose one use is the branch after it becomes a flag test,   *)
(* and its result is never stored.                                          *)
(***************************************************************************)
Uses(v) ==
  {<<i, 1>> : i \in {k \in Positions : InstAt(k).src1.vreg = v}} \cup
  {<<i, 2>> : i \in {k \in Positions : InstAt(k).src2.vreg = v}} \cup
  {<<i, 3>> : i \in {k \in Positions : InstAt(k).op = "STORE" /\ InstAt(k).dest = v}} \cup
  UNION {{<<i, 3 + k>> : k \in {n \in DOMAIN InstAt(i).args : InstAt(i).args[n].vreg = v}} :
           i \in Positions}
Fused(i) ==
  /\ InstAt(i).op \in Compare /\ InstAt(i).dest > 0 /\ i < Len(fn.code)
  /\ InstAt(i + 1).op \in {"JMP_IF_ZERO", "JMP_IF_NOT_ZERO"}
  /\ InstAt(i + 1).src1.vreg = InstAt(i).dest
  /\ \E only \in Uses(InstAt(i).dest) : Uses(InstAt(i).dest) = {only}

MachineInit ==
  /\ Init
  /\ stage = "allocate" /\ pc = 1 /\ lap = 0 /\ passed = 0
  /\ value = [v \in VRegs |-> Unset] /\ locals = << >> /\ regs = << >> /\ memory = << >>

Allocate == stage = "allocate" /\ Next /\ UNCHANGED machine

(***************************************************************************)
(* The prologue: the frame, and the callee-saved registers in their slots.  *)
(***************************************************************************)
(* What is in the frame then: where saves overlap the last one stays whole. *)
SavedFrame ==
  [p \in Offsets |->
     LET reaching == {k \in DOMAIN CalleeSaved :
                        /\ CalleeSaved[k] \in used
                        /\ saveSlot[CalleeSaved[k]] - 8 < p /\ p < saveSlot[CalleeSaved[k]] + 8}
         last == CHOOSE k \in reaching : \A j \in reaching : j <= k
     IN  IF reaching = {} THEN Unset
         ELSE IF saveSlot[CalleeSaved[last]] = p THEN Caller(CalleeSaved[last]) ELSE Torn]

Prologue ==
  /\ stage = "allocate" /\ phase = "done"
  /\ stage' = "run"
  /\ locals' = [o \in LocalOffsets |-> Unset]
  /\ regs' = [r \in Saveable \cup Clobbered |->
                IF r \in Saveable THEN Caller(r)
                ELSE IF \E k \in DOMAIN ArgRegs : ArgRegs[k] = r
                THEN Incoming(CHOOSE k \in DOMAIN ArgRegs : ArgRegs[k] = r)
                ELSE Unset]
  /\ memory' = SavedFrame
  /\ UNCHANGED <<vars, pc, lap, value, passed>>

Running(ops) == stage = "run" /\ Here.op \in ops

(***************************************************************************)
(* Everything that computes a value from operands and locals.               *)
(***************************************************************************)
Computes == Binary \cup Compare \cup {"IMM", "MOV", "CAST", "LOAD", "LOAD_STACK", "ADDR_STACK"}
Compute ==
  /\ Running(Computes) /\ ~Fused(pc)
  /\ value' = [value EXCEPT ![Here.dest] = Produced(pc)]
  /\ Stored(Here.dest, Produced(pc))
  /\ pc' = pc + 1
  /\ UNCHANGED <<vars, stage, lap, locals, passed>>

\* A store through a pointer reaches a local or memory outside the frame.
NoEffect ==
  /\ Running({"LABEL", "STORE"})
  /\ pc' = pc + 1
  /\ UNCHANGED <<vars, stage, lap, value, locals, passed, regs, memory>>

StoreLocal ==
  /\ Running({"STORE_STACK"})
  /\ LET k == Here.src1.imm + 1
         fromRegister == Here.src1.vreg = -1
         fromStack == Here.src1.vreg = -2
     IN /\ locals' = [locals EXCEPT ![Here.offset] =
                        IF fromRegister \/ fromStack THEN Incoming(k) ELSE Produced(pc)]
        /\ memory' = Written(memory, Here.offset,
                       IF fromRegister THEN regs[ArgRegs[k]]
                       ELSE IF fromStack THEN Incoming(k) ELSE Produced(pc))
  /\ pc' = pc + 1
  /\ UNCHANGED <<vars, stage, lap, value, passed, regs>>

(***************************************************************************)
(* Jumps.  lap flips when one goes back, so that a value left over from the *)
(* turn before is not taken for this turn's.                                *)
(***************************************************************************)
GoTo(l) ==
  LET to == LabelPos(fn.code, l)
  IN  pc' = to /\ lap' = IF to < pc THEN 1 - lap ELSE lap

Branch ==
  /\ Running(Jump)
  /\ \/ GoTo(Here.label)
     \/ Here.op # "JMP" /\ pc' = pc + 1 /\ UNCHANGED lap
  /\ UNCHANGED <<vars, stage, value, locals, passed, regs, memory>>

CompareAndBranch ==
  /\ Running(Compare) /\ Fused(pc)
  /\ value' = [value EXCEPT ![Here.dest] = Produced(pc)]
  /\ \/ GoTo(InstAt(pc + 1).label)
     \/ pc' = pc + 2 /\ UNCHANGED lap
  /\ UNCHANGED <<vars, stage, locals, passed, regs, memory>>

(***************************************************************************)
(* A call: its arguments one after the other, six in registers and the rest *)
(* by way of rax onto the stack, then the target of an indirect call in r11 *)
(* and the number of xmm arguments in al.  The callee keeps only what it    *)
(* must.                                                                    *)
(***************************************************************************)
BeginCall ==
  /\ Running({"CALL"})
  /\ stage' = "passing" /\ passed' = 0
  /\ UNCHANGED <<vars, pc, lap, value, locals, regs, memory>>

\* Mutant: what goes to the stack goes there by way of the last argument register.
PassArgumentThrough ==
  /\ stage = "passing" /\ passed < Len(Here.args)
  /\ LET k == passed + 1
         through == ArgRegs[IF k \in DOMAIN ArgRegs THEN k ELSE Len(ArgRegs)]
     IN  /\ regs' = [regs EXCEPT ![through] = Loaded(Here.args[k])]
         /\ memory' = IF k \in DOMAIN ArgRegs THEN memory
                      ELSE Written(memory, ArgumentSlot(pc, k), Loaded(Here.args[k]))
  /\ passed' = passed + 1
  /\ UNCHANGED <<vars, stage, pc, lap, value, locals>>
PassArgument ==
  /\ stage = "passing" /\ passed < Len(Here.args)
  /\ LET k == passed + 1
         through == IF k \in DOMAIN ArgRegs THEN ArgRegs[k] ELSE Rax
     IN  /\ regs' = [regs EXCEPT ![through] = Loaded(Here.args[k])]
         /\ memory' = IF k \in DOMAIN ArgRegs THEN memory
                      ELSE Written(memory, ArgumentSlot(pc, k), Loaded(Here.args[k]))
  /\ passed' = passed + 1
  /\ UNCHANGED <<vars, stage, pc, lap, value, locals>>

EnterCallee ==
  /\ stage = "passing" /\ passed = Len(Here.args)
  /\ regs' = [r \in DOMAIN regs |-> IF r = Rax THEN Torn
                                    ELSE IF r = Target /\ Here.callee = "" THEN Loaded(Here.src1)
                                    ELSE regs[r]]
  /\ stage' = "calling"
  /\ UNCHANGED <<vars, pc, lap, value, locals, passed, memory>>

ReturnFromCall ==
  /\ stage = "calling"
  /\ value' = IF Here.dest > 0 THEN [value EXCEPT ![Here.dest] = Produced(pc)] ELSE value
  /\ LET after == [r \in DOMAIN regs |-> IF r = Rax THEN Produced(pc)
                                         ELSE IF r \in Clobbered THEN Unset ELSE regs[r]]
     IN /\ regs' = IF Here.dest > 0 /\ InRegister(Here.dest)
                   THEN [after EXCEPT ![assigned[Here.dest]] = Produced(pc)] ELSE after
        /\ memory' = IF Here.dest > 0 /\ ~InRegister(Here.dest)
                     THEN Written(memory, SlotOf(Here.dest), Produced(pc)) ELSE memory
  /\ stage' = "run" /\ pc' = pc + 1
  /\ UNCHANGED <<vars, lap, locals, passed>>

(***************************************************************************)
(* IR_RET loads rax and jumps to the epilogue, where the callee-saved       *)
(* registers come back from their slots.                                    *)
(***************************************************************************)
Restored == [r \in DOMAIN regs |-> IF r \in SavedRegs THEN memory[saveSlot[r]] ELSE regs[r]]
\* Mutant: the value is loaded after the registers are restored.
ReturnValueLate ==
  /\ Running({"RET"})
  /\ regs' = [Restored EXCEPT ![Rax] =
       IF Here.src1.vreg > 0 /\ InRegister(Here.src1.vreg)
       THEN Restored[assigned[Here.src1.vreg]] ELSE Loaded(Here.src1)]
  /\ stage' = "returned"
  /\ UNCHANGED <<vars, pc, lap, value, locals, passed, memory>>
ReturnValue ==
  /\ Running({"RET"})
  /\ regs' = [Restored EXCEPT ![Rax] = Loaded(Here.src1)]
  /\ stage' = "returned"
  /\ UNCHANGED <<vars, pc, lap, value, locals, passed, memory>>

MachineNext ==
  \/ Allocate \/ Prologue
  \/ Compute \/ NoEffect \/ StoreLocal \/ Branch \/ CompareAndBranch
  \/ BeginCall \/ PassArgument \/ EnterCallee \/ ReturnFromCall \/ ReturnValue

MachineSpec == MachineInit /\ [][MachineNext]_allVars

-----------------------------------------------------------------------------
(* Whatever an instruction reads, the place the allocator gave it holds     *)
(* what the code means it to hold: neither another register's value, nor    *)
(* one a call overwrote, nor one of an earlier turn (codegen_x86.c:6-64).   *)
ReadsAreRight ==
  stage = "run" =>
    \A v \in Reads(Here) : Loaded(V(v)) = value[v]

(* On no path does an instruction read a register no instruction has set:   *)
(* both arms of every &&, || and ?: leave one (ir.c:419-514).               *)
DefinedBeforeUse ==
  stage = "run" => \A v \in Reads(Here) : value[v] # Unset

(* When the callee is entered its argument registers hold the first six     *)
(* arguments, the stack the others in order, and r11 the target: each was   *)
(* loaded while what it is loaded from was whole, and nothing loaded or     *)
(* stored after it has touched it (codegen_x86.c:479-512).                  *)
Passed(k) == IF k \in DOMAIN ArgRegs THEN regs[ArgRegs[k]] ELSE memory[ArgumentSlot(pc, k)]
ArgumentsDelivered ==
  stage = "calling" =>
    /\ \A k \in DOMAIN Here.args : Passed(k) = Meaning(Here.args[k])
    /\ Here.callee = "" => regs[Target] = Meaning(Here.src1)

(* Saves, spills and eight-byte stores never reach a local they are not     *)
(* meant for: each local holds what was last stored to it.                  *)
LocalsIntact == stage # "allocate" => \A o \in LocalOffsets : memory[o] = locals[o]

(* The caller gets its own registers back, whatever was saved, spilled and  *)
(* overwritten meanwhile (codegen_x86.c:113-118, 577-583).                  *)
CallerRestored == stage = "returned" => \A r \in Saveable : regs[r] = Caller(r)

(* The value returned survives the epilogue in rax.                         *)
ValueReturned ==
  stage = "returned" => regs[Rax] = Meaning(Here.src1)
=============================================================================
