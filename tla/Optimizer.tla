------------------------------ MODULE Optimizer ------------------------------
(***************************************************************************)
(* opt_run_pipeline on one function (src/opt.c): the nine passes in order,  *)
(* again and again until none of them changes anything or the iterations of *)
(* the level are used up.  A pass answers that it changed something exactly *)
(* where it rewrites or removes an instruction, so changed is whether the   *)
(* code differs.                                                            *)
(***************************************************************************)
EXTENDS OptimizerPasses

CONSTANTS
  Outcome(_, _),  \* what a function does on an input (see Execution)
  Sources,        \* the functions to optimize, as lowering leaves them
  Inputs,         \* the arguments and answers they are run with
  Level           \* -O0, -O1, -O2

ASSUME LevelAssumption == Level \in 0..2

(* What lowering hands on: operands are registers of the function, or an    *)
(* argument's place that is stored; what computes nothing sets nothing; no  *)
(* label is there twice; a jump's label is there and the function ends in a *)
(* return (ir.c:70-74, 1694-1699).  A goto to a label the function does not *)
(* have, or has twice, is left out: nothing looks for it before the         *)
(* assembler does (sema.c:2602-2606).                                       *)
OperandOf(o, low, vregs) ==
  o = [vreg |-> o.vreg, imm |-> o.imm] /\ o.vreg \in low..(vregs - 1)
InstructionOf(i, vregs) ==
  LET low == IF i.op = "STORE_STACK" THEN -2 ELSE 0
  IN  /\ i = [op |-> i.op, dest |-> i.dest, src1 |-> i.src1, src2 |-> i.src2, offset |-> i.offset,
              label |-> i.label, callee |-> i.callee, args |-> i.args, fp |-> i.fp]
      /\ i.dest \in 0..(vregs - 1)
      /\ i.op \in Jump \cup {"LABEL", "RET", "STORE_STACK"} => i.dest = 0
      /\ OperandOf(i.src1, low, vregs) /\ OperandOf(i.src2, low, vregs)
      /\ i.op \in {"LABEL", "IMM"} => i.src1.vreg = 0 /\ i.src2.vreg = 0
      /\ \A k \in DOMAIN i.args : OperandOf(i.args[k], low, vregs)
CodeOf(code, vregs) ==
  /\ Len(code) \in Nat \ {0} /\ code = [k \in 1..Len(code) |-> code[k]]
  /\ \A k \in DOMAIN code : InstructionOf(code[k], vregs)
  /\ \A j, k \in DOMAIN code : code[j].op = "LABEL" /\ IsLabel(code[k], code[j].label) => j = k
  /\ \A k \in DOMAIN code : Successors(code, k) \subseteq DOMAIN code

(* Where a path that does not set a register leads, and that nothing reads  *)
(* the register there.                                                      *)
MayBeUnset(code, v) == Reached({e \in Edges(code) : v \notin Writes(code[e[1]])}, Len(code))
NothingUnsetIsRead(code) ==
  \A v \in UNION {Reads(code[k]) : k \in DOMAIN code} :
    \A k \in MayBeUnset(code, v) : v \notin Reads(code[k])
(* A register is set twice only by the constants && and || leave in it      *)
(* (ir.c:448-514).                                                          *)
SetOnce(code) ==
  \A j, k \in DOMAIN code : Writes(code[j]) \cap Writes(code[k]) # {} => j = k \/ code[j].op = "IMM"

Emittable(f) ==
  /\ {"code", "vregs"} \subseteq DOMAIN f
  /\ f.vregs \in Nat \ {0}
  /\ CodeOf(f.code, f.vregs) /\ NothingUnsetIsRead(f.code) /\ SetOnce(f.code)

ASSUME SourcesAssumption == \A f \in Sources : Emittable(f)

VARIABLES
  fn,          \* the function, rewritten in place
  stage,       \* the pass to run next, "again" at the end of an iteration, "done"
  iter,        \* the iterations finished
  changed,     \* whether a pass of this iteration changed something
  meaning      \* what the function did on each input before the first pass

optVars == <<fn, stage, iter, changed, meaning>>

-----------------------------------------------------------------------------
(***************************************************************************)
(* opt_run_pipeline, for one function.                                      *)
(***************************************************************************)
OptInit ==
  /\ fn \in Sources
  /\ stage = IF Level = 0 THEN "done" ELSE "forward"
  /\ iter = 0 /\ changed = FALSE
  /\ meaning = [in \in Inputs |-> Outcome(fn, in)]

Pass(this, next) ==
  LET code == Rewritten(this, fn.code) IN
  /\ stage = this /\ stage' = next
  /\ fn' = [fn EXCEPT !.code = code]
  /\ changed' = (changed \/ code # fn.code)
  /\ UNCHANGED <<iter, meaning>>

ForwardStores == Pass("forward", "dead stores")
RemoveDeadStores == Pass("dead stores", "constants")
PropagateConstants == Pass("constants", "copies")
PropagateCopies == Pass("copies", "algebra")
SimplifyAlgebra == Pass("algebra", "flow")
OptimizeFlow == Pass("flow", "simplify")
SimplifyFlow == Pass("simplify", "unreachable")
RemoveUnreachable == Pass("unreachable", "dead code")
RemoveDeadCode == Pass("dead code", "again")

NextIteration ==
  /\ stage = "again" /\ changed /\ iter + 1 < MaxIters(Level)
  /\ stage' = "forward" /\ iter' = iter + 1 /\ changed' = FALSE
  /\ UNCHANGED <<fn, meaning>>
LastIteration ==
  /\ stage = "again" /\ (~changed \/ iter + 1 = MaxIters(Level))
  /\ stage' = "done" /\ iter' = iter + 1
  /\ UNCHANGED <<fn, changed, meaning>>

OptNext ==
  \/ ForwardStores \/ RemoveDeadStores \/ PropagateConstants \/ PropagateCopies
  \/ SimplifyAlgebra \/ OptimizeFlow \/ SimplifyFlow \/ RemoveUnreachable
  \/ RemoveDeadCode \/ NextIteration \/ LastIteration

OptSpec == OptInit /\ [][OptNext]_optVars

-----------------------------------------------------------------------------
(* No pass changes what the function does, on any input on which what it    *)
(* does is defined: the same calls with the same arguments in the same      *)
(* order, and the same value returned (opt.c as a whole; its tables are     *)
(* stale after any store, call or label they fail to take notice of).       *)
Preserved ==
  \A in \in Inputs :
    meaning[in].end \in {"returned", "endless"} => Outcome(fn, in) = meaning[in]

(* Nor does any pass depend on those before it having been run: each is     *)
(* right on whatever code the others leave, also where forwarding has not   *)
(* left the table of constants nothing to do, and where that is full        *)
(* (opt.c:27, 89-182; opt.h exports the passes one by one).                 *)
PassesStandAlone ==
  \A pass \in {Passes[k] : k \in DOMAIN Passes} :
    LET after == [fn EXCEPT !.code = Rewritten(pass, @)]
    IN  \A in \in Inputs : meaning[in].end \in {"returned", "endless"} =>
      Outcome(after, in) = meaning[in]

(* What the back end takes for granted.  Every jump has one label to go to, *)
(* whatever was renamed, threaded, merged and removed: the assembler        *)
(* resolves labels by name.  Only a store to a local has an argument's      *)
(* place as its operand, any other negative register being read as an       *)
(* immediate.  And on no path does an instruction read a register nothing   *)
(* has set, whatever was forwarded, renamed and removed as dead             *)
(* (opt.c:287-310, 1063-1097, 1151-1169, 1283-1356; codegen_x86.c:20-41,    *)
(* 195-219).                                                                *)
CanBeEmitted ==
  /\ \A k \in DOMAIN fn.code : fn.code[k].op \in Jump =>
       Cardinality({j \in DOMAIN fn.code : IsLabel(fn.code[j], fn.code[k].label)}) = 1
  /\ \A k \in DOMAIN fn.code : LET i == fn.code[k] IN
       \A v \in Operands(i) : v \in (IF i.op = "STORE_STACK" THEN -2 ELSE 0)..(fn.vregs - 1)
  /\ NothingUnsetIsRead(fn.code)

(* No path runs off the end of the code into the epilogue without a value:  *)
(* a return that something still reaches is never removed                   *)
(* (opt.c:1172-1182, 1204-1213, 1283-1298).                                 *)
StaysInside ==
  \A k \in DOMAIN fn.code : Successors(fn.code, k) \subseteq DOMAIN fn.code

(* At -O2 the pipeline ends because nothing changes any more and not        *)
(* because its iterations are used up: no pass undoes another               *)
(* (opt.c:1366-1398).                                                       *)
Settles == stage = "done" /\ Level = 2 => ~changed

(* README.md:245: constant propagation and folding "evaluates compile-time  *)
(* arithmetic": what is evaluated is what the program would have computed.  *)
ArithmeticEvaluated == Preserved

(* The comment on the rewriting of products, "x * 2^k => x << k"            *)
(* (opt.c:718), as an equation on whatever x is.                            *)
ProductsAreShifts == Preserved
=============================================================================
