------------------------------- MODULE Lowering -------------------------------
(***************************************************************************)
(* Lowering of expressions, statements and functions to three-address code *)
(* (src/ir.c), for int and pointer locals.  A syntax node is a record whose *)
(* kind is the AST_ kind; a variable carries what its symbol says: its      *)
(* stack_offset and whether it is a pointer.                                *)
(*                                                                          *)
(* A lowering state s is the function under construction: its code, the     *)
(* next virtual register, the next label, the bytes of stack so far, and    *)
(* x, the operand lower_expr returned last.  The kind "none" is a NULL      *)
(* expression.                                                              *)
(***************************************************************************)
EXTENDS IR, SequencesExt

Emit(s, i) == [s EXCEPT !.code = Append(@, i)]

(* Emits i with a fresh destination and leaves that as the result.          *)
Define(s, i) ==
  [s EXCEPT !.code = Append(@, [i EXCEPT !.dest = s.vregs]),
            !.vregs = @ + 1, !.x = V(s.vregs)]

(* cast_operand to int: always an IR_CAST, int being narrower than a word;  *)
(* to a pointer: nothing.                                                   *)
CastTo(s, isPtr) == IF isPtr THEN s ELSE Define(s, Cast(0, s.x))

(* user_label: named after the source's label, so apart from the counter's. *)
UserLabel(n) == -n

(* n labels from the module's counter.                                      *)
GenLabels(s, n) == [s EXCEPT !.labels = @ + n]

RECURSIVE LowerExpr(_, _), LowerTwo(_, _, _), LowerLogical(_, _), LowerConditional(_, _),
          LowerBinary(_, _), LowerDouble(_, _), LowerUnary(_, _), LowerAssign(_, _), LowerArgs(_, _, _, _),
          LowerCall(_, _)

LowerTwo(a, b, s) ==
  LET l == LowerExpr(a, s)
      r == LowerExpr(b, l)
  IN  [st |-> r, left |-> l.x, right |-> r.x]

(* &&: the result register is handed out before the operands are lowered,   *)
(* and has two definitions, one on each way out.  || is its mirror image.   *)
\* Mutant: the way out that does not short-circuit sets no result.
LowerLogicalOneWay(e, s) ==
  LET isAnd == e.kind = "land"
      Test(x, l) == IF isAnd THEN JmpIfZero(x, l) ELSE JmpIfNotZero(x, l)
      one == LowerExpr(e.left, [GenLabels(s, 2) EXCEPT !.vregs = @ + 1])
      two == LowerExpr(e.right, Emit(one, Test(one.x, s.labels)))
  IN  [two EXCEPT
        !.code = @ \o << Test(two.x, s.labels), Jmp(s.labels + 1),
                         Label(s.labels), Imm(s.vregs, IF isAnd THEN 0 ELSE 1),
                         Label(s.labels + 1) >>,
        !.x = V(s.vregs)]
LowerLogical(e, s) ==
  LET isAnd == e.kind = "land"
      short == s.labels
      done == s.labels + 1
      res == s.vregs
      Test(x, l) == IF isAnd THEN JmpIfZero(x, l) ELSE JmpIfNotZero(x, l)
      one == LowerExpr(e.left, [GenLabels(s, 2) EXCEPT !.vregs = @ + 1])
      two == LowerExpr(e.right, Emit(one, Test(one.x, short)))
  IN  [two EXCEPT
        !.code = @ \o << Test(two.x, short),
                         Imm(res, IF isAnd THEN 1 ELSE 0), Jmp(done),
                         Label(short), Imm(res, IF isAnd THEN 0 ELSE 1),
                         Label(done) >>,
        !.x = V(res)]

(* ?: goes through a stack slot of its own.                                 *)
LowerConditional(e, s) ==
  LET other == s.labels
      done == s.labels + 1
      slot == -(s.stack + 8)
      cond == LowerExpr(e.cond, [GenLabels(s, 2) EXCEPT !.stack = @ + 8])
      yes == LowerExpr(e.then, Emit(cond, JmpIfZero(cond.x, other)))
      no == LowerExpr(e.else, [yes EXCEPT
              !.code = @ \o << StoreStack(slot, yes.x), Jmp(done), Label(other) >>])
  IN  Define([no EXCEPT !.code = @ \o << StoreStack(slot, no.x), Label(done) >>],
             LoadStack(0, slot))

(* a - (-b) is an addition; -(-a) and ~~a vanish.                           *)
IsNegation(e) == e.kind = "neg"
LowerBinary(e, s) ==
  LET plus == e.op = "SUB" /\ IsNegation(e.right)
      two == LowerTwo(e.left, IF plus THEN e.right.operand ELSE e.right, s)
  IN  Define(two.st, Arith(IF plus THEN "ADD" ELSE e.op, 0, two.left, two.right))

(* The same operators on two doubles.                                       *)
LowerDouble(e, s) ==
  LET two == LowerTwo(e.left, e.right, s)
  IN  Define(two.st, FpArith(e.op, 0, two.left, two.right))

LowerUnary(e, s) ==
  IF e.kind \in {"neg", "compl"} /\ e.operand.kind = e.kind
  THEN LowerExpr(e.operand.operand, s)
  ELSE LET o == LowerExpr(e.operand, s) IN
       Define(o, CASE e.kind = "neg" -> Arith("SUB", 0, K(0), o.x)
                   [] e.kind = "compl" -> Arith("XOR", 0, o.x, K(-1))
                   [] e.kind = "not" -> Arith("CMP_EQ", 0, o.x, K(0)))

(* ++ and -- on a local: neither the loaded nor the stored value is cast.   *)
LowerIncrement(e, s) ==
  LET old == Define(s, LoadStack(0, e.var.slot))
      new == Define(old, Arith(IF e.delta > 0 THEN "ADD" ELSE "SUB", 0, old.x, K(1)))
  IN  [Emit(new, StoreStack(e.var.slot, new.x)) EXCEPT
        !.x = IF e.prefix THEN new.x ELSE old.x]

(* The value is lowered first; a compound assignment then loads the target  *)
(* and combines the two; the store comes last.                              *)
LowerAssign(e, s) ==
  LET isPtr == e.target.kind = "var" /\ e.target.isPtr
      value == CastTo(LowerExpr(e.value, s), isPtr)
      cur == LowerExpr(e.target, value)
      new == IF e.op = "" THEN value
             ELSE CastTo(Define(cur, Arith(e.op, 0, cur.x, value.x)), isPtr)
  IN  IF e.target.kind = "var"
      THEN Emit(new, StoreStack(e.target.slot, new.x))
      ELSE LET ptr == LowerExpr(e.target.operand, new) IN
           [Emit(ptr, Store(ptr.x.vreg, new.x)) EXCEPT !.x = new.x]

(* The arguments left to right, each cast to int when the callee is a       *)
(* function with a prototype, and as they come through a pointer.           *)
LowerArgs(as, s, uncast, done) ==
  IF as = << >> THEN [st |-> s, args |-> done]
  ELSE LET a == CastTo(LowerExpr(Head(as), s), uncast)
       IN  LowerArgs(Tail(as), a, uncast, Append(done, a.x))

LowerCall(e, s) ==
  LET as == LowerArgs(e.args, s, e.kind = "callptr", << >>)
      res == as.st.vregs
      open == [as.st EXCEPT !.vregs = @ + 1]
      target == LowerExpr(e.callee, open)
  IN  IF e.kind = "call"
      THEN [Emit(open, Call(res, e.name, as.args)) EXCEPT !.x = V(res)]
      ELSE [Emit(target, CallIndirect(res, target.x, as.args)) EXCEPT !.x = V(res)]

LowerExpr(e, s) ==
  CASE e.kind = "none" -> [s EXCEPT !.x = K(0)]
    [] e.kind = "int" -> Define(s, Imm(0, e.value))
    [] e.kind = "var" -> CastTo(Define(s, LoadStack(0, e.slot)), e.isPtr)
    [] e.kind = "addr" -> Define(s, AddrStack(0, e.var.slot))
    [] e.kind = "deref" -> LET p == LowerExpr(e.operand, s) IN Define(p, Load(0, p.x))
    [] e.kind = "cond" -> LowerConditional(e, s)
    [] e.kind = "comma" -> LowerExpr(e.right, LowerExpr(e.left, s))
    [] e.kind \in {"land", "lor"} -> LowerLogical(e, s)
    [] e.kind = "bin" -> LowerBinary(e, s)
    [] e.kind = "fbin" -> LowerDouble(e, s)
    [] e.kind \in {"neg", "compl", "not"} -> LowerUnary(e, s)
    [] e.kind = "inc" -> LowerIncrement(e, s)
    [] e.kind = "assign" -> LowerAssign(e, s)
    [] e.kind \in {"call", "callptr"} -> LowerCall(e, s)

-----------------------------------------------------------------------------
(***************************************************************************)
(* lower_stmt.  brk and cont are break_lbl and cont_lbl, 0 for NULL.        *)
(***************************************************************************)
RECURSIVE LowerStmt(_, _, _, _), LowerStmts(_, _, _, _), LowerIf(_, _, _, _),
          LowerWhile(_, _), LowerDoWhile(_, _), LowerFor(_, _, _, _), LowerTests(_, _, _, _),
          LowerCases(_, _, _, _, _), LowerSwitch(_, _, _)

LowerStmts(ts, s, brk, cont) ==
  IF ts = << >> THEN s
  ELSE LowerStmts(Tail(ts), LowerStmt(Head(ts), s, brk, cont), brk, cont)

LowerIf(t, s, brk, cont) ==
  LET other == s.labels
      done == IF t.else = << >> THEN s.labels ELSE s.labels + 1
      cond == LowerExpr(t.cond, GenLabels(s, done - s.labels + 1))
      then == LowerStmts(t.then, Emit(cond, JmpIfZero(cond.x, other)), brk, cont)
      else == LowerStmts(t.else,
                [then EXCEPT !.code = @ \o << Jmp(done), Label(other) >>], brk, cont)
  IN  Emit(IF t.else = << >> THEN then ELSE else, Label(done))

LowerWhile(t, s) ==
  LET top == s.labels
      done == s.labels + 1
      cond == LowerExpr(t.cond, Emit(GenLabels(s, 2), Label(top)))
      body == LowerStmts(t.body, Emit(cond, JmpIfZero(cond.x, done)), done, top)
  IN  [body EXCEPT !.code = @ \o << Jmp(top), Label(done) >>]

LowerDoWhile(t, s) ==
  LET top == s.labels
      test == s.labels + 1
      done == s.labels + 2
      body == LowerStmts(t.body, Emit(GenLabels(s, 3), Label(top)), done, test)
      cond == LowerExpr(t.cond, Emit(body, Label(test)))
  IN  [cond EXCEPT !.code = @ \o << JmpIfNotZero(cond.x, top), Label(done) >>]

(* init, then the test, the body, the step: continue goes to the step.      *)
LowerFor(t, s, brk, cont) ==
  LET top == s.labels
      step == s.labels + 1
      done == s.labels + 2
      init == LowerStmts(t.init, GenLabels(s, 3), brk, cont)
      cond == LowerExpr(t.cond, Emit(init, Label(top)))
      open == IF t.cond.kind = "none" THEN cond ELSE Emit(cond, JmpIfZero(cond.x, done))
      body == LowerStmts(t.body, open, done, step)
      next == LowerExpr(t.step, Emit(body, Label(step)))
  IN  [next EXCEPT !.code = @ \o << Jmp(top), Label(done) >>]

(* The tests in order, each against the value evaluated once, labels given  *)
(* out as the cases are met; then the bodies, falling through; a case       *)
(* without a value is the default.                                          *)
LowerTests(cs, s, value, ls) ==
  IF cs = << >> THEN [st |-> s, ls |-> ls]
  ELSE LET l == s.labels
           open == GenLabels(s, 1)
           k == LowerExpr([kind |-> "int", value |-> Head(cs).value], open)
           eq == Define(k, Arith("CMP_EQ", 0, value, k.x))
       IN  LowerTests(Tail(cs),
             IF Head(cs).default THEN open ELSE Emit(eq, JmpIfNotZero(eq.x, l)),
             value, Append(ls, l))

LowerCases(cs, ls, s, done, cont) ==
  IF cs = << >> THEN s
  ELSE LowerCases(Tail(cs), Tail(ls),
         LowerStmts(Head(cs).body, Emit(s, Label(Head(ls))), done, cont), done, cont)

LowerSwitch(t, s, cont) ==
  LET done == s.labels
      value == LowerExpr(t.expr, GenLabels(s, 1))
      tests == LowerTests(t.cases, value, value.x, << >>)
      defaults == {k \in DOMAIN t.cases : t.cases[k].default}
      last == IF defaults = {} THEN done
              ELSE tests.ls[CHOOSE k \in defaults : \A j \in defaults : j <= k]
  IN  Emit(LowerCases(t.cases, tests.ls, Emit(tests.st, Jmp(last)), done, cont), Label(done))

LowerStmt(t, s, brk, cont) ==
  CASE t.kind = "expr" -> LowerExpr(t.expr, s)
    [] t.kind = "decl" -> LET v == CastTo(LowerExpr(t.value, s), t.var.isPtr)
                          IN  Emit(v, StoreStack(t.var.slot, v.x))
    [] t.kind = "block" -> LowerStmts(t.body, s, brk, cont)
    [] t.kind = "if" -> LowerIf(t, s, brk, cont)
    [] t.kind = "while" -> LowerWhile(t, s)
    [] t.kind = "dowhile" -> LowerDoWhile(t, s)
    [] t.kind = "for" -> LowerFor(t, s, brk, cont)
    [] t.kind = "switch" -> LowerSwitch(t, s, cont)
    [] t.kind = "return" -> LET v == LowerExpr(t.expr, s) IN Emit(v, Ret(v.x))
    [] t.kind = "break" -> IF brk = 0 THEN s ELSE Emit(s, Jmp(brk))
    [] t.kind = "continue" -> IF cont = 0 THEN s ELSE Emit(s, Jmp(cont))
    [] t.kind = "goto" -> Emit(s, Jmp(UserLabel(t.name)))
    [] t.kind = "label" -> Emit(s, Label(UserLabel(t.name)))

(***************************************************************************)
(* lower_function: the parameters go from the argument registers to their   *)
(* slots, the seventh and later from the caller's stack; the body; and a    *)
(* return 0 unless the last instruction returns.                            *)
(***************************************************************************)
Receive(k, slot) ==
  StoreStack(slot, IF k <= 6 THEN ArgRegister(k - 1) ELSE ArgStack(16 + 8 * (k - 7)))

Entry(f) == [code |-> [k \in 1..Len(f.params) |-> Receive(k, f.params[k])],
             vregs |-> 1, labels |-> 1, stack |-> f.stack, x |-> K(0)]
Finish(s) == [code |-> IF s.code # << >> /\ Last(s.code).op = "RET" THEN s.code
                       ELSE Append(s.code, Ret(K(0))),
              vregs |-> s.vregs, stack |-> s.stack]
LowerFunction(f) == Finish(LowerStmts(f.body, Entry(f), 0, 0))
=============================================================================
