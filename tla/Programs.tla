------------------------------- MODULE Programs -------------------------------
(***************************************************************************)
(* Small functions, as the syntax trees the parser and the semantic         *)
(* analysis hand to lowering, and the building blocks to write them with.   *)
(* Parameters a and b and locals x and p live where sema_analyze places     *)
(* them: eight bytes each, downwards from rbp.                              *)
(***************************************************************************)
EXTENDS Lowering, FiniteSets

Lit(k) == [kind |-> "int", value |-> k]
None == [kind |-> "none"]
Var(slot) == [kind |-> "var", slot |-> slot, isPtr |-> FALSE]
a == Var(-8)
b == Var(-16)
x == Var(-24)
p == [kind |-> "var", slot |-> -32, isPtr |-> TRUE]

Bin(op, l, r) == [kind |-> "bin", op |-> op, left |-> l, right |-> r]
FBin(op, l, r) == [kind |-> "fbin", op |-> op, left |-> l, right |-> r]
Add(l, r) == Bin("ADD", l, r)
Sub(l, r) == Bin("SUB", l, r)
Less(l, r) == Bin("CMP_LT", l, r)
Land(l, r) == [kind |-> "land", left |-> l, right |-> r]
Lor(l, r) == [kind |-> "lor", left |-> l, right |-> r]
Cond(c, t, e) == [kind |-> "cond", cond |-> c, then |-> t, else |-> e]
Comma(l, r) == [kind |-> "comma", left |-> l, right |-> r]
Neg(o) == [kind |-> "neg", operand |-> o]
Compl(o) == [kind |-> "compl", operand |-> o]
Not(o) == [kind |-> "not", operand |-> o]
Addr(v) == [kind |-> "addr", var |-> v]
Deref(o) == [kind |-> "deref", operand |-> o]
Inc(v, delta, prefix) == [kind |-> "inc", var |-> v, delta |-> delta, prefix |-> prefix]
Assign(t, v) == [kind |-> "assign", target |-> t, op |-> "", value |-> v]
AssignOp(t, op, v) == [kind |-> "assign", target |-> t, op |-> op, value |-> v]
CallTo(f, as) == [kind |-> "call", name |-> f, args |-> as]
CallPtr(q, as) == [kind |-> "callptr", callee |-> q, args |-> as]

Expr(e) == [kind |-> "expr", expr |-> e]
Decl(v, e) == [kind |-> "decl", var |-> v, value |-> e]
Block(ts) == [kind |-> "block", body |-> ts]
If(c, t, e) == [kind |-> "if", cond |-> c, then |-> t, else |-> e]
While(c, t) == [kind |-> "while", cond |-> c, body |-> t]
DoWhile(t, c) == [kind |-> "dowhile", cond |-> c, body |-> t]
For(i, c, s, t) == [kind |-> "for", init |-> i, cond |-> c, step |-> s, body |-> t]
Case(k, t) == [default |-> FALSE, value |-> k, body |-> t]
Default(t) == [default |-> TRUE, value |-> 0, body |-> t]
Switch(e, cs) == [kind |-> "switch", expr |-> e, cases |-> cs]
Return(e) == [kind |-> "return", expr |-> e]
Break == [kind |-> "break"]
Continue == [kind |-> "continue"]
Goto(n) == [kind |-> "goto", name |-> n]
LabelAt(n) == [kind |-> "label", name |-> n]

(* int f(int a, int b) { int x = a; body }                                  *)
Function(body) ==
  [params |-> << -8, -16 >>, stack |-> 32, body |-> << Decl(x, a) >> \o body]
=============================================================================
