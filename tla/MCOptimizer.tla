----------------------------- MODULE MCOptimizer -----------------------------
(***************************************************************************)
(* Optimizer on functions that lowering produces, with a machine word of    *)
(* eight bits and an int of five, and inputs that take every branch.        *)
(***************************************************************************)
EXTENDS Optimizer, Execution

P == INSTANCE Programs

a == P!a
b == P!b
x == P!x
p == P!p
pa == [a EXCEPT !.isPtr = TRUE]
pb == [b EXCEPT !.isPtr = TRUE]
Lit(k) == P!Lit(k)
Add(l, r) == P!Add(l, r)
Mul(l, r) == P!Bin("MUL", l, r)
Set(e) == P!Expr(P!Assign(x, e))
SetTo(v, e) == P!Expr(P!Assign(v, e))
G(as) == P!CallTo("g", as)
Point == SetTo(p, P!Addr(x))

(* Expressions a rule or a table of some pass applies to: identities and    *)
(* constants, values used across calls, stores through a pointer and ways   *)
(* through && and ||, copies of copies.                                     *)
Exprs ==
  { Add(Mul(a, Lit(4)), Mul(Lit(-1), b)),
    Add(P!Bin("DIV", a, Lit(-1)), P!Bin("MOD", x, Lit(1))),
    P!Bin("XOR", P!Bin("AND", x, Lit(-1)), P!Bin("OR", b, Lit(0))),
    Add(Add(Lit(2), Lit(3)), Mul(Lit(0), G(<<a>>))),
    P!Comma(P!Assign(x, Lit(7)), Add(x, G(<<x, x>>))),
    P!Comma(Point.expr, P!Comma(P!Assign(P!Deref(p), b), Add(x, G(<<p>>)))),
    Add(x, P!Land(b, P!Assign(x, P!Less(a, b)))),
    Add(P!Inc(x, 1, FALSE), P!Lor(P!Not(x), P!Less(x, a))),
    P!Cond(P!Land(Lit(1), b), P!Assign(b, x), P!Neg(P!Assign(x, b))) }

Bodies(e) ==
  { << Set(e), Set(Add(x, e)), P!Return(x) >>,
    << P!While(P!Less(a, Lit(2)), << Set(e), SetTo(a, Add(a, Lit(1))), P!If(x, << P!Continue >>, << P!Break >>) >>),
       P!Return(x) >>,
    << P!For(<< >>, P!Less(a, Lit(1)), P!Inc(a, 1, TRUE), << P!If(b, << Set(e) >>, << P!Return(x) >>) >>),
       P!Return(e) >> }

(* Control flow: branches on constants, chains of jumps, loops that end at  *)
(* their test or never, code after a return.                                *)
Flows ==
  { << P!If(Lit(0), << P!Return(a) >>, << Set(Lit(3)) >>), P!While(Lit(0), << P!Return(b) >>), P!Return(x) >>,
    << P!If(a, << P!Goto(1) >>, << P!Goto(2) >>), P!LabelAt(1), P!Goto(2), P!LabelAt(2), P!Return(G(<<b>>)) >>,
    << P!DoWhile(<< SetTo(a, Add(a, Lit(1))), P!If(b, << P!Continue >>, << >>), Set(a) >>, P!Less(a, Lit(2))),
       P!Return(x), Set(b), P!Return(b) >>,
    << P!If(b, << P!While(Lit(1), << Set(a) >>) >>, << >>), P!Return(x) >>,
    << P!Switch(a, << P!Case(0, << Set(b) >>), P!Case(1, << Set(Lit(2)), P!Break >>), P!Default(<< P!Return(G(<<x>>)) >>) >>),
       P!Return(x) >>,
    << P!For(<< >>, P!None, P!None, << P!If(P!Less(Lit(2), a), << P!Break >>, << >>), SetTo(a, Add(a, Lit(2))) >>),
       P!Return(a) >>,
    << P!If(a, << P!Return(b) >>, << >>) >>,
    << SetTo(pa, Lit(0)), SetTo(p, Lit(0)), SetTo(pb, Lit(0)), SetTo(pa, P!Addr(x)),
       P!If(pb, << P!Return(a) >>, << >>), P!If(pa, << P!Return(x) >>, << >>), P!Return(Lit(1)) >>,
    << SetTo(p, P!Addr(pa)), SetTo(pa, Lit(0)), P!Expr(P!Assign(P!Deref(p), b)),
       P!If(pa, << P!Return(x) >>, << >>), P!Return(Lit(1)) >> }

Lowered(bodies) == {P!LowerFunction(P!Function(t)) : t \in bodies}
IntegerFunctions == Lowered(Flows \cup UNION {Bodies(e) : e \in Exprs})

SmallInputs ==
  { [args |-> << i, j >>, answers |-> << 3, 0 >>] : i \in {-1, 0, 2}, j \in {0, 1} }

(* 1.0 and 2.0 by their bits, in a local of eight bytes: a sum of two       *)
(* literals, and twice the first.                                           *)
OnePointZero == Lit(48)
TwoPointZero == Lit(64)
DoubleSum == Lowered({<< P!Decl(p, P!FBin("ADD", OnePointZero, TwoPointZero)), P!Return(p) >>})
DoubleTwice ==
  Lowered({<< P!Decl(p, OnePointZero), P!While(P!Less(a, Lit(1)), << SetTo(a, Lit(3)) >>),
              P!Return(P!FBin("MUL", p, TwoPointZero)) >>})
=============================================================================
