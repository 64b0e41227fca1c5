----------------------------- MODULE MCLinearScan -----------------------------
(***************************************************************************)
(* LinearScan on functions that lowering produces, with few registers so    *)
(* that the scan runs out of them, and with all seven.                      *)
(***************************************************************************)
EXTENDS LinearScan, TLC

P == INSTANCE Programs

a == P!a
b == P!b
x == P!x
Add(l, r) == P!Add(l, r)
Set(e) == P!Expr(P!Assign(x, e))
G(as) == P!CallTo("g", as)

(* Expressions that keep several values alive: right-leaning sums, sums     *)
(* across a call, calls within calls, both ways through && and ||.          *)
Exprs ==
  { Add(a, Add(b, Add(x, a))),
    Add(Add(a, b), G(<<x, a>>)),
    G(<<a, G(<<b, x>>)>>),
    Add(a, P!Land(b, G(<<x, x>>))),
    P!Lor(P!Less(a, b), P!Not(x)),
    Add(a, P!Cond(b, x, G(<<a, b>>))),
    P!Inc(x, 1, TRUE),
    P!CallPtr(P!p, <<a, P!Neg(x)>>) }

(* The control flow around them: straight, in a loop with a way out, in     *)
(* nested loops, after a loop.                                              *)
Bodies(e, f) ==
  { << Set(e), P!Return(f) >>,
    << P!While(e, << Set(f), P!If(x, << P!Break >>, << P!Continue >>) >>), P!Return(x) >>,
    << P!For(<< >>, P!Less(x, b), P!Inc(x, 1, FALSE),
             << P!DoWhile(<< Set(e) >>, f) >>), P!Return(x) >>,
    << P!Switch(e, << P!Case(1, << Set(f) >>), P!Default(<< P!Break >>) >>), P!Return(x) >> }

Lowered(bodies) == {P!LowerFunction(P!Function(t)) : t \in bodies}
SmallFunctions == Lowered(UNION {Bodies(e, Add(b, e)) : e \in Exprs})

(* Seven values and more at once: a sum leaning right, a call with eight    *)
(* arguments, both inside a loop.  Beside them, calls across loops and       *)
(* across conditionals.                                                     *)
Chain[n \in 0..8] == IF n = 0 THEN a ELSE Add(b, Chain[n - 1])
Eight == [k \in 1..8 |-> IF k = 5 THEN Add(a, b) ELSE x]
LargeFunctions ==
  Lowered({ << P!Return(Chain[8]) >>,
            << P!Return(G(Eight)) >>,
            << P!While(Chain[3], << Set(G(Eight)), Set(Chain[4]) >>), P!Return(x) >> }
          \cup Bodies(Add(a, P!Cond(b, x, G(<<a, b>>))), G(<<a, b>>)))

AllFunctions == SmallFunctions \cup LargeFunctions

TwoSaved == << "rbx", "r12" >>
JustR10 == << "r10" >>
AllScratch == << "r10", "r11" >>
=============================================================================
