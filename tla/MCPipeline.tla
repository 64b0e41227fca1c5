------------------------------ MODULE MCPipeline ------------------------------
(***************************************************************************)
(* Pipeline on functions in which every pass finds something to do, with    *)
(* so few registers that optimized code runs out of them.                   *)
(***************************************************************************)
EXTENDS Pipeline, MCAllocatedCode, Execution

p == P!p
Optimizable ==
  { << Set(Add(a, G(<<a, P!Lit(4)>>))), Set(Add(x, P!Bin("MUL", x, P!Lit(4)))), P!Return(Add(x, b)) >>,
    << P!While(P!Less(x, b), << Set(Add(x, G(<<x>>))), P!If(P!Lit(0), << P!Break >>, << >>) >>), P!Return(x) >>,
    << P!Expr(P!Assign(p, P!Addr(x))), P!Expr(P!Assign(P!Deref(P!Addr(a)), b)),
       P!Return(Add(x, P!CallPtr(p, <<Add(x, a)>>))) >> }
Pipelined == MachineFunctions \cup Lowered(Optimizable)
=============================================================================
