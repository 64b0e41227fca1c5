---------------------------- MODULE MCAllocatedCode ----------------------------
(***************************************************************************)
(* AllocatedCode on the functions of MCLinearScan, with so few registers    *)
(* that callee-saved, scratch and spilled values meet in one function.      *)
(***************************************************************************)
EXTENDS AllocatedCode, MCLinearScan

(* Beside them: eight arguments passed and received, directly and through a *)
(* pointer, and no return at the end.                                       *)
EightParams == [params |-> [k \in 1..8 |-> -8 * k], stack |-> 64,
                body |-> << P!Return(Add(P!Var(-64), G(Eight))) >>]
NoReturn == P!Function(<< P!If(a, << P!Return(b) >>, << >>) >>)
EightThroughPointer == P!Function(<< P!Return(Add(a, P!CallPtr(P!p, Eight))) >>)
MachineFunctions ==
  SmallFunctions \cup {P!LowerFunction(f) : f \in {EightParams, EightThroughPointer, NoReturn}}

OneSaved == << "rbx" >>
=============================================================================
