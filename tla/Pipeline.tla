------------------------------- MODULE Pipeline -------------------------------
(***************************************************************************)
(* The back end as the driver runs it on one function (src/driver.c): the   *)
(* optimizer rewrites the code until it is done with it, then registers are *)
(* allocated for what is left, and that is emitted and run.                 *)
(***************************************************************************)
EXTENDS WellFormedCode, OptimizerPasses, SequencesExt

CONSTANT Level    \* -O0, -O1, -O2

VARIABLE optimized    \* the optimizer is done with the function

RECURSIVE Optimized(_, _)
Optimized(code, iters) ==
  LET once == FoldLeft(LAMBDA c, pass : Rewritten(pass, c), code, Passes)
  IN  IF once = code \/ iters = 1 THEN once ELSE Optimized(once, iters - 1)

PipelineInit == MachineInit /\ optimized = FALSE

Optimize ==
  /\ ~optimized /\ optimized' = TRUE
  /\ fn' = IF Level = 0 THEN fn ELSE [fn EXCEPT !.code = Optimized(@, MaxIters(Level))]
  /\ UNCHANGED <<phase, at, changed, ranges, scan, frame, machine>>

AllocateAndRun == optimized /\ MachineNext /\ UNCHANGED optimized

PipelineNext == Optimize \/ AllocateAndRun

PipelineSpec == PipelineInit /\ [][PipelineNext]_<<allVars, optimized>>

-----------------------------------------------------------------------------
(* In optimized code, whose live ranges copy propagation has stretched over *)
(* calls and loops and whose blocks have been cut up, each instruction      *)
(* still finds in its operands' places what the code means them to hold,    *)
(* arguments and the value returned included, and none reads what the       *)
(* optimizer has removed the definition of; the text it hands on is as the  *)
(* allocator takes it to be (opt.c:287-310, 1304-1356; codegen_x86.c:6-64). *)
OptimizedCodeFindsItsValues ==
  optimized => /\ ReadsAreRight /\ DefinedBeforeUse /\ ArgumentsDelivered /\ ValueReturned
               /\ (phase = "ranges" /\ at = 1 => WellFormed(fn))
=============================================================================
