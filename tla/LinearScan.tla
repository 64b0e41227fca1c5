------------------------------ MODULE LinearScan ------------------------------
(***************************************************************************)
(* The register allocator (src/regalloc.c), one action per iteration of     *)
(* each of its loops: live ranges from one sweep over the text, extended    *)
(* over backward jumps until nothing changes, then the linear scan, then    *)
(* the frame slots for what it saves and what it spills.                    *)
(***************************************************************************)
EXTENDS IR, FiniteSets

CONSTANTS
  Functions,     \* the functions the allocator may be given
  CalleeSaved,   \* rbx, r12..r15, in the order the scan tries them
  CallerSaved,   \* r10, r11, in the order the scan tries them
  NoReg          \* PHYS_REG_NONE

Registers == {CalleeSaved[k] : k \in DOMAIN CalleeSaved} \cup
             {CallerSaved[k] : k \in DOMAIN CallerSaved}

Saveable == {CalleeSaved[k] : k \in DOMAIN CalleeSaved}

ASSUME FunctionsAssumption ==
  \A f \in Functions :
    /\ Len(f.code) \in Nat /\ DOMAIN f.code = 1..Len(f.code)
    /\ f.vregs \in Nat /\ f.stack \in Nat

ASSUME RegistersAssumption ==
  /\ CalleeSaved \in Seq(Registers) /\ CallerSaved \in Seq(Registers)
  /\ NoReg \notin Registers
  /\ \A j, k \in DOMAIN CalleeSaved : CalleeSaved[j] = CalleeSaved[k] => j = k
  /\ \A j \in DOMAIN CalleeSaved, k \in DOMAIN CallerSaved : CalleeSaved[j] # CallerSaved[k]

VARIABLES
  fn,         \* the function being allocated
  phase,      \* the pass under way
  at,         \* the index of that pass's loop
  changed,    \* loop_changed
  start,      \* first and last position of each live range, 0 when unset
  end,
  crosses,    \* crosses_call
  pending,    \* the intervals the scan has not reached yet
  active,     \* the intervals that hold a register
  inUse,      \* reg_in_use
  used,       \* used_regs
  assigned,   \* assigned_reg
  saveSlot,   \* callee_save_offsets
  spillSlot,  \* vreg_to_spill
  saves,      \* callee_saved_count
  spills      \* spill_idx

ranges == <<start, end, crosses>>
scan == <<pending, active, inUse, used, assigned>>
frame == <<saveSlot, spillSlot, saves, spills>>
vars == <<fn, phase, at, changed, ranges, scan, frame>>

Phases == {"ranges", "loops", "calls", "scan", "saves", "spills", "done"}
VRegs == 1..fn.vregs
Positions == 1..Len(fn.code)

(***************************************************************************)
(* codegen_function rounds the locals up to 16 bytes and lays the rest of   *)
(* the frame below them.                                                    *)
(***************************************************************************)
AlignUp16(n) == ((n + 15) \div 16) * 16
LocalStack(f) == AlignUp16(f.stack)

Valid(v) == start[v] > 0
Live == {v \in VRegs : Valid(v)}
Spilled(v) == Valid(v) /\ assigned[v] = NoReg

Init ==
  /\ fn \in Functions
  /\ phase = IF fn.code = << >> \/ fn.vregs = 0 THEN "done" ELSE "ranges"
  /\ at = 1 /\ changed = FALSE
  /\ start = [v \in VRegs |-> 0] /\ end = [v \in VRegs |-> 0]
  /\ crosses = [v \in VRegs |-> FALSE]
  /\ pending = {} /\ active = {} /\ inUse = {} /\ used = {}
  /\ assigned = [v \in VRegs |-> NoReg]
  /\ saveSlot = [r \in Registers |-> 0] /\ spillSlot = [v \in VRegs |-> 0]
  /\ saves = 0 /\ spills = 0

(***************************************************************************)
(* Pass 1.  update_vreg_range for every register the instruction mentions.  *)
(***************************************************************************)
ScanInstruction ==
  /\ phase = "ranges" /\ at \in Positions
  /\ LET here == Mentions(fn.code[at]) IN
     /\ start' = [v \in VRegs |-> IF v \in here /\ start[v] = 0 THEN at ELSE start[v]]
     /\ end' = [v \in VRegs |-> IF v \in here /\ end[v] < at THEN at ELSE end[v]]
  /\ at' = at + 1
  /\ UNCHANGED <<fn, phase, changed, crosses, scan, frame>>

RangesFound ==
  /\ phase = "ranges" /\ at \notin Positions
  /\ phase' = "loops" /\ at' = 1 /\ changed' = FALSE
  /\ UNCHANGED <<fn, ranges, scan, frame>>

(***************************************************************************)
(* Pass 2.  A range that meets the loop of a backward jump is stretched to  *)
(* the jump; the sweep over the jumps is repeated while one stretched.      *)
(***************************************************************************)
MeetsLoop(v, j) ==
  Valid(v) /\ start[v] <= j /\ end[v] >= LabelPos(fn.code, fn.code[j].label)
\* Mutant: only a range that is live into the loop is stretched.
StretchedIfLiveIn(v, j) ==
  /\ BackwardJump(fn.code, j) /\ MeetsLoop(v, j) /\ end[v] < j
  /\ start[v] < LabelPos(fn.code, fn.code[j].label)
Stretched(v, j) == BackwardJump(fn.code, j) /\ MeetsLoop(v, j) /\ end[v] < j

ExtendOverLoop ==
  /\ phase = "loops" /\ at \in Positions
  /\ end' = [v \in VRegs |-> IF Stretched(v, at) THEN at ELSE end[v]]
  /\ changed' = (changed \/ \E v \in VRegs : Stretched(v, at))
  /\ at' = at + 1
  /\ UNCHANGED <<fn, phase, start, crosses, scan, frame>>

\* Mutant: loop_changed is not reset for the next sweep.
SweepAgainStale ==
  /\ phase = "loops" /\ at \notin Positions /\ changed
  /\ at' = 1
  /\ UNCHANGED <<fn, phase, changed, ranges, scan, frame>>
SweepAgain ==
  /\ phase = "loops" /\ at \notin Positions /\ changed
  /\ at' = 1 /\ changed' = FALSE
  /\ UNCHANGED <<fn, phase, ranges, scan, frame>>

LoopsSettled ==
  /\ phase = "loops" /\ at \notin Positions /\ ~changed
  /\ phase' = "calls"
  /\ UNCHANGED <<fn, at, changed, ranges, scan, frame>>

(***************************************************************************)
(* Pass 3.  Calls at either endpoint count.  Then the valid intervals are   *)
(* collected for the scan.                                                  *)
(***************************************************************************)
\* Mutant: a call at an endpoint does not count.
SpansCallStrictly(v) ==
  Valid(v) /\ \E i \in Positions : start[v] < i /\ i < end[v] /\ fn.code[i].op = "CALL"
SpansCall(v) ==
  Valid(v) /\ \E i \in Positions : start[v] <= i /\ i <= end[v] /\ fn.code[i].op = "CALL"

MarkCalls ==
  /\ phase = "calls"
  /\ crosses' = [v \in VRegs |-> SpansCall(v)]
  /\ pending' = Live
  /\ phase' = "scan"
  /\ UNCHANGED <<fn, at, changed, start, end, active, inUse, used, assigned, frame>>

(***************************************************************************)
(* Pass 4.  qsort orders the intervals by start and leaves ties in any      *)
(* order, so the scan takes any pending interval that starts first.         *)
(***************************************************************************)
StartsFirst(v) == v \in pending /\ \A w \in pending : start[v] <= start[w]

\* Mutant: a range that ends where the next starts is over.
KeptStrictly(v) == {a \in active : a.end > start[v]}
Kept(v) == {a \in active : a.end >= start[v]}
\* Mutant: an expired range leaves its register marked.
InUseForever(v) == inUse
InUseAfterExpiry(v) == inUse \ {a.reg : a \in active \ Kept(v)}

\* Mutant: a range over a call falls back on the caller-saved registers.
PreferenceWithFallback(v) ==
  IF crosses[v] THEN CalleeSaved \o CallerSaved ELSE CallerSaved \o CalleeSaved
Preference(v) == IF crosses[v] THEN CalleeSaved ELSE CallerSaved \o CalleeSaved
FirstFree(v, r) ==
  \E k \in DOMAIN Preference(v) :
    /\ r = Preference(v)[k] /\ r \notin InUseAfterExpiry(v)
    /\ \A j \in 1..(k - 1) : Preference(v)[j] \in InUseAfterExpiry(v)

\* Mutant: the expired entries give their registers back and stay on the list.
AssignRegisterUnpruned(v, r) ==
  /\ phase = "scan" /\ StartsFirst(v) /\ FirstFree(v, r)
  /\ assigned' = [assigned EXCEPT ![v] = r]
  /\ inUse' = InUseAfterExpiry(v) \cup {r}
  /\ used' = used \cup {r}
  /\ active' = active \cup {[vreg |-> v, reg |-> r, end |-> end[v]]}
  /\ pending' = pending \ {v}
  /\ UNCHANGED <<fn, phase, at, changed, ranges, frame>>

AssignRegister(v, r) ==
  /\ phase = "scan" /\ StartsFirst(v) /\ FirstFree(v, r)
  /\ assigned' = [assigned EXCEPT ![v] = r]
  /\ inUse' = InUseAfterExpiry(v) \cup {r}
  /\ used' = used \cup {r}
  /\ active' = Kept(v) \cup {[vreg |-> v, reg |-> r, end |-> end[v]]}
  /\ pending' = pending \ {v}
  /\ UNCHANGED <<fn, phase, at, changed, ranges, frame>>

Spill(v) ==
  /\ phase = "scan" /\ StartsFirst(v) /\ ~ \E r \in Registers : FirstFree(v, r)
  /\ inUse' = InUseAfterExpiry(v)
  /\ active' = Kept(v)
  /\ pending' = pending \ {v}
  /\ UNCHANGED <<fn, phase, at, changed, ranges, used, assigned, frame>>

ScanFinished ==
  /\ phase = "scan" /\ pending = {}
  /\ phase' = "saves" /\ at' = 1
  /\ UNCHANGED <<fn, changed, ranges, scan, frame>>

(***************************************************************************)
(* The frame: a slot for every callee-saved register the scan used, then    *)
(* one for every spilled register, eight bytes each.                        *)
(***************************************************************************)
\* Mutant: the first slot is the last local's.
PlaceSaveTooHigh ==
  /\ phase = "saves" /\ at \in DOMAIN CalleeSaved
  /\ LET r == CalleeSaved[at] IN
     IF r \in used
     THEN /\ saves' = saves + 1
          /\ saveSlot' = [saveSlot EXCEPT ![r] = -(LocalStack(fn) + 8 * saves)]
     ELSE UNCHANGED <<saves, saveSlot>>
  /\ at' = at + 1
  /\ UNCHANGED <<fn, phase, changed, ranges, scan, spillSlot, spills>>

PlaceSave ==
  /\ phase = "saves" /\ at \in DOMAIN CalleeSaved
  /\ LET r == CalleeSaved[at] IN
     IF r \in used
     THEN /\ saves' = saves + 1
          /\ saveSlot' = [saveSlot EXCEPT ![r] = -(LocalStack(fn) + 8 * (saves + 1))]
     ELSE UNCHANGED <<saves, saveSlot>>
  /\ at' = at + 1
  /\ UNCHANGED <<fn, phase, changed, ranges, scan, spillSlot, spills>>

SavesPlaced ==
  /\ phase = "saves" /\ at \notin DOMAIN CalleeSaved
  /\ phase' = "spills" /\ at' = 1
  /\ UNCHANGED <<fn, changed, ranges, scan, frame>>

\* Mutant: the spill slots start where the save slots do.
PlaceSpillOverSaves ==
  /\ phase = "spills" /\ at \in VRegs
  /\ IF Spilled(at)
     THEN /\ spills' = spills + 1
          /\ spillSlot' = [spillSlot EXCEPT ![at] = -(LocalStack(fn) + 8 * (spills + 1))]
     ELSE UNCHANGED <<spills, spillSlot>>
  /\ at' = at + 1
  /\ UNCHANGED <<fn, phase, changed, ranges, scan, saveSlot, saves>>

PlaceSpill ==
  /\ phase = "spills" /\ at \in VRegs
  /\ IF Spilled(at)
     THEN /\ spills' = spills + 1
          /\ spillSlot' = [spillSlot EXCEPT ![at] =
                             -(LocalStack(fn) + 8 * saves + 8 * (spills + 1))]
     ELSE UNCHANGED <<spills, spillSlot>>
  /\ at' = at + 1
  /\ UNCHANGED <<fn, phase, changed, ranges, scan, saveSlot, saves>>

SpillsPlaced ==
  /\ phase = "spills" /\ at \notin VRegs
  /\ phase' = "done"
  /\ UNCHANGED <<fn, at, changed, ranges, scan, frame>>

Next ==
  \/ ScanInstruction \/ RangesFound
  \/ ExtendOverLoop \/ SweepAgain \/ LoopsSettled
  \/ MarkCalls
  \/ \E v \in VRegs, r \in Registers : AssignRegister(v, r)
  \/ \E v \in VRegs : Spill(v)
  \/ ScanFinished
  \/ PlaceSave \/ SavesPlaced \/ PlaceSpill \/ SpillsPlaced

Spec == Init /\ [][Next]_vars
FairSpec == Spec /\ WF_vars(Next)

(***************************************************************************)
(* total_stack of codegen_function: what the prologue subtracts from rsp.   *)
(***************************************************************************)
FrameSize ==
  LET total == AlignUp16(LocalStack(fn) + 8 * saves + 8 * spills)
  IN  IF total < 32 THEN 32 ELSE total

-----------------------------------------------------------------------------
(* Every variable keeps its type through all of regalloc_run.               *)
TypeOK ==
  /\ phase \in Phases /\ at \in Nat /\ changed \in BOOLEAN
  /\ start \in [VRegs -> Nat] /\ end \in [VRegs -> Nat] /\ crosses \in [VRegs -> BOOLEAN]
  /\ pending \subseteq VRegs
  /\ active \subseteq [vreg : VRegs, reg : Registers, end : Nat]
  /\ inUse \subseteq Registers /\ used \subseteq Registers
  /\ assigned \in [VRegs -> Registers \cup {NoReg}]
  /\ saveSlot \in [Registers -> Int] /\ spillSlot \in [VRegs -> Int]
  /\ saves \in Nat /\ spills \in Nat

Overlap(v, w) == start[v] <= end[w] /\ start[w] <= end[v]

(* Two live ranges that overlap never hold the same register, however the   *)
(* scan expired, reused and ordered the intervals (regalloc.c:233-286).     *)
NoInterference ==
  \A v, w \in VRegs :
    v # w /\ assigned[v] # NoReg /\ assigned[v] = assigned[w] => ~Overlap(v, w)

(* The scan keeps at most one active interval per register, so the          *)
(* PHYS_REG_COUNT entries of the active array are enough (regalloc.c:226).  *)
ActiveFits == Cardinality(active) <= Len(CalleeSaved) + Len(CallerSaved)

(* A range that meets a call, at an endpoint or inside, is never left in a  *)
(* register the callee may overwrite (regalloc.c:249-256).                  *)
CallSafe ==
  phase \in {"saves", "spills", "done"} =>
    \A v \in VRegs :
      SpansCall(v) /\ assigned[v] # NoReg =>
        assigned[v] \in Saveable

(* Once the sweep over the jumps settles, no range that meets a loop ends   *)
(* before the jump that closes it (regalloc.c:165-189).                     *)
LoopsCovered ==
  phase \in {"calls", "scan", "saves", "spills", "done"} =>
    \A j \in Positions : BackwardJump(fn.code, j) =>
      \A v \in VRegs : MeetsLoop(v, j) => end[v] >= j

(* The save slots and the spill slots lie inside the frame, below the       *)
(* locals, and no two of them share a byte (regalloc.c:295-312).            *)
SavedRegs == Saveable \cap used
Slots ==
  {<<"save", r, saveSlot[r]>> : r \in SavedRegs} \cup
  {<<"spill", v, spillSlot[v]>> : v \in {w \in VRegs : Spilled(w)}}
FrameSound ==
  phase = "done" =>
    /\ \A s \in Slots : s[3] + 8 <= -fn.stack /\ s[3] >= -FrameSize
    /\ \A s, t \in Slots : s # t => s[3] + 8 <= t[3] \/ t[3] + 8 <= s[3]

(* Every register the scan handed out is one the prologue knows of          *)
(* (regalloc.c:277).                                                        *)
UsedIsTracked == \A v \in VRegs : assigned[v] # NoReg => assigned[v] \in used

(* No range is spilled while a register it may take stands free: the scan   *)
(* gives a register back as soon as the range that held it is over.         *)
SpillOnlyWhenFull ==
  [][\A v \in VRegs : Spill(v) =>
       \A k \in DOMAIN Preference(v) :
         \E w \in VRegs : assigned[w] = Preference(v)[k] /\ Overlap(v, w)]_vars

(***************************************************************************)
(* The result handed to codegen_function, and what it promises.             *)
(***************************************************************************)
Result == [reg |-> assigned, slot |-> spillSlot, save |-> saveSlot, size |-> FrameSize]
Promise == INSTANCE RegisterAllocation WITH
             allocation <- IF phase = "done" THEN {Result} ELSE {}

(* Every run of the allocator ends in an allocation that is sound for the   *)
(* text of the function, or has not produced one yet.                       *)
Implements == Promise!Spec

(* The allocator always finishes: the loop extension reaches its fixpoint.  *)
Terminates == <>(phase = "done")
=============================================================================
