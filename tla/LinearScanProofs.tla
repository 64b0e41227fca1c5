--------------------------- MODULE LinearScanProofs ---------------------------
(***************************************************************************)
(* Proofs about the register allocator, for any functions and any register  *)
(* file that meets the assumptions of LinearScan.                           *)
(***************************************************************************)
EXTENDS LinearScan, FiniteSetTheorems, WellFoundedInduction, TLAPS

USE DEF Phases, VRegs, Positions, ranges, scan, frame

(***************************************************************************)
(* TYPES                                                                    *)
(***************************************************************************)
Typed == fn \in Functions /\ TypeOK

(* Locals are rounded up, never down (codegen_x86.c:85).                    *)
LEMMA AlignUp16Type ==
  ASSUME NEW n \in Nat
  PROVE  AlignUp16(n) \in Nat /\ AlignUp16(n) >= n
  BY DEF AlignUp16

(* The fields of a function are the numbers lowering leaves in it.          *)
LEMMA FunctionType ==
  ASSUME NEW f \in Functions
  PROVE  /\ f.vregs \in Nat /\ f.stack \in Nat /\ Len(f.code) \in Nat
         /\ LocalStack(f) \in Nat /\ LocalStack(f) >= f.stack
  BY FunctionsAssumption, AlignUp16Type DEF LocalStack

(* Every variable keeps its type through every pass of the allocator.       *)
THEOREM Typing == Spec => []Typed
<1>1. ASSUME Init PROVE Typed
  <2>1. fn \in Functions /\ fn.vregs \in Nat
    BY <1>1, FunctionType DEF Init
  <2>2. phase \in Phases
    BY <1>1 DEF Init
  <2>3. /\ start \in [VRegs -> Nat] /\ end \in [VRegs -> Nat] /\ crosses \in [VRegs -> BOOLEAN]
        /\ spillSlot \in [VRegs -> Int] /\ saveSlot \in [Registers -> Int]
        /\ assigned \in [VRegs -> Registers \cup {NoReg}]
    BY <1>1 DEF Init
  <2>4. /\ pending \subseteq VRegs /\ inUse \subseteq Registers /\ used \subseteq Registers
        /\ active \subseteq [vreg : VRegs, reg : Registers, end : Nat]
        /\ at \in Nat /\ changed \in BOOLEAN /\ saves \in Nat /\ spills \in Nat
    BY <1>1 DEF Init
  <2>5. QED
    BY <2>1, <2>2, <2>3, <2>4 DEF Typed, TypeOK
<1>2. Typed /\ [Next]_vars => Typed'
  <2> SUFFICES ASSUME Typed, [Next]_vars PROVE Typed'
    OBVIOUS
  <2>0. fn.vregs \in Nat /\ Len(fn.code) \in Nat /\ LocalStack(fn) \in Nat
    BY FunctionType DEF Typed
  <2>1. CASE ScanInstruction
    BY <2>0, <2>1 DEF ScanInstruction, Typed, TypeOK
  <2>2. CASE RangesFound
    BY <2>2 DEF RangesFound, Typed, TypeOK
  <2>3. CASE ExtendOverLoop
    BY <2>0, <2>3 DEF ExtendOverLoop, Typed, TypeOK
  <2>4. CASE SweepAgain
    BY <2>4 DEF SweepAgain, Typed, TypeOK
  <2>5. CASE LoopsSettled
    BY <2>5 DEF LoopsSettled, Typed, TypeOK
  <2>6. CASE MarkCalls
    BY <2>6 DEF MarkCalls, Live, SpansCall, Valid, Typed, TypeOK
  <2>7. ASSUME NEW v \in VRegs, NEW r \in Registers, AssignRegister(v, r) PROVE Typed'
    BY <2>7 DEF AssignRegister, Kept, InUseAfterExpiry, Typed, TypeOK
  <2>8. ASSUME NEW v \in VRegs, Spill(v) PROVE Typed'
    BY <2>8 DEF Spill, Kept, InUseAfterExpiry, Typed, TypeOK
  <2>9. CASE ScanFinished
    BY <2>9 DEF ScanFinished, Typed, TypeOK
  <2>10. CASE PlaceSave
    <3> DEFINE r == CalleeSaved[at]
               slot == -(LocalStack(fn) + 8 * (saves + 1))
    <3>1. slot \in Int /\ saves + 1 \in Nat /\ at + 1 \in Nat
      BY <2>0 DEF Typed, TypeOK
    <3>2. CASE r \in used
      <4>1. saves' = saves + 1 /\ saveSlot' = [saveSlot EXCEPT ![r] = slot]
        BY <2>10, <3>2 DEF PlaceSave
      <4> HIDE DEF slot, r
      <4>2. QED
        BY <4>1, <3>1, <2>10 DEF PlaceSave, Typed, TypeOK
    <3>3. CASE r \notin used
      BY <3>1, <3>3, <2>10 DEF PlaceSave, Typed, TypeOK
    <3>4. QED
      BY <3>2, <3>3
  <2>11. CASE SavesPlaced
    BY <2>11 DEF SavesPlaced, Typed, TypeOK
  <2>12. CASE PlaceSpill
    <3>1. /\ spills' \in Nat /\ at' \in Nat
          /\ spillSlot' \in [VRegs -> Int]
      <4> DEFINE slot == -(LocalStack(fn) + 8 * saves + 8 * (spills + 1))
      <4>1. slot \in Int
        BY <2>0 DEF Typed, TypeOK
      <4>2. CASE Spilled(at)
        <5>1. spills' = spills + 1 /\ spillSlot' = [spillSlot EXCEPT ![at] = slot]
          BY <2>12, <4>2 DEF PlaceSpill
        <5> HIDE DEF slot
        <5>2. QED
          BY <5>1, <4>1, <2>12 DEF PlaceSpill, Typed, TypeOK
      <4>3. CASE ~Spilled(at)
        BY <4>3, <2>12 DEF PlaceSpill, Typed, TypeOK
      <4>4. QED
        BY <4>2, <4>3
    <3>2. QED
      BY <2>12, <3>1 DEF PlaceSpill, Typed, TypeOK
  <2>13. CASE SpillsPlaced
    BY <2>13 DEF SpillsPlaced, Typed, TypeOK
  <2>14. CASE UNCHANGED vars
    BY <2>14 DEF vars, Typed, TypeOK
  <2>15. QED
    BY <2>1, <2>2, <2>3, <2>4, <2>5, <2>6, <2>7, <2>8, <2>9, <2>10, <2>11, <2>12,
       <2>13, <2>14 DEF Next
<1>3. QED
  BY <1>1, <1>2, PTL DEF Spec

-----------------------------------------------------------------------------
(***************************************************************************)
(* THE SCAN                                                                 *)
(*                                                                         *)
(* NoInterference and CallSafe speak of the registers handed out; what      *)
(* keeps them true is how the scan's own bookkeeping relates to the ranges. *)
(***************************************************************************)
BeforeScan == phase \in {"ranges", "loops", "calls"}
Entry(v) == [vreg |-> v, reg |-> assigned[v], end |-> end[v]]

\* Nothing is handed out before the scan, nor to a range it has not reached.
Untouched ==
  /\ BeforeScan => pending = {} /\ active = {}
  /\ \A v \in pending : start[v] > 0
  /\ \A v \in VRegs : BeforeScan \/ v \in pending \/ start[v] = 0 => assigned[v] = NoReg
\* The ranges are taken in order of their start.
InOrder == \A v \in VRegs, w \in pending : assigned[v] # NoReg => start[v] <= start[w]
\* An entry of the active list is the range that holds its register.
ActiveHolds == \A a \in active : a = Entry(a.vreg) /\ a.reg \in inUse /\ a.reg # NoReg
OneHolder == \A a, b \in active : a.reg = b.reg => a = b
\* A range with a register is on the list until every range to come starts
\* after its end.
ActiveOrOver ==
  \A v \in VRegs : assigned[v] # NoReg =>
    Entry(v) \in active \/ \A w \in pending : end[v] < start[w]
CrossersSaved ==
  /\ ~BeforeScan => \A v \in VRegs : SpansCall(v) => crosses[v]
  /\ \A v \in VRegs : crosses[v] /\ assigned[v] # NoReg => assigned[v] \in Saveable

ScanInv ==
  /\ Untouched /\ InOrder /\ ActiveHolds /\ OneHolder /\ ActiveOrOver
  /\ CrossersSaved /\ NoInterference /\ UsedIsTracked

\* A step that leaves the ranges and the scan alone, and does not enter the scan.
LEMMA ScanInvKept ==
  ASSUME ScanInv, UNCHANGED <<fn, ranges, scan>>, BeforeScan' = BeforeScan
  PROVE  ScanInv'
  BY Zenon DEF ScanInv, Untouched, InOrder, ActiveHolds, OneHolder, ActiveOrOver, CrossersSaved,
         NoInterference, UsedIsTracked, Entry, SpansCall, Valid, Overlap

\* Before the scan nothing is assigned, whatever happens to the ranges.
LEMMA ScanInvBefore ==
  ASSUME Typed, Typed', ScanInv, BeforeScan, BeforeScan', UNCHANGED <<fn, scan>>
  PROVE  ScanInv'
  BY DEF ScanInv, Untouched, InOrder, ActiveHolds, OneHolder, ActiveOrOver, CrossersSaved,
         NoInterference, UsedIsTracked

(* A register the preference order yields is free, and saved when a call    *)
(* needs it to be (regalloc.c:246-272).                                     *)
LEMMA FirstFreeIsFree ==
  ASSUME NEW v, NEW r \in Registers, FirstFree(v, r), Typed, v \in VRegs
  PROVE  /\ r \notin InUseAfterExpiry(v)
         /\ crosses[v] => r \in Saveable
         /\ r # NoReg
  BY RegistersAssumption DEF FirstFree, Preference, Saveable

\* An entry kept on the list keeps its register in use.
LEMMA KeptInUse ==
  ASSUME NEW v, NEW a \in Kept(v), ScanInv
  PROVE  a \in active /\ a.reg \in InUseAfterExpiry(v)
  BY DEF Kept, InUseAfterExpiry, ScanInv, ActiveHolds, OneHolder

\* An entry the expiry drops is over before the new range and all to come.
LEMMA DroppedIsOver ==
  ASSUME Typed, ScanInv, NEW v \in VRegs, StartsFirst(v),
         NEW w \in VRegs, assigned[w] # NoReg, Entry(w) \notin Kept(v)
  PROVE  \A u \in pending : end[w] < start[u]
<1>1. CASE Entry(w) \in active
  <2>1. ~(Entry(w).end >= start[v])
    BY <1>1 DEF Kept
  <2>2. Entry(w).end = end[w] /\ end[w] \in Nat /\ start[v] \in Nat
    BY DEF Entry, Typed, TypeOK
  <2>3. end[w] < start[v]
    BY <2>1, <2>2
  <2>4. QED
    BY <2>2, <2>3 DEF StartsFirst, Typed, TypeOK
<1>2. CASE Entry(w) \notin active
  BY <1>2 DEF ScanInv, ActiveOrOver
<1>3. QED
  BY <1>1, <1>2

(* Handing out a register keeps the list and the ranges in step             *)
(* (regalloc.c:233-282).                                                    *)
LEMMA AssignKeepsScanInv ==
  ASSUME Typed, ScanInv, NEW v \in VRegs, NEW r \in Registers, AssignRegister(v, r)
  PROVE  ScanInv'
<1>0. /\ phase = "scan" /\ StartsFirst(v) /\ v \in pending
      /\ r \notin InUseAfterExpiry(v) /\ (crosses[v] => r \in Saveable) /\ r # NoReg
  BY FirstFreeIsFree DEF AssignRegister, StartsFirst
<1>1. /\ UNCHANGED <<fn, phase, start, end, crosses>>
      /\ assigned' = [assigned EXCEPT ![v] = r] /\ assigned'[v] = r
      /\ \A w \in VRegs : w # v => assigned'[w] = assigned[w] /\ Entry(w)' = Entry(w)
      /\ inUse' = InUseAfterExpiry(v) \cup {r} /\ used' = used \cup {r}
      /\ active' = Kept(v) \cup {Entry(v)'} /\ pending' = pending \ {v}
      /\ \A w \in VRegs : start[w] \in Nat /\ end[w] \in Nat
  BY DEF AssignRegister, Entry, Typed, TypeOK
<1>2. assigned[v] = NoReg
  BY <1>0 DEF ScanInv, Untouched
<1>3. \A a \in Kept(v) : a.reg # r /\ a.vreg \in VRegs /\ a.vreg # v /\ a = Entry(a.vreg)
  <2> TAKE a \in Kept(v)
  <2>1. a \in active /\ a.reg \in InUseAfterExpiry(v)
    BY KeptInUse
  <2>2. a.vreg \in VRegs /\ a = Entry(a.vreg) /\ a.reg # NoReg
    BY <2>1 DEF ScanInv, ActiveHolds, Typed, TypeOK
  <2>3. a.reg = assigned[a.vreg]
    BY <2>2 DEF Entry
  <2>4. QED
    BY <2>1, <2>2, <2>3, <1>0, <1>2
<1>4. Untouched' /\ UsedIsTracked' /\ CrossersSaved'
  <2>1. Untouched'
    BY <1>0, <1>1 DEF ScanInv, Untouched, BeforeScan, StartsFirst, Typed, TypeOK
  <2>2. UsedIsTracked'
    BY <1>1 DEF ScanInv, UsedIsTracked
  <2>3. CrossersSaved'
    BY <1>0, <1>1 DEF ScanInv, CrossersSaved, BeforeScan, SpansCall, Valid
  <2>4. QED
    BY <2>1, <2>2, <2>3
<1>5. InOrder'
  BY <1>0, <1>1 DEF ScanInv, InOrder, StartsFirst
<1>6. ActiveHolds'
  <2>1. \A a \in Kept(v) : a = Entry(a.vreg)' /\ a.reg \in InUseAfterExpiry(v) /\ a.reg # NoReg
    BY <1>1, <1>3, KeptInUse DEF ScanInv, ActiveHolds
  <2>2. Entry(v)'.vreg = v /\ Entry(v)'.reg = r
    BY <1>1 DEF Entry
  <2>3. QED
    BY <1>0, <1>1, <2>1, <2>2 DEF ActiveHolds
<1>7. OneHolder'
  <2>1. Entry(v)'.reg = r
    BY <1>1 DEF Entry
  <2>2. QED
    BY <1>1, <1>3, <2>1, KeptInUse DEF ScanInv, OneHolder
<1>8. ActiveOrOver'
  <2> SUFFICES ASSUME NEW w \in VRegs, assigned'[w] # NoReg, Entry(w)' \notin active'
               PROVE  \A u \in pending' : end[w] < start[u]
    BY <1>1 DEF ActiveOrOver
  <2>1. w # v /\ assigned[w] # NoReg /\ Entry(w) \notin Kept(v)
    BY <1>1
  <2>2. QED
    BY <1>0, <1>1, <2>1, DroppedIsOver
<1>9. NoInterference'
  <2>1. \A w \in VRegs : w # v /\ assigned[w] = r => end[w] < start[v]
    <3> TAKE w \in VRegs
    <3> HAVE w # v /\ assigned[w] = r
    <3>1. Entry(w).reg = r
      BY DEF Entry
    <3>2. Entry(w) \notin Kept(v)
      BY <1>3, <3>1
    <3>3. QED
      BY <1>0, <3>2, DroppedIsOver
  <2>2. \A w \in VRegs : w # v /\ assigned[w] = r => ~Overlap(v, w) /\ ~Overlap(w, v)
    BY <1>1, <2>1 DEF Overlap
  <2>3. QED
    BY <1>1, <2>2 DEF ScanInv, NoInterference, Overlap
<1>10. QED
  BY <1>4, <1>5, <1>6, <1>7, <1>8, <1>9 DEF ScanInv

(* So does finding none (regalloc.c:283-286).                               *)
LEMMA SpillKeepsScanInv ==
  ASSUME Typed, ScanInv, NEW v \in VRegs, Spill(v)
  PROVE  ScanInv'
<1>1. /\ UNCHANGED <<fn, phase, start, end, crosses, assigned, used>>
      /\ inUse' = InUseAfterExpiry(v) /\ active' = Kept(v) /\ pending' = pending \ {v}
      /\ \A w \in VRegs : Entry(w)' = Entry(w)
      /\ phase = "scan" /\ StartsFirst(v)
  BY DEF Spill, Entry
<1>2. Untouched' /\ UsedIsTracked' /\ CrossersSaved' /\ InOrder' /\ NoInterference'
  <2>1. assigned[v] = NoReg
    BY <1>1 DEF StartsFirst, ScanInv, Untouched
  <2>2. Untouched'
    BY <1>1, <2>1 DEF ScanInv, Untouched, BeforeScan
  <2>3. UsedIsTracked' /\ CrossersSaved' /\ InOrder'
    BY <1>1 DEF ScanInv, UsedIsTracked, CrossersSaved, BeforeScan, SpansCall, Valid, InOrder
  <2>4. NoInterference'
    BY <1>1 DEF ScanInv, NoInterference, Overlap
  <2>5. QED
    BY <2>2, <2>3, <2>4
<1>3. ActiveHolds' /\ OneHolder'
  <2>1. \A a \in Kept(v) : a.vreg \in VRegs /\ a = Entry(a.vreg) /\ a.reg # NoReg
    BY KeptInUse DEF ScanInv, ActiveHolds, Typed, TypeOK
  <2>2. \A a \in Kept(v) : a.reg \in InUseAfterExpiry(v) /\ a \in active
    BY KeptInUse
  <2>3. ActiveHolds'
    BY <1>1, <2>1, <2>2 DEF ActiveHolds
  <2>4. OneHolder'
    BY <1>1, <2>2 DEF ScanInv, OneHolder
  <2>5. QED
    BY <2>3, <2>4
<1>4. ActiveOrOver'
  <2> SUFFICES ASSUME NEW w \in VRegs, assigned[w] # NoReg, Entry(w) \notin Kept(v)
               PROVE  \A u \in pending' : end[w] < start[u]
    BY <1>1 DEF ActiveOrOver
  <2>1. QED
    BY <1>1, DroppedIsOver
<1>5. QED
  BY <1>2, <1>3, <1>4 DEF ScanInv

(* The active list, the marks and the registers handed out agree at every   *)
(* step of the allocator.                                                   *)
THEOREM ScanInvariant == Spec => []ScanInv
<1>1. ASSUME Init, Typed PROVE ScanInv
  <2>1. /\ pending = {} /\ active = {} /\ \A v \in VRegs : assigned[v] = NoReg /\ ~crosses[v]
    BY <1>1 DEF Init
  <2>2. ~BeforeScan => \A v \in VRegs : ~SpansCall(v)
    <3>1. Init => \A v \in VRegs : start[v] = 0
      BY DEF Init
    <3>2. QED
      BY <1>1, <3>1 DEF SpansCall, Valid
  <2>3. QED
    BY <2>1, <2>2 DEF ScanInv, Untouched, InOrder, ActiveHolds, OneHolder, ActiveOrOver,
                      CrossersSaved, NoInterference, UsedIsTracked
<1>2. ASSUME Typed, Typed', ScanInv, [Next]_vars PROVE ScanInv'
  <2>1. CASE ScanInstruction
    BY <1>2, <2>1, ScanInvBefore DEF ScanInstruction, BeforeScan
  <2>2. CASE RangesFound
    BY <1>2, <2>2, ScanInvBefore DEF RangesFound, BeforeScan
  <2>3. CASE ExtendOverLoop
    BY <1>2, <2>3, ScanInvBefore DEF ExtendOverLoop, BeforeScan
  <2>4. CASE SweepAgain
    BY <1>2, <2>4, ScanInvBefore DEF SweepAgain, BeforeScan
  <2>5. CASE LoopsSettled
    BY <1>2, <2>5, ScanInvBefore DEF LoopsSettled, BeforeScan
  <2>6. CASE MarkCalls
    <3>1. \A v \in VRegs : assigned'[v] = NoReg /\ start'[v] = start[v] /\ start[v] \in Nat
      BY <1>2, <2>6 DEF MarkCalls, ScanInv, Untouched, BeforeScan, Typed, TypeOK
    <3>2. active' = {} /\ pending' = Live /\ UNCHANGED <<fn, start, end>> /\ ~BeforeScan'
      BY <1>2, <2>6 DEF MarkCalls, ScanInv, Untouched, BeforeScan
    <3>3. \A v \in VRegs : crosses'[v] = SpansCall(v) /\ SpansCall(v)' = SpansCall(v)
      BY <2>6 DEF MarkCalls, SpansCall, Valid
    <3>4. Untouched' /\ InOrder' /\ ActiveHolds' /\ OneHolder' /\ ActiveOrOver'
          /\ NoInterference' /\ UsedIsTracked'
      BY <3>1, <3>2 DEF Untouched, InOrder, ActiveHolds, OneHolder, ActiveOrOver,
                        NoInterference, UsedIsTracked, Live, Valid
    <3>5. CrossersSaved'
      BY <3>1, <3>2, <3>3 DEF CrossersSaved
    <3>6. QED
      BY <3>4, <3>5 DEF ScanInv
  <2>7. ASSUME NEW v \in VRegs, NEW r \in Registers, AssignRegister(v, r) PROVE ScanInv'
    BY <1>2, <2>7, AssignKeepsScanInv
  <2>8. ASSUME NEW v \in VRegs, Spill(v) PROVE ScanInv'
    BY <1>2, <2>8, SpillKeepsScanInv
  <2>9. CASE ScanFinished \/ PlaceSave \/ SavesPlaced \/ PlaceSpill \/ SpillsPlaced
    <3>1. UNCHANGED <<fn, ranges, scan>> /\ BeforeScan' = BeforeScan
      BY <2>9 DEF ScanFinished, PlaceSave, SavesPlaced, PlaceSpill, SpillsPlaced, BeforeScan
    <3>2. QED
      BY <1>2, <3>1, ScanInvKept
  <2>10. CASE UNCHANGED vars
    <3>1. UNCHANGED <<fn, ranges, scan>> /\ BeforeScan' = BeforeScan
      BY <2>10 DEF vars, BeforeScan
    <3>2. QED
      BY <1>2, <3>1, ScanInvKept
  <2>11. QED
    BY <1>2, <2>1, <2>2, <2>3, <2>4, <2>5, <2>6, <2>7, <2>8, <2>9, <2>10 DEF Next
<1>3. QED
  BY <1>1, <1>2, Typing, PTL DEF Spec

(* Overlapping ranges never share a register, for every function and every *)
(* register file.                                                           *)
THEOREM Interference == Spec => []NoInterference
<1>1. ScanInv => NoInterference
  BY DEF ScanInv
<1>2. QED
  BY <1>1, ScanInvariant, PTL

(* A range that meets a call never ends up in a register the callee may     *)
(* overwrite.                                                               *)
THEOREM CallsPreserve == Spec => []CallSafe
<1>1. ScanInv => CallSafe
  <2> SUFFICES ASSUME ScanInv, phase \in {"saves", "spills", "done"}, NEW v \in VRegs,
                      SpansCall(v), assigned[v] # NoReg
               PROVE  assigned[v] \in Saveable
    BY DEF CallSafe
  <2>1. ~BeforeScan
    BY DEF BeforeScan
  <2>2. QED
    BY <2>1 DEF ScanInv, CrossersSaved
<1>2. QED
  BY <1>1, ScanInvariant, PTL

(* The active array of PHYS_REG_COUNT entries never overflows: as each entry *)
(* holds a register of its own, there is a map from the registers onto the  *)
(* list (regalloc.c:226, 279-282).                                          *)
THEOREM ActiveIsBounded == Spec => []ActiveFits
<1>1. ASSUME Typed, ScanInv PROVE ActiveFits
  <2> DEFINE n == Len(CalleeSaved) + Len(CallerSaved)
             nth == [k \in 1..n |-> IF k <= Len(CalleeSaved) THEN CalleeSaved[k]
                                    ELSE CallerSaved[k - Len(CalleeSaved)]]
             holder == [k \in 1..n |-> IF \E a \in active : a.reg = nth[k]
                                       THEN CHOOSE a \in active : a.reg = nth[k]
                                       ELSE CHOOSE a \in active : TRUE]
  <2>1. n \in Nat /\ Len(CalleeSaved) \in Nat /\ Len(CallerSaved) \in Nat
    BY RegistersAssumption
  <2>2. CASE active = {}
    BY <2>1, <2>2, FS_EmptySet DEF ActiveFits
  <2>3. CASE active # {}
    <3>1. holder \in [1..n -> active]
      BY <2>3
    <3>2. ASSUME NEW a \in active PROVE \E k \in 1..n : holder[k] = a
      <4>1. a.reg \in Registers
        BY <1>1 DEF Typed, TypeOK
      <4>2. PICK k \in 1..n : nth[k] = a.reg
        <5>1. CASE \E k \in DOMAIN CalleeSaved : CalleeSaved[k] = a.reg
          BY <2>1, <5>1, RegistersAssumption
        <5>2. CASE \E k \in DOMAIN CallerSaved : CallerSaved[k] = a.reg
          <6>1. PICK k \in DOMAIN CallerSaved : CallerSaved[k] = a.reg
            BY <5>2
          <6>2. k \in 1..Len(CallerSaved)
            BY <6>1, RegistersAssumption
          <6>3. k + Len(CalleeSaved) \in 1..n /\ ~(k + Len(CalleeSaved) <= Len(CalleeSaved))
                /\ (k + Len(CalleeSaved)) - Len(CalleeSaved) = k
            BY <2>1, <6>2
          <6>4. nth[k + Len(CalleeSaved)] = a.reg
            BY <6>1, <6>3
          <6>5. QED
            BY <6>3, <6>4
        <5>3. QED
          BY <4>1, <5>1, <5>2 DEF Registers
      <4>3. \A b \in active : b.reg = nth[k] => b = a
        BY <1>1, <4>2 DEF ScanInv, OneHolder
      <4>4. holder[k] = CHOOSE b \in active : b.reg = nth[k]
        BY <4>2
      <4>5. holder[k] = a
        BY <4>2, <4>3, <4>4
      <4>6. QED
        BY <4>5
    <3>3. holder \in Surjection(1..n, active)
      BY <3>1, <3>2 DEF Surjection
    <3>4. ExistsSurjection(1..n, active)
      BY <3>3 DEF ExistsSurjection
    <3>5. QED
      BY <2>1, <3>4, FS_SurjCardinalityBound DEF ActiveFits
  <2>4. QED
    BY <2>2, <2>3
<1>2. QED
  BY <1>1, Typing, ScanInvariant, PTL

-----------------------------------------------------------------------------
(***************************************************************************)
(* THE LOOPS                                                                *)
(*                                                                         *)
(* While a sweep has changed nothing, the jumps it has passed are covered;  *)
(* a sweep that ends so has passed them all.                                *)
(***************************************************************************)
Covered(j) == BackwardJump(fn.code, j) => \A v \in VRegs : MeetsLoop(v, j) => end[v] >= j
LoopInv ==
  /\ phase = "loops" => at >= 1 /\ (~changed => \A j \in Positions : j < at => Covered(j))
  /\ phase \notin {"ranges", "loops"} => \A j \in Positions : Covered(j)

(* While a sweep has changed nothing it has left covered what it passed.    *)
THEOREM LoopsKept == Spec => []LoopInv
<1>1. ASSUME Init, Typed PROVE LoopInv
  <2>1. phase = "ranges" \/ VRegs = {} \/ Positions = {}
    <3>1. CASE fn.code = << >>
      BY <3>1
    <3>2. CASE fn.vregs = 0
      BY <3>2
    <3>3. QED
      BY <1>1, <3>1, <3>2 DEF Init
  <2>2. phase # "loops"
    BY <1>1 DEF Init
  <2>3. QED
    BY <2>1, <2>2 DEF LoopInv, Covered
<1>2. ASSUME Typed, LoopInv, [Next]_vars PROVE LoopInv'
  <2>1. CASE ScanInstruction
    BY <2>1 DEF ScanInstruction, LoopInv
  <2>2. CASE RangesFound
    BY <2>2 DEF RangesFound, LoopInv
  <2>3. CASE ExtendOverLoop
    <3>1. /\ at' = at + 1 /\ phase' = "loops" /\ UNCHANGED <<fn, start>> /\ at \in Nat /\ at >= 1
      BY <1>2, <2>3 DEF ExtendOverLoop, LoopInv, Typed, TypeOK
    <3>2. SUFFICES ASSUME ~changed', NEW j \in Positions, j < at' PROVE Covered(j)'
      BY <3>1 DEF LoopInv
    <3>3. ~changed /\ end' = end /\ \A v \in VRegs : ~Stretched(v, at)
      <4>1. ~changed /\ \A v \in VRegs : ~Stretched(v, at)
        BY <2>3, <3>2 DEF ExtendOverLoop
      <4>2. end' = [v \in VRegs |-> end[v]]
        BY <2>3, <4>1 DEF ExtendOverLoop
      <4>3. QED
        BY <1>2, <4>1, <4>2 DEF Typed, TypeOK
    <3>4. Covered(j)
      <4>1. CASE j < at
        BY <1>2, <2>3, <3>3, <4>1 DEF LoopInv, ExtendOverLoop
      <4>2. CASE j = at
        BY <1>2, <3>3, <4>2 DEF Covered, Stretched, Typed, TypeOK
      <4>3. QED
        BY <3>1, <3>2, <4>1, <4>2
    <3>5. QED
      BY <3>1, <3>3, <3>4 DEF Covered, MeetsLoop, Valid
  <2>4. CASE SweepAgain
    BY <2>4 DEF SweepAgain, LoopInv
  <2>5. CASE LoopsSettled
    <3>1. \A j \in Positions : Covered(j)
      <4>1. \A j \in Positions : j < at
        BY <1>2, <2>5, FunctionType DEF LoopsSettled, LoopInv, Typed, TypeOK
      <4>2. QED
        BY <1>2, <2>5, <4>1 DEF LoopsSettled, LoopInv
    <3>2. QED
      BY <2>5, <3>1 DEF LoopsSettled, LoopInv, Covered, MeetsLoop, Valid
  <2>6. CASE \/ MarkCalls \/ ScanFinished \/ PlaceSave \/ SavesPlaced \/ PlaceSpill \/ SpillsPlaced
             \/ \E v \in VRegs, r \in Registers : AssignRegister(v, r)
             \/ \E v \in VRegs : Spill(v)
    <3>1. /\ UNCHANGED <<fn, start, end>> /\ phase \notin {"ranges", "loops"}
          /\ phase' \notin {"ranges", "loops"}
      BY <2>6 DEF MarkCalls, AssignRegister, Spill, ScanFinished, PlaceSave, SavesPlaced,
                  PlaceSpill, SpillsPlaced
    <3>2. QED
      BY <1>2, <3>1 DEF LoopInv, Covered, MeetsLoop, Valid
  <2>7. CASE UNCHANGED vars
    BY <1>2, <2>7 DEF vars, LoopInv, Covered, MeetsLoop, Valid
  <2>8. QED
    BY <1>2, <2>1, <2>2, <2>3, <2>4, <2>5, <2>6, <2>7 DEF Next
<1>3. QED
  BY <1>1, <1>2, Typing, PTL DEF Spec

(* When the sweep settles no range that meets a loop ends inside it         *)
(* (regalloc.c:165-189).                                                    *)
THEOREM LoopsAreCovered == Spec => []LoopsCovered
<1>1. LoopInv => LoopsCovered
  BY DEF LoopInv, LoopsCovered, Covered
<1>2. QED
  BY <1>1, LoopsKept, PTL

-----------------------------------------------------------------------------
(***************************************************************************)
(* THE FRAME                                                                *)
(*                                                                         *)
(* The n-th eight bytes below the locals belong to the n-th register saved  *)
(* or spilled.                                                              *)
(***************************************************************************)
Below(n) == -(LocalStack(fn) + 8 * n)
Placed(r) == r \in used /\ \E k \in DOMAIN CalleeSaved :
               CalleeSaved[k] = r /\ (phase = "saves" => k < at)
PlacedSpill(v) == v \in VRegs /\ Spilled(v) /\ (phase = "spills" => v < at)
FrameInv ==
  /\ ~(phase \in {"spills", "done"}) => spills = 0
  /\ ~(phase \in {"saves", "spills", "done"}) => saves = 0
  /\ phase \in {"saves", "spills", "done"} => \A r \in Registers : Placed(r) =>
       /\ \E n \in 1..saves : saveSlot[r] = Below(n)
       /\ \A s \in Registers : Placed(s) /\ s # r => saveSlot[r] # saveSlot[s]
  /\ phase \in {"spills", "done"} => \A v \in VRegs : PlacedSpill(v) =>
       /\ \E n \in (saves + 1)..(saves + spills) : spillSlot[v] = Below(n)
       /\ \A w \in VRegs : PlacedSpill(w) /\ w # v => spillSlot[v] # spillSlot[w]
  /\ phase \in {"saves", "spills"} => at >= 1

(* At first no slot is given out.                                           *)
LEMMA FrameStart ==
  ASSUME Init PROVE FrameInv
  BY DEF Init, FrameInv, Placed, PlacedSpill, Spilled, Valid

(* The other passes leave the slots alone.                                  *)
LEMMA FrameUntouched ==
  ASSUME Typed, FrameInv, UNCHANGED <<fn, start, used, assigned, frame>>,
         phase \notin {"saves", "spills"}, phase' # "done" \/ phase = "done",
         phase' \in {"saves", "spills"} => phase = "scan" /\ phase' = "saves" /\ at' = 1,
         phase \in {"saves", "spills", "done"} => phase' = "done"
  PROVE  FrameInv'
<1>1. CASE phase' = "done"
  BY <1>1 DEF FrameInv, Placed, PlacedSpill, Spilled, Valid, Below, Typed, TypeOK
<1>2. CASE phase' = "saves"
  BY <1>2, RegistersAssumption DEF FrameInv, Placed
<1>3. CASE phase' \notin {"saves", "spills", "done"}
  BY <1>3 DEF FrameInv
<1>4. QED
  BY <1>1, <1>2, <1>3 DEF Typed, TypeOK

(* A save slot is the next eight bytes down (regalloc.c:297-302).           *)
LEMMA PlaceSaveKeepsFrame ==
  ASSUME Typed, Typed', FrameInv, PlaceSave
  PROVE  FrameInv'
<1> DEFINE r == CalleeSaved[at]
<1>0. /\ LocalStack(fn) \in Nat /\ saves \in Nat /\ at \in Nat /\ at >= 1 /\ at \in DOMAIN CalleeSaved
      /\ r \in Registers /\ phase = "saves" /\ phase' = "saves" /\ at' = at + 1
      /\ UNCHANGED <<fn, used, spills>> /\ spills = 0
  BY FunctionType DEF PlaceSave, FrameInv, Typed, TypeOK, Registers
<1>1. \A k \in DOMAIN CalleeSaved : k \in Nat
  BY RegistersAssumption
<1>2. \A s \in Registers : Placed(s)' <=> Placed(s) \/ (s = r /\ r \in used)
  BY <1>0, <1>1 DEF Placed
<1>3. ~Placed(r)
  BY <1>0, <1>1, RegistersAssumption DEF Placed
<1>4. \A n \in Nat : Below(n) \in Int /\ Below(n)' = Below(n)
  BY <1>0 DEF Below
<1>5. \A s \in Registers : Placed(s)' =>
        /\ \E n \in 1..saves' : saveSlot'[s] = Below(n)
        /\ \A t \in Registers : Placed(t)' /\ t # s => saveSlot'[s] # saveSlot'[t]
  <2>1. CASE r \in used
    <3>1. saves' = saves + 1 /\ saveSlot' = [saveSlot EXCEPT ![r] = Below(saves + 1)]
      BY <2>1 DEF PlaceSave, Below
    <3>2. saveSlot'[r] = Below(saves + 1)
      BY <1>0, <3>1 DEF Typed, TypeOK
    <3>3. \A s \in Registers : Placed(s) =>
            /\ s # r /\ saveSlot'[s] = saveSlot[s]
            /\ \E n \in 1..saves : saveSlot'[s] = Below(n)
      BY <1>0, <1>3, <3>1 DEF FrameInv, Typed, TypeOK
    <3>4. \A n \in 1..saves : Below(n) # Below(saves + 1) /\ n \in 1..(saves + 1)
      BY <1>0 DEF Below
    <3>5. saves + 1 \in 1..saves'
      BY <1>0, <3>1
    <3>6. QED
      BY <1>0, <1>2, <2>1, <3>1, <3>2, <3>3, <3>4, <3>5 DEF FrameInv
  <2>2. CASE r \notin used
    <3>1. UNCHANGED <<saves, saveSlot>>
      BY <2>2 DEF PlaceSave
    <3>2. QED
      BY <1>0, <1>2, <2>2, <3>1 DEF FrameInv
  <2>3. QED
    BY <2>1, <2>2
<1>6. \A s \in Registers : Placed(s)' => \E n \in 1..saves' : saveSlot'[s] = Below(n)'
  <2>1. saves' \in Nat
    BY DEF Typed, TypeOK
  <2>2. QED
    BY <1>4, <1>5, <2>1
<1>7. QED
  BY <1>0, <1>5, <1>6 DEF FrameInv

(* A spill slot is the next below those (regalloc.c:307-312).               *)
LEMMA PlaceSpillKeepsFrame ==
  ASSUME Typed, Typed', FrameInv, PlaceSpill
  PROVE  FrameInv'
<1>0. /\ LocalStack(fn) \in Nat /\ saves \in Nat /\ spills \in Nat /\ at \in Nat /\ at >= 1
      /\ at \in VRegs /\ phase = "spills" /\ phase' = "spills" /\ at' = at + 1
      /\ UNCHANGED <<fn, used, start, assigned, saves, saveSlot>> /\ fn.vregs \in Nat
  BY FunctionType DEF PlaceSpill, FrameInv, Typed, TypeOK
<1>1. \A v \in VRegs : Spilled(v)' = Spilled(v)
  BY <1>0 DEF Spilled, Valid
<1>2. \A v \in VRegs : PlacedSpill(v)' <=> PlacedSpill(v) \/ (v = at /\ Spilled(at))
  BY <1>0, <1>1 DEF PlacedSpill
<1>3. ~PlacedSpill(at)
  BY <1>0 DEF PlacedSpill
<1>4. \A n \in Nat : Below(n) \in Int /\ Below(n)' = Below(n)
  BY <1>0 DEF Below
<1>5. \A v \in VRegs : PlacedSpill(v)' =>
        /\ \E n \in (saves + 1)..(saves + spills') : spillSlot'[v] = Below(n)
        /\ \A w \in VRegs : PlacedSpill(w)' /\ w # v => spillSlot'[v] # spillSlot'[w]
  <2>1. CASE Spilled(at)
    <3> DEFINE n == saves + spills + 1
    <3>1. spills' = spills + 1 /\ spillSlot' = [spillSlot EXCEPT ![at] = Below(n)]
      <4>1. -(LocalStack(fn) + 8 * saves + 8 * (spills + 1)) = Below(n)
        BY <1>0 DEF Below
      <4>2. QED
        BY <2>1, <4>1 DEF PlaceSpill
    <3>2. spillSlot'[at] = Below(n)
      BY <1>0, <3>1 DEF Typed, TypeOK
    <3>3. \A v \in VRegs : PlacedSpill(v) =>
            /\ v # at /\ spillSlot'[v] = spillSlot[v]
            /\ \E m \in (saves + 1)..(saves + spills) : spillSlot'[v] = Below(m)
      BY <1>0, <1>3, <3>1 DEF FrameInv, Typed, TypeOK
    <3>4. \A m \in (saves + 1)..(saves + spills) :
            Below(m) # Below(n) /\ m \in (saves + 1)..(saves + spills')
      BY <1>0, <3>1 DEF Below
    <3>5. n \in (saves + 1)..(saves + spills')
      BY <1>0, <3>1
    <3>6. QED
      BY <1>0, <1>2, <2>1, <3>2, <3>3, <3>4, <3>5 DEF FrameInv
  <2>2. CASE ~Spilled(at)
    <3>1. UNCHANGED <<spills, spillSlot>>
      BY <2>2 DEF PlaceSpill
    <3>2. QED
      BY <1>0, <1>2, <2>2, <3>1 DEF FrameInv
  <2>3. QED
    BY <2>1, <2>2
<1>6. \A v \in VRegs : PlacedSpill(v)' =>
        \E n \in (saves + 1)..(saves + spills') : spillSlot'[v] = Below(n)'
  <2>1. spills' \in Nat
    BY DEF Typed, TypeOK
  <2>2. \A n \in (saves + 1)..(saves + spills') : Below(n)' = Below(n)
    BY <1>0, <1>4, <2>1
  <2>3. QED
    BY <1>5, <2>2
<1>7. \A r \in Registers : Placed(r)' => Placed(r)
  BY <1>0 DEF Placed
<1>8. \A n \in 1..saves : Below(n)' = Below(n)
  BY <1>0, <1>4
<1>9. QED
  BY <1>0, <1>5, <1>6, <1>7, <1>8 DEF FrameInv

(* The slots given out so far are the first ones below the locals.          *)
THEOREM Frame == Spec => []FrameInv
<1>1. ASSUME Typed, Typed', FrameInv, [Next]_vars PROVE FrameInv'
  <2>1. CASE ScanInstruction
    BY <1>1, <2>1 DEF ScanInstruction, FrameInv
  <2>2. CASE \/ RangesFound \/ ExtendOverLoop \/ SweepAgain \/ LoopsSettled \/ MarkCalls
             \/ (\E v \in VRegs, r \in Registers : AssignRegister(v, r))
             \/ \E v \in VRegs : Spill(v)
    <3>1. /\ phase \in {"ranges", "loops", "calls", "scan"}
          /\ phase' \in {"ranges", "loops", "calls", "scan"}
          /\ UNCHANGED <<fn, frame>>
      BY <2>2 DEF RangesFound, ExtendOverLoop, SweepAgain, LoopsSettled, MarkCalls,
                  AssignRegister, Spill
    <3>2. QED
      BY <1>1, <3>1 DEF FrameInv
  <2>3. CASE ScanFinished
    BY <1>1, <2>3, FrameUntouched DEF ScanFinished
  <2>4. CASE PlaceSave
    BY <1>1, <2>4, PlaceSaveKeepsFrame
  <2>5. CASE SavesPlaced
    <3>1. \A r \in Registers : Placed(r)' => Placed(r)
      <4>1. \A k \in DOMAIN CalleeSaved : k < at
        BY <1>1, <2>5, RegistersAssumption DEF SavesPlaced, FrameInv, Typed, TypeOK
      <4>2. QED
        BY <2>5, <4>1 DEF SavesPlaced, Placed
    <3>2. \A v \in VRegs : ~PlacedSpill(v)'
      BY <1>1, <2>5, FunctionType DEF SavesPlaced, PlacedSpill, Typed, TypeOK
    <3>3. QED
      BY <1>1, <2>5, <3>1, <3>2 DEF SavesPlaced, FrameInv, Below
  <2>6. CASE PlaceSpill
    BY <1>1, <2>6, PlaceSpillKeepsFrame
  <2>7. CASE SpillsPlaced
    <3>1. \A v \in VRegs : PlacedSpill(v)' => PlacedSpill(v)
      <4>1. \A v \in VRegs : v < at
        BY <1>1, <2>7, FunctionType DEF SpillsPlaced, FrameInv, Typed, TypeOK
      <4>2. QED
        BY <2>7, <4>1 DEF SpillsPlaced, PlacedSpill, Spilled, Valid
    <3>2. \A r \in Registers : Placed(r)' => Placed(r)
      BY <2>7 DEF SpillsPlaced, Placed
    <3>3. QED
      BY <1>1, <2>7, <3>1, <3>2 DEF SpillsPlaced, FrameInv, Below
  <2>8. CASE UNCHANGED vars
    BY <1>1, <2>8 DEF vars, FrameInv, Placed, PlacedSpill, Spilled, Valid, Below
  <2>9. QED
    BY <1>1, <2>1, <2>2, <2>3, <2>4, <2>5, <2>6, <2>7, <2>8 DEF Next
<1>2. QED
  BY <1>1, FrameStart, Typing, PTL DEF Spec

(* Every slot lies below the locals and inside the frame the prologue        *)
(* reserves, and no two slots share a byte (regalloc.c:295-312).            *)
THEOREM FrameIsSound == Spec => []FrameSound
<1>1. ASSUME Typed, FrameInv PROVE FrameSound
  <2> SUFFICES ASSUME phase = "done"
               PROVE  /\ \A s \in Slots : s[3] + 8 <= -fn.stack /\ s[3] >= -FrameSize
                      /\ \A s, t \in Slots : s # t => s[3] + 8 <= t[3] \/ t[3] + 8 <= s[3]
    BY DEF FrameSound
  <2>0. /\ LocalStack(fn) \in Nat /\ fn.stack \in Nat /\ LocalStack(fn) >= fn.stack
        /\ saves \in Nat /\ spills \in Nat
    BY <1>1, FunctionType DEF Typed, TypeOK
  <2> DEFINE total == LocalStack(fn) + 8 * saves + 8 * spills
  <2>1. FrameSize \in Nat /\ FrameSize >= total
    <3>1. total \in Nat
      BY <2>0
    <3>2. AlignUp16(total) \in Nat /\ AlignUp16(total) >= total
      BY <3>1, AlignUp16Type
    <3> HIDE DEF total
    <3>3. FrameSize = IF AlignUp16(total) < 32 THEN 32 ELSE AlignUp16(total)
      BY DEF FrameSize, total
    <3>4. QED
      BY <3>1, <3>2, <3>3
  <2>2. \A n \in 1..(saves + spills) :
          Below(n) \in Int /\ Below(n) + 8 <= -fn.stack /\ Below(n) >= -total
    BY <2>0 DEF Below
  <2>3. \A m, n \in 1..(saves + spills) : Below(m) # Below(n) =>
          Below(m) + 8 <= Below(n) \/ Below(n) + 8 <= Below(m)
    BY <2>0 DEF Below
  <2>4. \A r \in SavedRegs : r \in Registers /\ Placed(r)
    BY DEF SavedRegs, Saveable, Placed, Registers
  <2>5. \A v \in VRegs : Spilled(v) => PlacedSpill(v)
    BY DEF PlacedSpill
  <2>6. \A s \in Slots : \E n \in 1..(saves + spills) : s[3] = Below(n)
    <3> TAKE s \in Slots
    <3>1. CASE \E r \in SavedRegs : s = <<"save", r, saveSlot[r]>>
      BY <1>1, <2>0, <2>4, <3>1 DEF FrameInv
    <3>2. CASE \E v \in VRegs : Spilled(v) /\ s = <<"spill", v, spillSlot[v]>>
      BY <1>1, <2>0, <2>5, <3>2 DEF FrameInv
    <3>3. QED
      BY <3>1, <3>2 DEF Slots
  <2>7. \A s, t \in Slots : s # t => s[3] # t[3]
    <3>1. \A r \in SavedRegs, q \in SavedRegs : r # q => saveSlot[r] # saveSlot[q]
      BY <1>1, <2>4 DEF FrameInv
    <3>2. \A v, w \in VRegs : Spilled(v) /\ Spilled(w) /\ v # w => spillSlot[v] # spillSlot[w]
      BY <1>1, <2>5 DEF FrameInv
    <3>3. \A r \in SavedRegs, v \in VRegs : Spilled(v) => saveSlot[r] # spillSlot[v]
      <4> SUFFICES ASSUME NEW r \in SavedRegs, NEW v \in VRegs, Spilled(v)
                   PROVE  saveSlot[r] # spillSlot[v]
        OBVIOUS
      <4>1. PICK m \in 1..saves : saveSlot[r] = Below(m)
        BY <1>1, <2>4 DEF FrameInv
      <4>2. PICK n \in (saves + 1)..(saves + spills) : spillSlot[v] = Below(n)
        BY <1>1, <2>5 DEF FrameInv
      <4>3. QED
        BY <2>0, <4>1, <4>2 DEF Below
    <3>4. QED
      BY <3>1, <3>2, <3>3 DEF Slots
  <2>8. QED
    BY <2>0, <2>1, <2>2, <2>3, <2>6, <2>7
<1>2. QED
  BY <1>1, Frame, Typing, PTL

(***************************************************************************)
(* THE REFINEMENT                                                           *)
(*                                                                         *)
(* LinearScan implements RegisterAllocation: for any functions and any      *)
(* register file, the result of the allocator is sound for the text.        *)
(***************************************************************************)

(***************************************************************************)
(* What the ranges found so far have to do with the text.                   *)
(***************************************************************************)
Holds(v, n) ==
  \A i \in Positions : i < n /\ v \in Mentions(fn.code[i]) =>
    start[v] > 0 /\ start[v] <= i /\ i <= end[v]
RangeInv ==
  /\ phase = "ranges" => at >= 1 /\ \A v \in VRegs : start[v] < at /\ end[v] < at /\ Holds(v, at)
  /\ phase # "ranges" => \A v \in VRegs : Holds(v, Len(fn.code) + 1)
  /\ \A v \in VRegs : Valid(v) =>
       /\ start[v] \in Positions /\ end[v] \in Positions
       /\ \E i \in Positions : v \in Mentions(fn.code[i])

(* Pass 1 finds ranges that hold every mention, and pass 2 never shrinks    *)
(* one (regalloc.c:136-189).                                                *)
THEOREM Ranges == Spec => []RangeInv
<1>1. ASSUME Init, Typed PROVE RangeInv
  <2>1. phase = "ranges" \/ VRegs = {} \/ Positions = {}
    <3>1. CASE fn.code = << >>
      BY <3>1
    <3>2. CASE fn.vregs = 0
      BY <3>2
    <3>3. QED
      BY <1>1, <3>1, <3>2 DEF Init
  <2>2. at = 1 /\ \A v \in VRegs : ~Valid(v) /\ start[v] = 0 /\ end[v] = 0
    BY <1>1 DEF Init, Valid
  <2>3. QED
    BY <2>1, <2>2 DEF RangeInv, Holds
<1>2. ASSUME Typed, Typed', RangeInv, [Next]_vars PROVE RangeInv'
  <2>1. CASE ScanInstruction
    <3>a. /\ phase = "ranges" /\ phase' = "ranges" /\ fn' = fn /\ at' = at + 1 /\ at \in Positions
      BY <2>1 DEF ScanInstruction
    <3>b. /\ at >= 1 /\ at \in Nat
          /\ \A v \in VRegs : /\ Holds(v, at) /\ start[v] < at /\ end[v] < at
                             /\ start[v] \in Nat /\ end[v] \in Nat
      BY <1>2, <3>a DEF RangeInv, Typed, TypeOK
    <3>1. /\ phase = "ranges" /\ phase' = "ranges" /\ fn' = fn /\ at' = at + 1 /\ at \in Positions
          /\ at >= 1 /\ at \in Nat
          /\ \A v \in VRegs : Holds(v, at) /\ start[v] \in 0..(at - 1) /\ end[v] \in 0..(at - 1)
      BY <3>a, <3>b
    <3>2. ASSUME NEW v \in VRegs
          PROVE  /\ v \in Mentions(fn.code[at]) =>
                      /\ start'[v] = IF start[v] = 0 THEN at ELSE start[v]
                      /\ end'[v] = IF end[v] < at THEN at ELSE end[v]
                 /\ v \notin Mentions(fn.code[at]) => start'[v] = start[v] /\ end'[v] = end[v]
      BY <2>1 DEF ScanInstruction
    <3>3. ASSUME NEW v \in VRegs PROVE Holds(v, at)'
      <4> SUFFICES ASSUME NEW i \in Positions, i < at + 1, v \in Mentions(fn.code[i])
                   PROVE  start'[v] > 0 /\ start'[v] <= i /\ i <= end'[v]
        BY <3>1 DEF Holds
      <4>1. CASE i = at
        BY <3>1, <3>2, <4>1
      <4>2. CASE i < at
        <5>1. start[v] > 0 /\ start[v] <= i /\ i <= end[v]
          BY <3>1, <4>2 DEF Holds
        <5>2. QED
          BY <3>1, <3>2, <4>2, <5>1
      <4>3. QED
        BY <3>1, <4>1, <4>2
    <3>4. ASSUME NEW v \in VRegs, Valid(v)'
          PROVE  /\ start'[v] \in Positions /\ end'[v] \in Positions
                 /\ \E i \in Positions : v \in Mentions(fn.code[i])
      <4>1. CASE v \in Mentions(fn.code[at])
        BY <1>2, <3>1, <3>2, <4>1 DEF RangeInv, Valid
      <4>2. CASE v \notin Mentions(fn.code[at])
        BY <1>2, <3>1, <3>2, <3>4, <4>2 DEF RangeInv, Valid
      <4>3. QED
        BY <4>1, <4>2
    <3>5. \A v \in VRegs : start'[v] < at' /\ end'[v] < at'
      BY <3>1, <3>2
    <3>6. QED
      BY <3>1, <3>3, <3>4, <3>5 DEF RangeInv
  <2>2. CASE RangesFound
    <3>1. \A v \in VRegs : Holds(v, Len(fn.code) + 1)
      BY <1>2, <2>2, FunctionType DEF RangesFound, RangeInv, Holds, Typed, TypeOK
    <3>2. QED
      BY <1>2, <2>2, <3>1 DEF RangesFound, RangeInv, Holds, Valid
  <2>3. CASE ExtendOverLoop
    <3>1. /\ phase # "ranges" /\ phase' # "ranges" /\ UNCHANGED <<fn, start>> /\ at \in Positions
      BY <2>3 DEF ExtendOverLoop
    <3>2. \A v \in VRegs : end'[v] = end[v] \/ (end'[v] = at /\ end[v] < at)
      BY <2>3 DEF ExtendOverLoop, Stretched
    <3>3. \A v \in VRegs : end[v] \in Nat /\ start[v] \in Nat
      BY <1>2 DEF Typed, TypeOK
    <3>4. ASSUME NEW v \in VRegs PROVE Holds(v, Len(fn.code) + 1)'
      <4> SUFFICES ASSUME NEW i \in Positions, v \in Mentions(fn.code[i])
                   PROVE  start[v] > 0 /\ start[v] <= i /\ i <= end'[v]
        BY <3>1 DEF Holds
      <4>1. start[v] > 0 /\ start[v] <= i /\ i <= end[v]
        <5>1. i < Len(fn.code) + 1 /\ i \in Nat
          BY <1>2, FunctionType DEF Typed
        <5>2. QED
          BY <1>2, <3>1, <5>1 DEF RangeInv, Holds
      <4>2. QED
        BY <3>1, <3>2, <3>3, <4>1
    <3>5. QED
      BY <1>2, <3>1, <3>2, <3>4 DEF RangeInv, Valid
  <2>4. CASE \/ SweepAgain \/ LoopsSettled \/ MarkCalls \/ ScanFinished
             \/ PlaceSave \/ SavesPlaced \/ PlaceSpill \/ SpillsPlaced
             \/ (\E v \in VRegs, r \in Registers : AssignRegister(v, r))
             \/ \E v \in VRegs : Spill(v)
    <3>1. phase # "ranges" /\ phase' # "ranges" /\ UNCHANGED <<fn, start, end>>
      BY <2>4 DEF SweepAgain, LoopsSettled, MarkCalls, ScanFinished, PlaceSave, SavesPlaced,
                  PlaceSpill, SpillsPlaced, AssignRegister, Spill
    <3>2. QED
      BY <1>2, <3>1 DEF RangeInv, Holds, Valid
  <2>5. CASE UNCHANGED vars
    BY <1>2, <2>5 DEF vars, RangeInv, Holds, Valid
  <2>6. QED
    BY <1>2, <2>1, <2>2, <2>3, <2>4, <2>5 DEF Next
<1>3. QED
  BY <1>1, <1>2, Typing, PTL DEF Spec

-----------------------------------------------------------------------------
(***************************************************************************)
(* THE RESULT                                                               *)
(*                                                                         *)
(* When the allocator is done, [start, end] covers the text's live range,   *)
(* so what the scan keeps apart is apart.                                   *)
(***************************************************************************)
Facts == /\ Typed /\ LoopInv /\ RangeInv /\ ScanInv
         /\ NoInterference /\ CallSafe /\ FrameSound
Delivered == phase = "done" => Promise!Sound(fn, Result)

(* The contract reads the text of a function as the allocator does.         *)
LEMMA SameText ==
  /\ \A i : Promise!Mentions(i) = Mentions(i)
  /\ \A c, l : Promise!LabelPos(c, l) = LabelPos(c, l)
  /\ \A c, j : Promise!BackwardJump(c, j) <=> BackwardJump(c, j)
  BY Zenon DEF Promise!Mentions, Mentions, Promise!Operands, Operands, Promise!LabelPos, LabelPos,
         Promise!IsLabel, IsLabel, Promise!BackwardJump, BackwardJump, Promise!Jump, Jump

(* Where a register is live by the text, its interval covers it.            *)
LEMMA LiveWithinRange ==
  ASSUME Facts, phase = "done", NEW v \in VRegs, NEW i \in Promise!LiveRange(fn, v)
  PROVE  i \in Positions /\ Valid(v) /\ start[v] <= i /\ i <= end[v]
<1> DEFINE mentions == Promise!MentionsOf(fn, v)
           loops == Promise!Loops(fn)
<1>1. /\ i \in Positions /\ mentions # {}
      /\ \A first, last \in Positions :
           Promise!Covers(mentions, loops, first, last) => first <= i /\ i <= last
  BY DEF Promise!LiveRange, Promise!Text
<1>2. PICK m \in Positions : v \in Mentions(fn.code[m])
  BY <1>1, SameText DEF Promise!MentionsOf
<1>3. \A k \in mentions : k \in Positions /\ start[v] > 0 /\ start[v] <= k /\ k <= end[v]
  <2> SUFFICES ASSUME NEW k \in mentions
               PROVE  k \in Positions /\ start[v] > 0 /\ start[v] <= k /\ k <= end[v]
    OBVIOUS
  <2>1. k \in Positions /\ v \in Mentions(fn.code[k])
    BY SameText DEF Promise!MentionsOf
  <2>2. k < Len(fn.code) + 1 /\ k \in Nat
    BY <2>1, FunctionType DEF Facts, Typed
  <2>3. QED
    BY <2>1, <2>2 DEF Facts, RangeInv, Holds
<1>4. Valid(v) /\ start[v] \in Positions /\ end[v] \in Positions
  <2>1. m \in mentions
    BY <1>2, SameText DEF Promise!MentionsOf
  <2>2. Valid(v)
    BY <1>3, <2>1 DEF Valid
  <2>3. QED
    BY <2>2 DEF Facts, RangeInv
<1>5. \A l \in loops : start[v] <= l[2] /\ l[1] <= end[v] => l[2] <= end[v]
  <2> SUFFICES ASSUME NEW j \in Positions, BackwardJump(fn.code, j), start[v] <= j,
                      LabelPos(fn.code, fn.code[j].label) <= end[v]
               PROVE  j <= end[v]
    BY SameText DEF Promise!Loops
  <2>1. LabelPos(fn.code, fn.code[j].label) \in Int
    BY DEF BackwardJump
  <2>2. Covered(j) /\ MeetsLoop(v, j)
    BY <1>4, <2>1 DEF Facts, LoopInv, MeetsLoop
  <2>3. QED
    BY <1>4, <2>2 DEF Covered
<1>6. Promise!Covers(mentions, loops, start[v], end[v])
  <2>1. mentions \subseteq start[v]..end[v]
    BY <1>3, <1>4
  <2>2. QED
    BY <1>5, <2>1 DEF Promise!Covers
<1>7. QED
  BY <1>1, <1>4, <1>6

(* The areas the contract speaks of are the slots the allocator placed.     *)
LEMMA AreasAreSlots ==
  ASSUME Facts, phase = "done"
  PROVE  Promise!Areas(fn, Result) \subseteq Slots
<1> SUFFICES ASSUME NEW s \in Promise!Areas(fn, Result) PROVE s \in Slots
  OBVIOUS
<1>1. ASSUME NEW r \in Saveable, NEW v \in VRegs, assigned[v] = r, s = <<"save", r, saveSlot[r]>>
      PROVE  s \in Slots
  <2>1. r \in Registers
    BY <1>1 DEF Saveable, Registers
  <2>2. r \in used
    BY <1>1, <2>1, RegistersAssumption DEF Facts, ScanInv, UsedIsTracked
  <2>3. QED
    BY <1>1, <2>2 DEF Slots, SavedRegs
<1>2. ASSUME NEW v \in VRegs, Promise!MentionsOf(fn, v) # {}, assigned[v] = NoReg,
             s = <<"spill", v, spillSlot[v]>>
      PROVE  s \in Slots
  <2>1. PICK i \in Positions : v \in Mentions(fn.code[i])
    BY <1>2, SameText DEF Promise!MentionsOf
  <2>2. i < Len(fn.code) + 1 /\ i \in Nat
    BY FunctionType DEF Facts, Typed
  <2>3. Valid(v)
    BY <2>1, <2>2 DEF Facts, RangeInv, Holds, Valid
  <2>4. QED
    BY <1>2, <2>3 DEF Slots, Spilled
<1>3. QED
  BY <1>1, <1>2 DEF Promise!Areas, Promise!VRegs, Result

(* A finished allocator delivers a sound result.                            *)
LEMMA ResultIsSound == Facts => Delivered
<1> SUFFICES ASSUME Facts, phase = "done" PROVE Promise!Sound(fn, Result)
  BY DEF Delivered
<1>1. Promise!KeptApart(fn, Result)
  <2> SUFFICES ASSUME NEW v \in VRegs, NEW w \in VRegs, v # w,
                      assigned[v] # NoReg, assigned[v] = assigned[w],
                      NEW i \in Promise!LiveRange(fn, v), i \in Promise!LiveRange(fn, w)
               PROVE  FALSE
    BY DEF Promise!KeptApart, Promise!VRegs, Result
  <2>1. start[v] <= i /\ i <= end[v] /\ i \in Positions
    BY LiveWithinRange
  <2>2. start[w] <= i /\ i <= end[w]
    BY LiveWithinRange
  <2>3. Overlap(v, w)
    BY <2>1, <2>2 DEF Overlap, Facts, Typed, TypeOK
  <2>4. QED
    BY <2>3 DEF Facts, NoInterference
<1>2. Promise!SurvivesCalls(fn, Result)
  <2> SUFFICES ASSUME NEW v \in VRegs, assigned[v] \notin Saveable \cup {NoReg},
                      NEW i \in Promise!LiveRange(fn, v), fn.code[i].op = "CALL"
               PROVE  FALSE
    BY DEF Promise!SurvivesCalls, Promise!VRegs, Result
  <2>1. SpansCall(v)
    BY LiveWithinRange DEF SpansCall
  <2>2. QED
    BY <2>1 DEF Facts, CallSafe
<1>3. Promise!FrameLaidOut(fn, Result)
  BY AreasAreSlots DEF Promise!FrameLaidOut, Facts, FrameSound, Result
<1>4. QED
  BY <1>1, <1>2, <1>3 DEF Promise!Sound

(* Every run of the allocator is a run of its contract: it produces nothing, *)
(* or one allocation that is sound for the text of the function, and then   *)
(* stops (regalloc.c:84-317).                                               *)
THEOREM Refinement == Spec => Implements
<1>1. Init /\ Delivered => Promise!Init
  BY DEF Init, Delivered, Promise!Init, Promise!Sounds
<1>2. ASSUME [Next]_vars, Delivered'
      PROVE  [Promise!Allocate]_<<fn, IF phase = "done" THEN {Result} ELSE {}>>
  <2>1. fn' = fn
    BY <1>2 DEF Next, vars, ScanInstruction, RangesFound, ExtendOverLoop, SweepAgain, LoopsSettled,
                MarkCalls, AssignRegister, Spill, ScanFinished, PlaceSave, SavesPlaced,
                PlaceSpill, SpillsPlaced
  <2>2. CASE phase = "done"
    <3>1. UNCHANGED vars
      BY <1>2, <2>2 DEF Next, ScanInstruction, RangesFound, ExtendOverLoop, SweepAgain, LoopsSettled,
                MarkCalls, AssignRegister, Spill, ScanFinished, PlaceSave, SavesPlaced,
                PlaceSpill, SpillsPlaced
    <3>2. UNCHANGED <<phase, Result>>
      BY <3>1 DEF vars, Result, FrameSize
    <3>3. QED
      BY <2>1, <3>2
  <2>3. CASE phase # "done"
    BY <1>2, <2>1, <2>3 DEF Delivered, Promise!Allocate, Promise!Sounds
  <2>4. QED
    BY <2>2, <2>3
<1>3. Spec => []Facts
  BY Typing, Ranges, Frame, ScanInvariant, Interference, CallsPreserve, FrameIsSound, LoopsKept,
     PTL DEF Facts
<1>4. QED
  BY <1>1, <1>2, <1>3, ResultIsSound, PTL DEF Spec, Implements, Promise!Spec

-----------------------------------------------------------------------------
(***************************************************************************)
(* NO REGISTER IS LOST                                                      *)
(*                                                                         *)
(* Every register that is marked is held by an entry of the active list, so *)
(* what the expiry of a range leaves marked is held by a range that is not  *)
(* over.                                                                    *)
(***************************************************************************)
MarksAreHeld == \A r \in inUse : \E a \in active : a.reg = r

(* What expiry leaves marked, an entry it keeps holds (regalloc.c:233-244). *)
LEMMA ExpiryKeepsHolders ==
  ASSUME MarksAreHeld, NEW v
  PROVE  \A r \in InUseAfterExpiry(v) : \E a \in Kept(v) : a \in active /\ a.reg = r
<1> TAKE r \in InUseAfterExpiry(v)
<1>1. r \in inUse /\ ~\E a \in active \ Kept(v) : a.reg = r
  BY DEF InUseAfterExpiry
<1>2. PICK a \in active : a.reg = r
  BY <1>1 DEF MarksAreHeld
<1>3. QED
  BY <1>1, <1>2

(* A register stays marked only as long as the list has an entry for it     *)
(* (regalloc.c:233-244, 274-282).                                           *)
THEOREM MarksHaveHolders == Spec => []MarksAreHeld
<1>1. Init => MarksAreHeld
  BY DEF Init, MarksAreHeld
<1>2. ASSUME MarksAreHeld, [Next]_vars PROVE MarksAreHeld'
  <2>1. ASSUME NEW v \in VRegs, NEW r \in Registers, AssignRegister(v, r) PROVE MarksAreHeld'
    <3> DEFINE new == [vreg |-> v, reg |-> r, end |-> end[v]]
    <3>1. inUse' = InUseAfterExpiry(v) \cup {r} /\ active' = Kept(v) \cup {new} /\ new.reg = r
      BY <2>1 DEF AssignRegister
    <3> HIDE DEF new
    <3>2. QED
      BY <1>2, <3>1, ExpiryKeepsHolders DEF MarksAreHeld
  <2>2. ASSUME NEW v \in VRegs, Spill(v) PROVE MarksAreHeld'
    BY <1>2, <2>2, ExpiryKeepsHolders DEF Spill, MarksAreHeld
  <2>3. CASE UNCHANGED <<active, inUse>>
    BY <1>2, <2>3 DEF MarksAreHeld
  <2>4. QED
    BY <1>2, <2>1, <2>2, <2>3 DEF Next, vars, ScanInstruction, RangesFound, ExtendOverLoop, SweepAgain,
       LoopsSettled, MarkCalls, ScanFinished, PlaceSave, SavesPlaced, PlaceSpill, SpillsPlaced
<1>3. QED
  BY <1>1, <1>2, PTL DEF Spec

(* When no register is the first free one, all that were asked for are      *)
(* taken (regalloc.c:246-272).                                              *)
LEMMA NoneFree ==
  ASSUME NEW v, ~\E r \in Registers : FirstFree(v, r)
  PROVE  \A k \in DOMAIN Preference(v) : Preference(v)[k] \in InUseAfterExpiry(v)
<1> DEFINE free == {k \in DOMAIN Preference(v) : Preference(v)[k] \notin InUseAfterExpiry(v)}
<1>1. Preference(v) \in Seq(Registers)
  BY RegistersAssumption DEF Preference
<1>2. /\ Len(Preference(v)) \in Nat /\ DOMAIN Preference(v) = 1..Len(Preference(v))
      /\ \A k \in DOMAIN Preference(v) : Preference(v)[k] \in Registers
  BY <1>1
<1>3. SUFFICES ASSUME free # {} PROVE FALSE
  OBVIOUS
<1>4. free \subseteq Nat
  BY <1>2
<1>5. PICK k \in free : \A j \in free : ~(<<j, k>> \in OpToRel(<, Nat))
  <2> HIDE DEF free
  <2>1. QED
    BY <1>3, <1>4, WFMin, NatLessThanWellFounded
<1>6. \A j \in free : ~(j < k)
  <2> HIDE DEF free
  <2>1. QED
    BY <1>4, <1>5 DEF OpToRel
<1>7. ASSUME NEW j \in 1..(k - 1) PROVE Preference(v)[j] \in InUseAfterExpiry(v)
  <2>1. k \in 1..Len(Preference(v))
    BY <1>2
  <2>2. j \in DOMAIN Preference(v) /\ j < k
    BY <1>2, <2>1
  <2>3. QED
    BY <1>6, <2>2
<1>8. FirstFree(v, Preference(v)[k]) /\ Preference(v)[k] \in Registers
  BY <1>2, <1>7 DEF FirstFree
<1>9. QED
  BY <1>8

(* A range is spilled only when every register it may take is held by a     *)
(* range it overlaps (regalloc.c:233-286).                                  *)
THEOREM NoneSpilledEarly == Spec => SpillOnlyWhenFull
<1>1. ASSUME Typed, ScanInv, RangeInv, MarksAreHeld, NEW v \in VRegs, Spill(v),
             NEW k \in DOMAIN Preference(v)
      PROVE  \E w \in VRegs : assigned[w] = Preference(v)[k] /\ Overlap(v, w)
  <2>1. phase = "scan" /\ v \in pending /\ ~\E r \in Registers : FirstFree(v, r)
    BY <1>1 DEF Spill, StartsFirst
  <2>2. PICK a \in Kept(v) : a \in active /\ a.reg = Preference(v)[k]
    BY <1>1, <2>1, NoneFree, ExpiryKeepsHolders
  <2>3. a.vreg \in VRegs /\ a = Entry(a.vreg) /\ a.reg # NoReg /\ a.end >= start[v]
    BY <1>1, <2>2 DEF ScanInv, ActiveHolds, Typed, TypeOK, Kept
  <2>4. assigned[a.vreg] = Preference(v)[k] /\ assigned[a.vreg] # NoReg /\ end[a.vreg] >= start[v]
    BY <2>2, <2>3 DEF Entry
  <2>5. start[a.vreg] <= start[v]
    BY <1>1, <2>1, <2>3, <2>4 DEF ScanInv, InOrder
  <2>6. start[v] <= end[v]
    <3>1. start[v] > 0
      BY <1>1, <2>1 DEF ScanInv, Untouched
    <3>2. PICK i \in Positions : v \in Mentions(fn.code[i])
      BY <1>1, <3>1 DEF RangeInv, Valid
    <3>3. Holds(v, Len(fn.code) + 1) /\ Len(fn.code) \in Nat
      BY <1>1, <2>1, FunctionType DEF RangeInv, Typed
    <3>4. i < Len(fn.code) + 1
      BY <3>3
    <3>5. start[v] <= i /\ i <= end[v]
      BY <3>2, <3>3, <3>4 DEF Holds
    <3>6. QED
      BY <1>1, <3>5 DEF Typed, TypeOK
  <2>7. Overlap(v, a.vreg)
    BY <1>1, <2>3, <2>4, <2>5, <2>6 DEF Overlap, Typed, TypeOK
  <2>8. QED
    BY <2>3, <2>4, <2>7
<1>2. Typed /\ ScanInv /\ RangeInv /\ MarksAreHeld =>
        [\A v \in VRegs : Spill(v) => \A k \in DOMAIN Preference(v) :
           \E w \in VRegs : assigned[w] = Preference(v)[k] /\ Overlap(v, w)]_vars
  BY <1>1
<1>3. QED
  BY <1>2, Typing, ScanInvariant, Ranges, MarksHaveHolders, PTL DEF SpillOnlyWhenFull
=============================================================================
