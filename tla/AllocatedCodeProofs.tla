-------------------------- MODULE AllocatedCodeProofs --------------------------
(***************************************************************************)
(* Proofs about the machine code of an allocated function, for any          *)
(* well-formed functions and any register file.                             *)
(***************************************************************************)
EXTENDS WellFormedCode, LinearScanProofs

USE DEF VRegs, Positions

(* A step that leaves the allocator's variables alone leaves all that is read*)
(* from them.                                                               *)
LEMMA SameAllocation ==
  ASSUME UNCHANGED vars
  PROVE  /\ UNCHANGED <<fn, phase, start, end, used, assigned, saveSlot, spillSlot>>
         /\ LocalOffsets' = LocalOffsets /\ SavedRegs' = SavedRegs /\ Offsets' = Offsets
         /\ \A v : SlotOf(v)' = SlotOf(v)
         /\ \A i, k : ArgumentSlot(i, k)' = ArgumentSlot(i, k)
         /\ Wanted(fn)' = Wanted(fn)
<1>1. UNCHANGED <<fn, phase, start, end, used, assigned, saveSlot, spillSlot, saves, spills>>
  BY DEF vars, ranges, scan, frame
<1>2. LocalOffsets' = LocalOffsets
  BY <1>1 DEF LocalOffsets, InstAt
<1>3. SavedRegs' = SavedRegs
  BY <1>1 DEF SavedRegs
<1>4. \A v : SlotOf(v)' = SlotOf(v)
  BY <1>1 DEF SlotOf
<1>5. \A i, k : ArgumentSlot(i, k)' = ArgumentSlot(i, k)
  BY <1>1 DEF ArgumentSlot, ArgumentSpace, FrameSize, LocalStack, InstAt
<1>6. \A i : OnStack(i)' = OnStack(i)
  BY <1>1 DEF OnStack, InstAt
<1>7. Offsets' = Offsets
  BY <1>1, <1>2, <1>3, <1>4, <1>5, <1>6 DEF Offsets, InRegister
<1>8. Wanted(fn)' = Wanted(fn)
  BY <1>1
<1>9. QED
  BY <1>1, <1>2, <1>3, <1>4, <1>5, <1>7, <1>8
-----------------------------------------------------------------------------
(***************************************************************************)
(* THE TEXT                                                                 *)
(*                                                                         *)
(* What a well-formed text says of the instruction at a position            *)
(***************************************************************************)
LEMMA Mentioned ==
  ASSUME Typed, NEW i \in Positions
  PROVE  /\ \A v \in Reads(fn.code[i]) \cup Writes(fn.code[i]) : v \in VRegs /\ v \in Mentions(fn.code[i])
         /\ fn.code[i].dest \in Int
         /\ fn.code[i].dest > 0 => fn.code[i].dest \in VRegs
         /\ Writes(fn.code[i]) = {v \in {fn.code[i].dest} : v > 0 /\ fn.code[i].op # "STORE"}
         /\ \A v \in Operands(fn.code[i]) : v \in Int
<1>1. fn.vregs \in Nat /\ fn \in Functions
  BY FunctionType DEF Typed
<1>2. Mentions(fn.code[i]) \subseteq Int /\ \A v \in Mentions(fn.code[i]) : v <= fn.vregs
  BY <1>1, TextAssumption DEF WellFormed, OperandsExist
<1>3. fn.code[i].dest \in Mentions(fn.code[i])
  BY DEF Mentions
<1>4. \A v \in Reads(fn.code[i]) \cup Writes(fn.code[i]) : v > 0 /\ v \in Mentions(fn.code[i])
  BY DEF Reads, Writes, Positive, Mentions
<1>5. Writes(fn.code[i]) = {v \in {fn.code[i].dest} : v > 0 /\ fn.code[i].op # "STORE"}
  BY DEF Writes, Positive
<1>6. \A v \in Operands(fn.code[i]) : v \in Int
  BY <1>2 DEF Mentions
<1>7. QED
  BY <1>1, <1>2, <1>3, <1>4, <1>5, <1>6

(* Control stays in the function, what an instruction reads is wanted       *)
(* there, and what is wanted where control goes next was wanted before or   *)
(* is written here.                                                         *)
LEMMA Flow ==
  ASSUME Typed, NEW i \in Positions
  PROVE  /\ GoesTo(fn, i) \subseteq Positions
         /\ \A v \in Reads(fn.code[i]) : <<i, v>> \in Wanted(fn)
         /\ \A j \in GoesTo(fn, i), v \in VRegs :
              <<j, v>> \in Wanted(fn) => <<i, v>> \in Wanted(fn) \/ v \in Writes(fn.code[i])
<1>1. WellFormed(fn)
  BY TextAssumption DEF Typed
<1>2. GoesTo(fn, i) \subseteq Positions
  BY <1>1 DEF WellFormed, ControlStays
<1>3. SetBeforeRead(fn, Wanted(fn))
  BY <1>1 DEF WellFormed
<1>4. QED
  BY <1>2, <1>3, Mentioned DEF SetBeforeRead

(* Nothing is wanted at the start of a function, whose text is not empty.   *)
LEMMA NothingAtFirst ==
  ASSUME Typed
  PROVE  1 \in Positions /\ \A v \in VRegs : <<1, v>> \notin Wanted(fn)
<1>1. WellFormed(fn) /\ Len(fn.code) \in Nat /\ DOMAIN fn.code = 1..Len(fn.code)
  BY TextAssumption, FunctionsAssumption DEF Typed
<1>2. fn.code # << >>
  BY <1>1 DEF WellFormed, ControlStays
<1>3. SetBeforeRead(fn, Wanted(fn))
  BY <1>1 DEF WellFormed
<1>4. 1 \in Positions
  BY <1>1, <1>2
<1>5. QED
  BY <1>3, <1>4 DEF SetBeforeRead

(* A register's interval covers its mentions,                               *)
LEMMA MentionedWithin ==
  ASSUME Facts, phase = "done", NEW i \in Positions, NEW v \in VRegs, v \in Mentions(fn.code[i])
  PROVE  Valid(v) /\ start[v] <= i /\ i <= end[v]
<1>1. i < Len(fn.code) + 1 /\ i \in Nat
  BY FunctionType DEF Facts, Typed
<1>2. QED
  BY <1>1 DEF Facts, RangeInv, Holds, Valid

(* and the positions at which its value is wanted.                          *)
LEMMA WantedWithin ==
  ASSUME Facts, phase = "done", NEW i \in Positions, NEW v \in VRegs, <<i, v>> \in Wanted(fn)
  PROVE  Valid(v) /\ start[v] <= i /\ i <= end[v]
<1> DEFINE places == {k \in Positions : <<k, v>> \in Wanted(fn)}
           mentions == Promise!MentionsOf(fn, v)
           loops == Promise!Loops(fn)
<1>1. fn \in Functions /\ WellFormed(fn)
  BY TextAssumption DEF Facts, Typed
<1>2. WantedInRange(fn, Wanted(fn))
  BY <1>1 DEF WellFormed
<1>3. i \in places
  OBVIOUS
<1>4. mentions = MentionsOf(fn, v) /\ loops = Loops(fn)
  BY SameText DEF Promise!MentionsOf, MentionsOf, Promise!Loops, Loops
<1>5. \A first, last : Promise!Covers(mentions, loops, first, last)
                        <=> Covers(MentionsOf(fn, v), Loops(fn), first, last)
  BY Zenon, <1>4 DEF Promise!Covers, Covers
<1>6. /\ mentions # {}
      /\ \A first, last \in Positions :
           Promise!Covers(mentions, loops, first, last) => places \subseteq first..last
  <2>1. /\ MentionsOf(fn, v) # {}
        /\ \A first, last \in Positions :
             Covers(MentionsOf(fn, v), Loops(fn), first, last) => places \subseteq first..last
    BY <1>2, <1>3 DEF WantedInRange
  <2> QED
    <3> HIDE DEF mentions, loops, places
    <3> QED
      BY <2>1, <1>4, <1>5
<1>7. i \in Promise!LiveRange(fn, v)
  <2> HIDE DEF mentions, loops, places
  <2>1. \A first, last \in Positions :
          Promise!Covers(mentions, loops, first, last) => first <= i /\ i <= last
    BY <1>3, <1>6
  <2>2. QED
    BY <1>6, <2>1 DEF Promise!LiveRange, Promise!Text, mentions, loops
<1>8. QED
  BY <1>7, LiveWithinRange
-----------------------------------------------------------------------------
(***************************************************************************)
(* THE PLACES                                                               *)
(*                                                                         *)
(* A value that is wanted shares its place with no register the instruction *)
(* mentions, and survives a call.                                           *)
(***************************************************************************)
LEMMA WantedApart ==
  ASSUME Facts, phase = "done", NEW i \in Positions, NEW v \in VRegs, <<i, v>> \in Wanted(fn),
         NEW d \in VRegs, d \in Mentions(fn.code[i]), v # d, assigned[v] # NoReg
  PROVE  assigned[v] # assigned[d]
<1>1. /\ start[v] <= i /\ i <= end[v] /\ start[d] <= i /\ i <= end[d]
  BY MentionedWithin, WantedWithin
<1>2. start[v] \in Nat /\ end[v] \in Nat /\ start[d] \in Nat /\ end[d] \in Nat
  BY DEF Facts, Typed, TypeOK
<1>3. Overlap(v, d)
  BY <1>1, <1>2 DEF Overlap
<1>4. QED
  BY <1>3 DEF Facts, NoInterference

(* A value that is wanted at a call is in a register the callee keeps       *)
(* (regalloc.c:246-272).                                                    *)
LEMMA WantedSurvives ==
  ASSUME Facts, phase = "done", NEW i \in Positions, NEW v \in VRegs, <<i, v>> \in Wanted(fn),
         fn.code[i].op = "CALL", assigned[v] # NoReg
  PROVE  assigned[v] \in Saveable
<1>1. SpansCall(v)
  BY WantedWithin DEF SpansCall
<1>2. QED
  BY <1>1 DEF Facts, CallSafe

(* The frame the prologue makes is large enough for the locals.             *)
LEMMA FrameHoldsLocals ==
  ASSUME Typed
  PROVE  FrameSize \in Nat /\ fn.stack \in Nat /\ FrameSize >= fn.stack
<1>1. /\ LocalStack(fn) \in Nat /\ fn.stack \in Nat /\ LocalStack(fn) >= fn.stack
      /\ saves \in Nat /\ spills \in Nat
  BY FunctionType DEF Typed, TypeOK
<1> DEFINE total == LocalStack(fn) + 8 * saves + 8 * spills
<1>2. total \in Nat /\ total >= fn.stack
  BY <1>1
<1>3. FrameSize = IF AlignUp16(total) < 32 THEN 32 ELSE AlignUp16(total)
  BY DEF FrameSize
<1> HIDE DEF total
<1>4. AlignUp16(total) \in Nat /\ AlignUp16(total) >= total
  BY <1>2, AlignUp16Type
<1>5. QED
  BY <1>1, <1>2, <1>3, <1>4

(* Where the frame keeps what is saved and what is spilled                  *)
LEMMA Laid ==
  ASSUME Facts, phase = "done"
  PROVE  /\ \A r \in SavedRegs :
              saveSlot[r] \in Int /\ saveSlot[r] + 8 <= -fn.stack /\ -FrameSize <= saveSlot[r]
         /\ \A v \in VRegs : Spilled(v) =>
              SlotOf(v) \in Int /\ SlotOf(v) + 8 <= -fn.stack /\ -FrameSize <= SlotOf(v)
         /\ \A r, q \in SavedRegs : r # q =>
              saveSlot[r] + 8 <= saveSlot[q] \/ saveSlot[q] + 8 <= saveSlot[r]
         /\ \A v, w \in VRegs : Spilled(v) /\ Spilled(w) /\ v # w =>
              SlotOf(v) + 8 <= SlotOf(w) \/ SlotOf(w) + 8 <= SlotOf(v)
         /\ \A r \in SavedRegs, v \in VRegs : Spilled(v) =>
              saveSlot[r] + 8 <= SlotOf(v) \/ SlotOf(v) + 8 <= saveSlot[r]
<1>1. /\ fn.stack \in Nat /\ saveSlot \in [Registers -> Int] /\ spillSlot \in [VRegs -> Int]
      /\ FrameSize \in Nat
  BY FunctionType, FrameHoldsLocals DEF Facts, Typed, TypeOK
<1>2. /\ \A s \in Slots : s[3] + 8 <= -fn.stack /\ s[3] >= -FrameSize
      /\ \A s, t \in Slots : s # t => s[3] + 8 <= t[3] \/ t[3] + 8 <= s[3]
  BY DEF Facts, FrameSound
<1>3. \A r \in SavedRegs : <<"save", r, saveSlot[r]>> \in Slots /\ saveSlot[r] \in Int
  BY <1>1 DEF Slots, SavedRegs, Saveable, Registers
<1>4. \A v \in VRegs : Spilled(v) => <<"spill", v, spillSlot[v]>> \in Slots /\ spillSlot[v] \in Int
  BY <1>1 DEF Slots
<1>5. \A v \in VRegs : Spilled(v) =>
        spillSlot[v] + 8 <= -fn.stack /\ -FrameSize <= spillSlot[v] /\ SlotOf(v) = spillSlot[v]
  <2> SUFFICES ASSUME NEW v \in VRegs, Spilled(v)
               PROVE  /\ spillSlot[v] + 8 <= -fn.stack /\ -FrameSize <= spillSlot[v]
                      /\ SlotOf(v) = spillSlot[v]
    OBVIOUS
  <2>1. spillSlot[v] \in Int /\ spillSlot[v] + 8 <= -fn.stack /\ -FrameSize <= spillSlot[v]
    BY <1>1, <1>2, <1>4
  <2>2. spillSlot[v] # 0
    BY <1>1, <2>1
  <2>3. QED
    BY <2>1, <2>2 DEF SlotOf
<1>6. \A r \in SavedRegs : saveSlot[r] + 8 <= -fn.stack /\ -FrameSize <= saveSlot[r]
  BY <1>1, <1>2, <1>3
<1>7. \A r, q \in SavedRegs : r # q => saveSlot[r] + 8 <= saveSlot[q] \/ saveSlot[q] + 8 <= saveSlot[r]
  <2> SUFFICES ASSUME NEW r \in SavedRegs, NEW q \in SavedRegs, r # q
               PROVE  saveSlot[r] + 8 <= saveSlot[q] \/ saveSlot[q] + 8 <= saveSlot[r]
    OBVIOUS
  <2>1. <<"save", r, saveSlot[r]>> # <<"save", q, saveSlot[q]>>
    OBVIOUS
  <2>2. QED
    BY <1>2, <1>3, <2>1
<1>8. \A v, w \in VRegs : Spilled(v) /\ Spilled(w) /\ v # w =>
        spillSlot[v] + 8 <= spillSlot[w] \/ spillSlot[w] + 8 <= spillSlot[v]
  <2> SUFFICES ASSUME NEW v \in VRegs, NEW w \in VRegs, Spilled(v), Spilled(w), v # w
               PROVE  spillSlot[v] + 8 <= spillSlot[w] \/ spillSlot[w] + 8 <= spillSlot[v]
    OBVIOUS
  <2>1. <<"spill", v, spillSlot[v]>> # <<"spill", w, spillSlot[w]>>
    OBVIOUS
  <2>2. QED
    BY <1>2, <1>4, <2>1
<1>9. \A r \in SavedRegs, v \in VRegs : Spilled(v) =>
        saveSlot[r] + 8 <= spillSlot[v] \/ spillSlot[v] + 8 <= saveSlot[r]
  <2> SUFFICES ASSUME NEW r \in SavedRegs, NEW v \in VRegs, Spilled(v)
               PROVE  saveSlot[r] + 8 <= spillSlot[v] \/ spillSlot[v] + 8 <= saveSlot[r]
    OBVIOUS
  <2>1. <<"save", r, saveSlot[r]>> # <<"spill", v, spillSlot[v]>>
    OBVIOUS
  <2>2. QED
    BY <1>2, <1>3, <1>4, <2>1
<1>10. QED
  BY <1>3, <1>4, <1>5, <1>6, <1>7, <1>8, <1>9

(* Locals lie above all of that, eight bytes or more apart.                 *)
LEMMA LocalsAbove ==
  ASSUME Typed
  PROVE  /\ \A o \in LocalOffsets : o \in Int /\ -fn.stack <= o
         /\ \A o, p \in LocalOffsets : o # p => o + 8 <= p \/ p + 8 <= o
<1>1. LocalsApart(fn)
  BY TextAssumption DEF Typed, WellFormed
<1>2. \A o \in LocalOffsets : \E i \in Positions : IsLocal(fn.code[i]) /\ o = fn.code[i].offset
  BY DEF LocalOffsets, InstAt
<1>3. fn.stack \in Nat
  BY FunctionType DEF Typed
<1>4. \A o \in LocalOffsets : o \in Int /\ -fn.stack <= o
  BY <1>1, <1>2, <1>3 DEF LocalsApart
<1>5. \A o, p \in LocalOffsets : o # p => o + 8 <= p \/ p + 8 <= o
  BY <1>1, <1>2 DEF LocalsApart
<1>6. QED
  BY <1>4, <1>5

(* Eight bytes that are written are whole, and so are those apart from them. *)
LEMMA WrittenThere ==
  ASSUME NEW m, NEW o \in DOMAIN m, NEW t
  PROVE  DOMAIN Written(m, o, t) = DOMAIN m /\ Written(m, o, t)[o] = t
BY DEF Written

(* Bytes apart from them hold what they held.                               *)
LEMMA WrittenElsewhere ==
  ASSUME NEW m, NEW o \in Int, NEW t, NEW p \in DOMAIN m, p \in Int, o + 8 <= p \/ p + 8 <= o
  PROVE  Written(m, o, t)[p] = m[p]
<1>1. p # o /\ ~(o - 8 < p /\ p < o + 8)
  OBVIOUS
<1>2. QED
  BY <1>1 DEF Written

(* Whatever an instruction writes to a spilled register's slot, the locals, *)
(* what is saved and the other spilled registers keep their places.         *)
LEMMA SpillLeaves ==
  ASSUME Facts, phase = "done", DOMAIN memory = Offsets,
         NEW d \in VRegs, Spilled(d), NEW t, memory' = Written(memory, SlotOf(d), t)
  PROVE  /\ DOMAIN memory' = Offsets
         /\ memory'[SlotOf(d)] = t
         /\ \A o \in LocalOffsets : memory'[o] = memory[o]
         /\ \A r \in SavedRegs : memory'[saveSlot[r]] = memory[saveSlot[r]]
         /\ \A v \in VRegs : Spilled(v) /\ v # d => memory'[SlotOf(v)] = memory[SlotOf(v)]
<1>1. /\ \A v \in VRegs : Spilled(v) => SlotOf(v) \in Offsets /\ SlotOf(v) \in Int
      /\ \A r \in SavedRegs : saveSlot[r] \in Offsets /\ saveSlot[r] \in Int
      /\ \A o \in LocalOffsets : o \in Offsets /\ o \in Int
  BY Laid, LocalsAbove DEF Facts, Offsets, InRegister, Spilled
<1>2. SlotOf(d) + 8 <= -fn.stack /\ fn.stack \in Nat
  BY Laid, FunctionType DEF Facts, Typed
<1>3. DOMAIN memory' = Offsets /\ memory'[SlotOf(d)] = t
  BY <1>1, WrittenThere
<1>4. ASSUME NEW o \in LocalOffsets PROVE memory'[o] = memory[o]
  <2>1. SlotOf(d) + 8 <= o
    BY <1>1, <1>2, LocalsAbove DEF Facts
  <2>2. QED
    BY <1>1, <2>1, WrittenElsewhere
<1>5. ASSUME NEW r \in SavedRegs PROVE memory'[saveSlot[r]] = memory[saveSlot[r]]
  <2>1. saveSlot[r] + 8 <= SlotOf(d) \/ SlotOf(d) + 8 <= saveSlot[r]
    BY Laid
  <2>2. QED
    BY <1>1, <2>1, WrittenElsewhere
<1>6. ASSUME NEW v \in VRegs, Spilled(v), v # d PROVE memory'[SlotOf(v)] = memory[SlotOf(v)]
  <2>1. SlotOf(v) + 8 <= SlotOf(d) \/ SlotOf(d) + 8 <= SlotOf(v)
    BY <1>6, Laid
  <2>2. QED
    BY <1>1, <1>6, <2>1, WrittenElsewhere
<1>7. QED
  BY <1>3, <1>4, <1>5, <1>6

(* and so for a store to a local.                                           *)
LEMMA LocalLeaves ==
  ASSUME Facts, phase = "done", DOMAIN memory = Offsets,
         NEW l \in LocalOffsets, NEW t, memory' = Written(memory, l, t)
  PROVE  /\ DOMAIN memory' = Offsets
         /\ memory'[l] = t
         /\ \A o \in LocalOffsets : o # l => memory'[o] = memory[o]
         /\ \A r \in SavedRegs : memory'[saveSlot[r]] = memory[saveSlot[r]]
         /\ \A v \in VRegs : Spilled(v) => memory'[SlotOf(v)] = memory[SlotOf(v)]
<1>1. /\ \A v \in VRegs : Spilled(v) => SlotOf(v) \in Offsets /\ SlotOf(v) \in Int
      /\ \A r \in SavedRegs : saveSlot[r] \in Offsets /\ saveSlot[r] \in Int
      /\ \A o \in LocalOffsets : o \in Offsets /\ o \in Int
  BY Laid, LocalsAbove DEF Facts, Offsets, InRegister, Spilled
<1>2. -fn.stack <= l /\ fn.stack \in Nat
  BY LocalsAbove, FunctionType DEF Facts, Typed
<1>3. DOMAIN memory' = Offsets /\ memory'[l] = t
  BY <1>1, WrittenThere
<1>4. ASSUME NEW o \in LocalOffsets, o # l PROVE memory'[o] = memory[o]
  <2>1. l + 8 <= o \/ o + 8 <= l
    BY <1>4, LocalsAbove DEF Facts
  <2>2. QED
    BY <1>1, <2>1, WrittenElsewhere
<1>5. ASSUME NEW r \in SavedRegs PROVE memory'[saveSlot[r]] = memory[saveSlot[r]]
  <2>1. saveSlot[r] + 8 <= l
    BY <1>1, <1>2, Laid
  <2>2. QED
    BY <1>1, <2>1, WrittenElsewhere
<1>6. ASSUME NEW v \in VRegs, Spilled(v) PROVE memory'[SlotOf(v)] = memory[SlotOf(v)]
  <2>1. SlotOf(v) + 8 <= l
    BY <1>1, <1>2, <1>6, Laid
  <2>2. QED
    BY <1>1, <1>6, <2>1, WrittenElsewhere
<1>7. QED
  BY <1>3, <1>4, <1>5, <1>6

(* What a call keeps on the stack lies below the frame, each argument eight *)
(* bytes from the next (codegen_x86.c:485-500).                             *)
LEMMA ArgumentsBelow ==
  ASSUME Facts, phase = "done", NEW i \in Positions, NEW k \in OnStack(i)
  PROVE  /\ ArgumentSlot(i, k) \in Offsets /\ ArgumentSlot(i, k) \in Int
         /\ ArgumentSlot(i, k) + 8 <= -FrameSize
         /\ \A j \in OnStack(i) : j # k =>
              ArgumentSlot(i, j) + 8 <= ArgumentSlot(i, k) \/ ArgumentSlot(i, k) + 8 <= ArgumentSlot(i, j)
<1> DEFINE n == Len(fn.code[i].args)
<1>1. n \in Nat /\ DOMAIN fn.code[i].args = 1..n
  BY TextAssumption DEF Facts, Typed, WellFormed, OperandsExist
<1>2. Len(ArgRegs) = 6 /\ DOMAIN ArgRegs = 1..6
  BY DEF ArgRegs
<1>3. OnStack(i) = {m \in 1..n : m > 6}
  BY <1>1, <1>2 DEF OnStack, InstAt
<1>4. ArgumentSpace(i) = AlignUp16(8 * (n - 6))
  BY <1>2 DEF ArgumentSpace, InstAt
<1> HIDE DEF n
<1>5. 8 * (n - 6) \in Nat
  BY <1>1, <1>3
<1>6. ArgumentSpace(i) \in Nat /\ ArgumentSpace(i) >= 8 * (n - 6)
  BY <1>4, <1>5, AlignUp16Type
<1>7. FrameSize \in Nat
  BY FrameHoldsLocals DEF Facts
<1>8. \A m \in OnStack(i) : ArgumentSlot(i, m) = 8 * (m - 7) - FrameSize - ArgumentSpace(i)
  <2> SUFFICES ASSUME NEW m \in OnStack(i)
               PROVE  ArgumentSlot(i, m) = 8 * (m - 7) - FrameSize - ArgumentSpace(i)
    OBVIOUS
  <2>1. m \in Int /\ m - 6 - 1 = m - 7
    BY <1>1, <1>3
  <2>2. QED
    BY <1>2, <2>1 DEF ArgumentSlot
<1>9. ArgumentSlot(i, k) \in Offsets
  <2> DEFINE slots(m) == {ArgumentSlot(m, j) : j \in OnStack(m)}
  <2>1. ArgumentSlot(i, k) \in slots(i) /\ slots(i) \in {slots(m) : m \in Positions}
    OBVIOUS
  <2>2. UNION {slots(m) : m \in Positions} \subseteq Offsets
    BY Zenon DEF Offsets
  <2>3. QED
    BY <2>1, <2>2
<1>10. \A m \in OnStack(i) : m \in Int /\ m <= n /\ ArgumentSlot(i, m) \in Int
  <2> SUFFICES ASSUME NEW m \in OnStack(i)
               PROVE  m \in Int /\ m <= n /\ ArgumentSlot(i, m) \in Int
    OBVIOUS
  <2>1. m \in Int /\ m <= n
    BY <1>1, <1>3
  <2>2. QED
    BY <1>6, <1>7, <1>8, <2>1
<1>11. ArgumentSlot(i, k) + 8 <= -FrameSize
  <2>1. 8 * (k - 7) + 8 <= 8 * (n - 6)
    BY <1>1, <1>10
  <2>2. QED
    BY <1>1, <1>6, <1>7, <1>8, <1>10, <2>1
<1>12. ASSUME NEW j \in OnStack(i), j # k
       PROVE  \/ ArgumentSlot(i, j) + 8 <= ArgumentSlot(i, k)
              \/ ArgumentSlot(i, k) + 8 <= ArgumentSlot(i, j)
  <2>1. j + 1 <= k \/ k + 1 <= j
    BY <1>10, <1>12
  <2>2. /\ ArgumentSlot(i, j) = 8 * (j - 7) - FrameSize - ArgumentSpace(i)
        /\ ArgumentSlot(i, k) = 8 * (k - 7) - FrameSize - ArgumentSpace(i)
    BY <1>8
  <2>3. j \in Int /\ k \in Int /\ FrameSize \in Int /\ ArgumentSpace(i) \in Int
    BY <1>6, <1>7, <1>10
  <2>4. PICK base : base = FrameSize + ArgumentSpace(i)
    OBVIOUS
  <2>5. /\ base \in Int
        /\ ArgumentSlot(i, j) = 8 * (j - 7) - base /\ ArgumentSlot(i, k) = 8 * (k - 7) - base
    BY <2>2, <2>3, <2>4
  <2>6. QED
    BY <2>1, <2>3, <2>5
<1>13. QED
  BY <1>9, <1>10, <1>11, <1>12

(* so that storing one leaves the frame and the others be.                  *)
LEMMA ArgumentLeaves ==
  ASSUME Facts, phase = "done", DOMAIN memory = Offsets, NEW i \in Positions, NEW k \in OnStack(i),
         NEW t, memory' = Written(memory, ArgumentSlot(i, k), t)
  PROVE  /\ DOMAIN memory' = Offsets
         /\ memory'[ArgumentSlot(i, k)] = t
         /\ \A o \in LocalOffsets : memory'[o] = memory[o]
         /\ \A r \in SavedRegs : memory'[saveSlot[r]] = memory[saveSlot[r]]
         /\ \A v \in VRegs : Spilled(v) => memory'[SlotOf(v)] = memory[SlotOf(v)]
         /\ \A j \in OnStack(i) : j # k => memory'[ArgumentSlot(i, j)] = memory[ArgumentSlot(i, j)]
<1>0. PICK a : a = ArgumentSlot(i, k)
  OBVIOUS
<1>1. /\ a \in Offsets /\ a \in Int /\ a + 8 <= -FrameSize
      /\ memory' = Written(memory, a, t)
  BY <1>0, ArgumentsBelow
<1>2. FrameSize \in Nat /\ fn.stack \in Nat /\ FrameSize >= fn.stack
  BY FrameHoldsLocals DEF Facts
<1>3. DOMAIN memory' = Offsets /\ memory'[a] = t
  BY <1>1, WrittenThere
<1>4. ASSUME NEW o \in LocalOffsets PROVE memory'[o] = memory[o]
  <2>1. o \in Int /\ o \in Offsets /\ -fn.stack <= o
    BY LocalsAbove DEF Facts, Offsets
  <2>2. a + 8 <= o
    BY <1>1, <1>2, <2>1
  <2>3. QED
    BY <1>1, <2>1, <2>2, WrittenElsewhere
<1>5. ASSUME NEW r \in SavedRegs PROVE memory'[saveSlot[r]] = memory[saveSlot[r]]
  <2>1. saveSlot[r] \in Int /\ saveSlot[r] \in Offsets /\ -FrameSize <= saveSlot[r]
    BY Laid DEF Offsets
  <2>2. a + 8 <= saveSlot[r]
    BY <1>1, <1>2, <2>1
  <2>3. QED
    BY <1>1, <2>1, <2>2, WrittenElsewhere
<1>6. ASSUME NEW v \in VRegs, Spilled(v) PROVE memory'[SlotOf(v)] = memory[SlotOf(v)]
  <2>0. PICK o : o = SlotOf(v)
    OBVIOUS
  <2>1. o \in Int /\ o \in Offsets /\ -FrameSize <= o
    BY <1>6, <2>0, Laid DEF Offsets, InRegister, Spilled
  <2>2. a + 8 <= o
    BY <1>1, <1>2, <2>1
  <2>3. memory'[o] = memory[o]
    BY <1>1, <2>1, <2>2, WrittenElsewhere
  <2>4. QED
    BY <2>0, <2>3
<1>7. ASSUME NEW j \in OnStack(i), j # k
      PROVE  memory'[ArgumentSlot(i, j)] = memory[ArgumentSlot(i, j)]
  <2>1. /\ ArgumentSlot(i, j) \in Int /\ ArgumentSlot(i, j) \in Offsets
        /\ a + 8 <= ArgumentSlot(i, j) \/ ArgumentSlot(i, j) + 8 <= a
    BY <1>0, <1>7, ArgumentsBelow
  <2>2. QED
    BY <1>1, <2>1, WrittenElsewhere
<1>8. QED
  BY <1>0, <1>3, <1>4, <1>5, <1>6, <1>7

(* A register that is handed out is one of the machine's, is known to the   *)
(* prologue if a callee keeps it, and is none of the arguments' or rax.     *)
LEMMA RegisterKinds ==
  /\ Registers \subseteq Saveable \cup Clobbered
  /\ Saveable \cap Clobbered = {}
  /\ Rax \in Clobbered /\ Rax \notin Registers /\ Target \in Clobbered
  /\ \A k \in DOMAIN ArgRegs : ArgRegs[k] \in Clobbered /\ ArgRegs[k] \notin Registers
BY MachineRegistersAssumption DEF Registers, Saveable, Clobbered

(* A value's register is one of the allocator's, and the prologue knows of  *)
(* it.                                                                      *)
LEMMA AssignedKinds ==
  ASSUME Facts, NEW v \in VRegs, assigned[v] # NoReg
  PROVE  assigned[v] \in Registers /\ assigned[v] \in used
BY DEF Facts, Typed, TypeOK, ScanInv, UsedIsTracked
-----------------------------------------------------------------------------
(***************************************************************************)
(* THE MACHINE                                                              *)
(*                                                                         *)
(* The value of every register that is still wanted is in its place, what   *)
(* the caller kept in a register is there or in the frame, the argument     *)
(* registers hold the parameters until something jumps or calls, and the    *)
(* arguments passed so far are where the callee will look for them.         *)
(***************************************************************************)
InPlace(v) == IF assigned[v] # NoReg THEN regs[assigned[v]] ELSE memory[SlotOf(v)]
Started == stage # "allocate"
Underway == stage \in {"run", "passing", "calling"}
AtEntry(i) == \A k \in 1..i : fn.code[k].op # "LABEL" /\ (k < i => fn.code[k].op # "CALL")

StageInv ==
  /\ stage \in {"allocate", "run", "passing", "calling", "returned"}
  /\ DOMAIN value = VRegs
  /\ ~Started => pc = 1
  /\ Started =>
       /\ phase = "done" /\ pc \in Positions
       /\ DOMAIN memory = Offsets /\ DOMAIN regs = Saveable \cup Clobbered
       /\ DOMAIN locals = LocalOffsets
  /\ stage \in {"passing", "calling"} => Here.op = "CALL"
  /\ stage = "passing" => passed \in 0..Len(Here.args)
FrameKept ==
  Started => /\ \A o \in LocalOffsets : memory[o] = locals[o]
             /\ \A r \in SavedRegs : memory[saveSlot[r]] = Caller(r)
CalleeKept == Underway => \A r \in Saveable \ used : regs[r] = Caller(r)
ParametersThere ==
  stage = "run" /\ AtEntry(pc) => \A k \in DOMAIN ArgRegs : regs[ArgRegs[k]] = Incoming(k)
ValuesPlaced ==
  Underway => \A v \in VRegs : <<pc, v>> \in Wanted(fn) => InPlace(v) = value[v] /\ value[v] # Unset

ArgumentsSoFar ==
  stage = "passing" =>
    \A k \in DOMAIN Here.args : k <= passed => Passed(k) = Meaning(Here.args[k])

MachineInv ==
  /\ StageInv /\ FrameKept /\ CalleeKept /\ ParametersThere /\ ValuesPlaced
  /\ ArgumentsSoFar /\ ArgumentsDelivered /\ CallerRestored /\ ValueReturned

(* What a register's place holds is what reading it gives, and a constant   *)
(* means itself.                                                            *)
LEMMA Reading ==
  ASSUME MachineInv, Typed, Underway, NEW op, op.vreg \in Int,
         op.vreg > 0 => op.vreg \in Reads(Here)
  PROVE  Loaded(op) = Meaning(op)
<1>1. pc \in Positions
  BY DEF MachineInv, StageInv, Started, Underway
<1>2. CASE op.vreg > 0
  <2>1. op.vreg \in VRegs /\ <<pc, op.vreg>> \in Wanted(fn)
    BY <1>1, <1>2, Mentioned, Flow DEF Here
  <2>2. InPlace(op.vreg) = value[op.vreg]
    BY <2>1 DEF MachineInv, ValuesPlaced
  <2>3. op.vreg \in Int
    BY <2>1
  <2>4. QED
    BY <1>2, <2>2, <2>3 DEF Loaded, Meaning, InPlace, InRegister
<1>3. CASE ~(op.vreg > 0)
  BY <1>3 DEF Loaded, Meaning
<1>4. QED
  BY <1>2, <1>3

(* A value goes to the place of one register, and every other that is       *)
(* wanted stays where it is.                                                *)
LEMMA StoredKeeps ==
  ASSUME Facts, phase = "done", DOMAIN memory = Offsets, DOMAIN regs = Saveable \cup Clobbered,
         NEW i \in Positions, NEW d \in Int, d > 0 => d \in VRegs /\ d \in Mentions(fn.code[i]),
         NEW t, Stored(d, t), UNCHANGED vars
  PROVE  /\ DOMAIN memory' = Offsets /\ DOMAIN regs' = Saveable \cup Clobbered
         /\ d > 0 => InPlace(d)' = t
         /\ \A v \in VRegs : <<i, v>> \in Wanted(fn) /\ v # d => InPlace(v)' = InPlace(v)
         /\ \A o \in LocalOffsets : memory'[o] = memory[o]
         /\ \A r \in SavedRegs : memory'[saveSlot[r]] = memory[saveSlot[r]]
         /\ \A r \in Saveable \ used : regs'[r] = regs[r]
         /\ \A k \in DOMAIN ArgRegs : regs'[ArgRegs[k]] = regs[ArgRegs[k]]
<1>1. UNCHANGED <<fn, used, assigned, saveSlot, spillSlot>> /\ \A v : SlotOf(v)' = SlotOf(v)
  BY SameAllocation
<1>2. CASE d > 0 /\ assigned[d] # NoReg
  <2>1. regs' = [regs EXCEPT ![assigned[d]] = t] /\ memory' = memory
    BY <1>2 DEF Stored, InRegister
  <2>2. d \in VRegs /\ assigned[d] \in Registers /\ assigned[d] \in used /\ assigned[d] \in DOMAIN regs
    BY <1>2, AssignedKinds, RegisterKinds
  <2>3. \A v \in VRegs : <<i, v>> \in Wanted(fn) /\ v # d /\ assigned[v] # NoReg => assigned[v] # assigned[d]
    BY <1>2, WantedApart
  <2>4. DOMAIN regs' = DOMAIN regs /\ regs'[assigned[d]] = t /\ \A r : r # assigned[d] => regs'[r] = regs[r]
    BY <2>1, <2>2
  <2>5. InPlace(d)' = t
    BY <1>1, <1>2, <2>4 DEF InPlace
  <2>6. \A v \in VRegs : <<i, v>> \in Wanted(fn) /\ v # d => InPlace(v)' = InPlace(v)
    BY <1>1, <2>1, <2>3, <2>4 DEF InPlace
  <2>7. \A k \in DOMAIN ArgRegs : ArgRegs[k] # assigned[d]
    BY <2>2, RegisterKinds
  <2>8. QED
    BY <2>1, <2>2, <2>4, <2>5, <2>6, <2>7
<1>3. CASE d > 0 /\ assigned[d] = NoReg
  <2>1. regs' = regs /\ memory' = Written(memory, SlotOf(d), t)
    BY <1>3 DEF Stored, InRegister
  <2>2. d \in VRegs /\ Spilled(d)
    BY <1>3, MentionedWithin DEF Spilled
  <2>3. /\ DOMAIN memory' = Offsets /\ memory'[SlotOf(d)] = t
        /\ \A o \in LocalOffsets : memory'[o] = memory[o]
        /\ \A r \in SavedRegs : memory'[saveSlot[r]] = memory[saveSlot[r]]
        /\ \A v \in VRegs : Spilled(v) /\ v # d => memory'[SlotOf(v)] = memory[SlotOf(v)]
    BY <2>1, <2>2, SpillLeaves
  <2>4. InPlace(d)' = t
    BY <1>1, <1>3, <2>3 DEF InPlace
  <2>5. \A v \in VRegs : <<i, v>> \in Wanted(fn) /\ assigned[v] = NoReg => Spilled(v)
    BY WantedWithin DEF Spilled
  <2>6. \A v \in VRegs : <<i, v>> \in Wanted(fn) /\ v # d => InPlace(v)' = InPlace(v)
    BY <1>1, <2>1, <2>3, <2>5 DEF InPlace
  <2>7. QED
    BY <2>1, <2>3, <2>4, <2>6
<1>4. CASE ~(d > 0)
  <2>1. regs' = regs /\ memory' = memory
    BY <1>4 DEF Stored
  <2>2. \A v : InPlace(v)' = InPlace(v)
    BY <1>1, <2>1 DEF InPlace
  <2>3. QED
    BY <1>4, <2>1, <2>2
<1>5. QED
  BY <1>2, <1>3, <1>4

(* A jump lands on a label.                                                 *)
LEMMA LabelFound ==
  ASSUME Typed, NEW l, LabelPos(fn.code, l) \in Positions
  PROVE  fn.code[LabelPos(fn.code, l)].op = "LABEL"
<1> DEFINE there == {k \in DOMAIN fn.code : IsLabel(fn.code[k], l)}
<1>1. Len(fn.code) \in Nat /\ DOMAIN fn.code = 1..Len(fn.code)
  BY FunctionsAssumption DEF Typed
<1>2. there \subseteq Nat /\ there # {}
  BY <1>1 DEF LabelPos
<1>3. PICK k \in there : \A m \in there : ~(<<m, k>> \in OpToRel(<, Nat))
  BY <1>2, WFMin, NatLessThanWellFounded
<1>4. \A m \in there : ~(m < k) /\ m \in Nat /\ k \in Nat
  BY <1>2, <1>3 DEF OpToRel
<1>5. \A m \in DOMAIN fn.code : IsLabel(fn.code[m], l) => k <= m
  BY <1>4
<1>6. LabelPos(fn.code, l) = CHOOSE i \in DOMAIN fn.code :
        /\ IsLabel(fn.code[i], l)
        /\ \A j \in DOMAIN fn.code : IsLabel(fn.code[j], l) => i <= j
  BY <1>2 DEF LabelPos
<1>7. IsLabel(fn.code[LabelPos(fn.code, l)], l)
  BY <1>5, <1>6
<1>8. QED
  BY <1>7 DEF IsLabel

(* An instruction that is behind nothing but the function's first ones is   *)
(* reached from the one before it, which is such a one too and no call.     *)
LEMMA EntryBehind ==
  ASSUME Typed, NEW i \in Positions, NEW j \in GoesTo(fn, i), AtEntry(j)
  PROVE  j = i + 1 /\ AtEntry(i) /\ fn.code[i].op # "CALL"
<1>1. j \in Positions
  BY Flow
<1>2. CASE j = i + 1
  <2>1. i \in 1..j /\ i < j /\ \A k \in 1..i : k \in 1..j /\ (k < i => k < j)
    BY <1>1, <1>2
  <2>2. QED
    BY <1>2, <2>1 DEF AtEntry
<1>3. CASE j = LabelPos(fn.code, fn.code[i].label)
  <2>1. fn.code[j].op = "LABEL" /\ j \in 1..j
    BY <1>1, <1>3, LabelFound
  <2>2. QED
    BY <2>1 DEF AtEntry
<1>4. QED
  BY <1>2, <1>3 DEF GoesTo

(* What is wanted where an instruction goes to was wanted before it or is    *)
(* what it sets.                                                            *)
LEMMA HandedOn ==
  ASSUME Facts, MachineInv, Underway, UNCHANGED vars, pc' \in GoesTo(fn, pc),
         \A v \in VRegs : <<pc, v>> \in Wanted(fn) /\ v \notin Writes(Here) =>
           InPlace(v)' = InPlace(v) /\ value'[v] = value[v],
         \A v \in Writes(Here) : InPlace(v)' = value'[v] /\ value'[v] # Unset
  PROVE  pc' \in Positions' /\ ValuesPlaced'
<1>1. /\ fn' = fn /\ Wanted(fn)' = Wanted(fn)
  BY SameAllocation
<1>2. /\ pc \in Positions
      /\ \A v \in VRegs : <<pc, v>> \in Wanted(fn) => InPlace(v) = value[v] /\ value[v] # Unset
  BY DEF MachineInv, StageInv, ValuesPlaced, Underway, Started
<1>3. PICK j : j = pc'
  OBVIOUS
<1>4. /\ j \in Positions
      /\ \A v \in VRegs : <<j, v>> \in Wanted(fn) => <<pc, v>> \in Wanted(fn) \/ v \in Writes(Here)
  BY <1>2, <1>3, Flow DEF Facts, Here
<1>5. \A v \in VRegs : <<j, v>> \in Wanted(fn) => InPlace(v)' = value'[v] /\ value'[v] # Unset
  BY <1>2, <1>4
<1>6. \A v \in VRegs' : <<j, v>> \in Wanted(fn)' => InPlace(v)' = value'[v] /\ value'[v] # Unset
  BY <1>1, <1>5
<1>7. QED
  BY <1>1, <1>3, <1>4, <1>6 DEF ValuesPlaced, Unset, Tag

(* No step but those of the allocator touches its result.                   *)
THEOREM MachineUsesAllocator == MachineSpec => Spec
<1>1. MachineInit => Init
  BY DEF MachineInit
<1>2. [MachineNext]_allVars => [Next]_vars
  BY DEF MachineNext, allVars, Allocate, Prologue, Compute, NoEffect, StoreLocal, Branch,
         CompareAndBranch, BeginCall, PassArgument, EnterCallee, ReturnFromCall, ReturnValue
<1>3. QED
  BY <1>1, <1>2, PTL DEF MachineSpec, Spec
-----------------------------------------------------------------------------
(* Nothing runs while the allocator does (codegen_x86.c:87-88).             *)
LEMMA AllocateKeeps ==
  ASSUME MachineInv, Allocate
  PROVE  MachineInv'
<1>1. fn' = fn
  BY DEF Allocate, Next, ScanInstruction, RangesFound, ExtendOverLoop, SweepAgain, LoopsSettled,
         MarkCalls, AssignRegister, Spill, ScanFinished, PlaceSave, SavesPlaced,
         PlaceSpill, SpillsPlaced
<1>2. stage' = "allocate" /\ pc' = pc /\ value' = value /\ stage = "allocate"
  BY DEF Allocate, machine
<1>3. StageInv'
  BY <1>1, <1>2 DEF MachineInv, StageInv, Started
<1>4. QED
  BY <1>2, <1>3 DEF MachineInv, FrameKept, CalleeKept, ParametersThere, ValuesPlaced, Started, Underway,
                    ArgumentsSoFar, ArgumentsDelivered, CallerRestored, ValueReturned

(* Every slot of the prologue's saves is apart from the others and below    *)
(* the locals.                                                              *)
LEMMA SavesStayWhole ==
  ASSUME Facts, phase = "done"
  PROVE  /\ \A r \in SavedRegs : saveSlot[r] \in Offsets /\ SavedFrame[saveSlot[r]] = Caller(r)
         /\ \A o \in LocalOffsets : o \in Offsets /\ SavedFrame[o] = Unset
<1> DEFINE Reaching(p) == {k \in DOMAIN CalleeSaved :
                             /\ CalleeSaved[k] \in used
                             /\ saveSlot[CalleeSaved[k]] - 8 < p /\ p < saveSlot[CalleeSaved[k]] + 8}
           Last(p) == CHOOSE k \in Reaching(p) : \A j \in Reaching(p) : j <= k
<1>1. \A p \in Offsets :
        SavedFrame[p] = IF Reaching(p) = {} THEN Unset
                        ELSE IF saveSlot[CalleeSaved[Last(p)]] = p
                        THEN Caller(CalleeSaved[Last(p)]) ELSE Torn
  BY DEF SavedFrame
<1>2. \A k \in DOMAIN CalleeSaved : CalleeSaved[k] \in used => CalleeSaved[k] \in SavedRegs
  BY DEF SavedRegs, Saveable
<1>3. DOMAIN CalleeSaved \subseteq Int
  BY RegistersAssumption
<1> HIDE DEF Reaching
<1>4. ASSUME NEW r \in SavedRegs PROVE SavedFrame[saveSlot[r]] = Caller(r)
  <2>1. PICK k \in DOMAIN CalleeSaved : CalleeSaved[k] = r /\ r \in used
    BY DEF SavedRegs, Saveable
  <2>2. saveSlot[r] \in Int /\ saveSlot[r] \in Offsets
    BY Laid DEF Offsets
  <2>3. Reaching(saveSlot[r]) = {k}
    <3>1. k \in Reaching(saveSlot[r])
      BY <2>1, <2>2 DEF Reaching
    <3>2. ASSUME NEW j \in Reaching(saveSlot[r]) PROVE j = k
      <4>1. /\ j \in DOMAIN CalleeSaved /\ CalleeSaved[j] \in SavedRegs
            /\ saveSlot[CalleeSaved[j]] - 8 < saveSlot[r] /\ saveSlot[r] < saveSlot[CalleeSaved[j]] + 8
        BY <1>2 DEF Reaching
      <4>2. saveSlot[CalleeSaved[j]] \in Int
        BY <4>1, Laid
      <4>3. CalleeSaved[j] = r
        BY <2>2, <4>1, <4>2, Laid
      <4>4. QED
        BY <2>1, <4>1, <4>3, RegistersAssumption
    <3>3. QED
      BY <3>1, <3>2
  <2>4. Last(saveSlot[r]) = k
    BY <1>3, <2>1, <2>3
  <2>5. QED
    BY <1>1, <2>1, <2>2, <2>3, <2>4
<1>5. ASSUME NEW o \in LocalOffsets PROVE o \in Offsets /\ SavedFrame[o] = Unset
  <2>1. o \in Int /\ -fn.stack <= o /\ o \in Offsets /\ fn.stack \in Nat
    BY LocalsAbove, FunctionType DEF Facts, Typed, Offsets
  <2>2. ASSUME NEW k \in Reaching(o) PROVE FALSE
    <3>1. CalleeSaved[k] \in SavedRegs /\ o < saveSlot[CalleeSaved[k]] + 8
      BY <1>2 DEF Reaching
    <3>2. saveSlot[CalleeSaved[k]] \in Int /\ saveSlot[CalleeSaved[k]] + 8 <= -fn.stack
      BY <3>1, Laid
    <3>3. QED
      BY <2>1, <3>1, <3>2
  <2>3. QED
    BY <1>1, <2>1, <2>2
<1>6. QED
  BY <1>4, <1>5, Laid DEF Offsets

(* The prologue finds nothing wanted yet, and saves the registers to slots  *)
(* that are apart (codegen_x86.c:100-118).                                   *)
LEMMA PrologueKeeps ==
  ASSUME Facts, MachineInv, Prologue
  PROVE  MachineInv'
<1>1. /\ phase = "done" /\ stage = "allocate" /\ stage' = "run" /\ pc' = pc /\ value' = value
      /\ locals' = [o \in LocalOffsets |-> Unset] /\ memory' = SavedFrame
      /\ regs' = [r \in Saveable \cup Clobbered |->
                    IF r \in Saveable THEN Caller(r)
                    ELSE IF \E k \in DOMAIN ArgRegs : ArgRegs[k] = r
                    THEN Incoming(CHOOSE k \in DOMAIN ArgRegs : ArgRegs[k] = r)
                    ELSE Unset]
      /\ UNCHANGED vars
  BY DEF Prologue
<1>2. /\ UNCHANGED <<fn, phase, used, assigned, saveSlot>>
      /\ LocalOffsets' = LocalOffsets /\ SavedRegs' = SavedRegs /\ Offsets' = Offsets
      /\ Wanted(fn)' = Wanted(fn)
  BY <1>1, SameAllocation
<1>3. pc = 1 /\ DOMAIN value = VRegs /\ 1 \in Positions
  BY <1>1, NothingAtFirst DEF MachineInv, StageInv, Started, Facts
<1>4. StageInv'
  <2>1. DOMAIN SavedFrame = Offsets
    BY DEF SavedFrame
  <2>2. QED
    BY <1>1, <1>2, <1>3, <2>1 DEF StageInv, Started
<1>5. FrameKept'
  <2>1. /\ \A r \in SavedRegs : SavedFrame[saveSlot[r]] = Caller(r)
        /\ \A o \in LocalOffsets : SavedFrame[o] = Unset
    BY <1>1, SavesStayWhole
  <2>2. /\ \A r \in SavedRegs' : memory'[saveSlot'[r]] = Caller(r)
        /\ \A o \in LocalOffsets' : memory'[o] = locals'[o]
    BY <1>1, <1>2, <2>1
  <2>3. QED
    BY <2>2 DEF FrameKept, Caller, Tag
<1>6. CalleeKept'
  <2>1. \A r \in Saveable : regs'[r] = Caller(r)
    BY <1>1
  <2>2. QED
    BY <2>1 DEF CalleeKept, Caller, Tag
<1>7. ParametersThere'
  <2>1. \A k \in DOMAIN ArgRegs : regs'[ArgRegs[k]] = Incoming(k)
    <3> SUFFICES ASSUME NEW k \in DOMAIN ArgRegs PROVE regs'[ArgRegs[k]] = Incoming(k)
      OBVIOUS
    <3>1. ArgRegs[k] \in Clobbered /\ ArgRegs[k] \notin Saveable
      BY RegisterKinds
    <3>2. \A j \in DOMAIN ArgRegs : ArgRegs[j] = ArgRegs[k] => j = k
      BY DEF ArgRegs
    <3>3. k = CHOOSE j \in DOMAIN ArgRegs : ArgRegs[j] = ArgRegs[k]
      BY <3>2
    <3>4. QED
      BY <1>1, <3>1, <3>3
  <2>2. QED
    BY <2>1 DEF ParametersThere, Incoming, Tag
<1>8. ValuesPlaced'
  <2>1. \A v \in VRegs : <<pc, v>> \notin Wanted(fn)
    BY <1>3, NothingAtFirst DEF Facts
  <2>2. \A v \in VRegs' : <<pc', v>> \notin Wanted(fn)'
    BY <1>1, <1>2, <2>1
  <2>3. QED
    BY <2>2 DEF ValuesPlaced
<1>9. QED
  BY <1>1, <1>4, <1>5, <1>6, <1>7, <1>8 DEF MachineInv, ArgumentsSoFar, ArgumentsDelivered, CallerRestored, ValueReturned

(* Moving on: what every instruction but a return leaves to show.           *)
LEMMA MovedOn ==
  ASSUME Facts, MachineInv, UNCHANGED vars, Underway, stage' = "run",
         pc' \in Positions', ValuesPlaced', ParametersThere',
         DOMAIN value' = DOMAIN value, DOMAIN locals' = DOMAIN locals,
         DOMAIN memory' = Offsets, DOMAIN regs' = Saveable \cup Clobbered,
         \A o \in LocalOffsets : memory'[o] = locals'[o],
         \A r \in SavedRegs : memory'[saveSlot[r]] = memory[saveSlot[r]],
         \A r \in Saveable \ used : regs'[r] = regs[r]
  PROVE  MachineInv'
<1>1. /\ UNCHANGED <<fn, phase, used, saveSlot>>
      /\ LocalOffsets' = LocalOffsets /\ SavedRegs' = SavedRegs /\ Offsets' = Offsets
  BY SameAllocation
<1>2. phase = "done" /\ DOMAIN value = VRegs /\ DOMAIN locals = LocalOffsets
  BY DEF MachineInv, StageInv, Started, Underway
<1>3. StageInv'
  BY <1>1, <1>2 DEF StageInv, Started
<1>4. FrameKept'
  <2>1. \A r \in SavedRegs : memory[saveSlot[r]] = Caller(r)
    BY DEF MachineInv, FrameKept, Started, Underway
  <2>2. /\ \A r \in SavedRegs' : memory'[saveSlot'[r]] = Caller(r)
        /\ \A o \in LocalOffsets' : memory'[o] = locals'[o]
    BY <1>1, <2>1
  <2>3. QED
    BY <2>2 DEF FrameKept, Caller, Tag
<1>5. CalleeKept'
  <2>1. \A r \in Saveable \ used : regs[r] = Caller(r)
    BY DEF MachineInv, CalleeKept
  <2>2. \A r \in Saveable \ used' : regs'[r] = Caller(r)
    BY <1>1, <2>1
  <2>3. QED
    BY <2>2 DEF CalleeKept, Caller, Tag
<1>6. QED
  BY <1>3, <1>4, <1>5 DEF MachineInv, ArgumentsSoFar, ArgumentsDelivered, CallerRestored, ValueReturned

(* The argument registers stay as they are along the function's first       *)
(* instructions.                                                            *)
LEMMA ParametersStay ==
  ASSUME Facts, MachineInv, UNCHANGED vars, Underway, stage = "run" \/ Here.op = "CALL",
         \/ pc' \in GoesTo(fn, pc)
         \/ pc + 1 \in GoesTo(fn, pc) /\ pc' \in GoesTo(fn, pc + 1),
         Here.op # "CALL" => \A k \in DOMAIN ArgRegs : regs'[ArgRegs[k]] = regs[ArgRegs[k]]
  PROVE  ParametersThere'
<1>1. fn' = fn /\ pc \in Positions
  BY SameAllocation DEF MachineInv, StageInv, Started, Underway
<1>2. PICK j : j = pc'
  OBVIOUS
<1>3. ASSUME AtEntry(j) PROVE AtEntry(pc) /\ Here.op # "CALL"
  <2>1. CASE j \in GoesTo(fn, pc)
    BY <1>1, <1>3, <2>1, EntryBehind DEF Here, Facts
  <2>2. CASE pc + 1 \in GoesTo(fn, pc) /\ j \in GoesTo(fn, pc + 1)
    <3>1. pc + 1 \in Positions
      BY <1>1, <2>2, Flow DEF Facts
    <3>2. AtEntry(pc + 1)
      BY <1>3, <2>2, <3>1, EntryBehind DEF Facts
    <3>3. QED
      BY <1>1, <2>2, <3>2, EntryBehind DEF Here, Facts
  <2>3. QED
    BY <1>2, <2>1, <2>2
<1>4. AtEntry(j) => \A k \in DOMAIN ArgRegs : regs'[ArgRegs[k]] = Incoming(k)
  BY <1>3 DEF MachineInv, ParametersThere
<1>5. AtEntry(pc)' => AtEntry(j)
  BY <1>1, <1>2 DEF AtEntry
<1>6. QED
  BY <1>4, <1>5 DEF ParametersThere, Incoming, Tag

(* A result goes to its place, which nothing wanted shares.                 *)
LEMMA ComputeKeeps ==
  ASSUME Facts, MachineInv, Compute
  PROVE  MachineInv'
<1>0. PICK d, t : d = Here.dest /\ t = Produced(pc)
  OBVIOUS
<1>1. /\ stage = "run" /\ Here.op \in Computes /\ pc' = pc + 1 /\ stage' = stage /\ locals' = locals
      /\ value' = [value EXCEPT ![d] = t] /\ Stored(d, t) /\ UNCHANGED vars
  BY <1>0 DEF Compute, Running
<1>2. /\ pc \in Positions /\ phase = "done" /\ DOMAIN value = VRegs
      /\ DOMAIN memory = Offsets /\ DOMAIN regs = Saveable \cup Clobbered
      /\ \A o \in LocalOffsets : memory[o] = locals[o]
  BY <1>1 DEF MachineInv, StageInv, FrameKept, Started
<1>3. /\ d \in Int /\ (d > 0 => d \in VRegs /\ d \in Mentions(fn.code[pc]))
      /\ Writes(Here) = {v \in {d} : v > 0}
  <2>1. Here.op # "STORE"
    BY <1>1 DEF Computes, Binary, Compare
  <2>2. d \in Mentions(fn.code[pc])
    BY <1>0 DEF Mentions, Here
  <2>3. QED
    BY <1>0, <1>2, <2>1, <2>2, Mentioned DEF Here, Facts
<1>4. pc' \in GoesTo(fn, pc)
  BY <1>1 DEF GoesTo, Here, Computes, Binary, Compare
<1>5. /\ DOMAIN memory' = Offsets /\ DOMAIN regs' = Saveable \cup Clobbered
      /\ d > 0 => InPlace(d)' = t
      /\ \A v \in VRegs : <<pc, v>> \in Wanted(fn) /\ v # d => InPlace(v)' = InPlace(v)
      /\ \A o \in LocalOffsets : memory'[o] = memory[o]
      /\ \A r \in SavedRegs : memory'[saveSlot[r]] = memory[saveSlot[r]]
      /\ \A r \in Saveable \ used : regs'[r] = regs[r]
      /\ \A k \in DOMAIN ArgRegs : regs'[ArgRegs[k]] = regs[ArgRegs[k]]
  BY <1>1, <1>2, <1>3, StoredKeeps
<1>6. /\ DOMAIN value' = DOMAIN value /\ (d > 0 => value'[d] = t) /\ t # Unset
      /\ \A v \in VRegs : v # d => value'[v] = value[v]
  BY <1>0, <1>1, <1>2, <1>3 DEF Produced, Unset, Tag
<1>7. pc' \in Positions' /\ ValuesPlaced'
  <2>1. \A v \in VRegs : <<pc, v>> \in Wanted(fn) /\ v \notin Writes(Here) =>
          InPlace(v)' = InPlace(v) /\ value'[v] = value[v]
    BY <1>3, <1>5, <1>6
  <2>2. \A v \in Writes(Here) : InPlace(v)' = value'[v] /\ value'[v] # Unset
    BY <1>3, <1>5, <1>6
  <2>3. QED
    BY <1>1, <1>4, <2>1, <2>2, HandedOn DEF Underway
<1>8. ParametersThere'
  BY <1>1, <1>4, <1>5, ParametersStay DEF Underway
<1>9. QED
  BY <1>1, <1>2, <1>5, <1>6, <1>7, <1>8, MovedOn DEF Underway

(* An instruction that sets no register leaves every value wanted where it  *)
(* is.                                                                      *)
LEMMA NothingSet ==
  ASSUME Facts, MachineInv, stage = "run", UNCHANGED <<vars, value, regs>>, pc' \in GoesTo(fn, pc),
         Writes(Here) = {},
         \A v \in VRegs : Spilled(v) => memory'[SlotOf(v)] = memory[SlotOf(v)]
  PROVE  pc' \in Positions' /\ ValuesPlaced'
<1>1. pc \in Positions /\ phase = "done"
  BY DEF MachineInv, StageInv, Started
<1>2. \A v \in VRegs : <<pc, v>> \in Wanted(fn) /\ assigned[v] = NoReg => Spilled(v)
  BY <1>1, WantedWithin DEF Spilled
<1>3. UNCHANGED assigned /\ \A v : SlotOf(v)' = SlotOf(v)
  BY SameAllocation
<1>4. \A v \in VRegs : <<pc, v>> \in Wanted(fn) => InPlace(v)' = InPlace(v)
  BY <1>2, <1>3 DEF InPlace
<1>5. QED
  BY <1>4, HandedOn DEF Underway

(* Only what computes a value or calls sets a register.                     *)
LEMMA SetsNothing ==
  ASSUME Typed, NEW i \in Positions,
         fn.code[i].op \notin Computes \cup {"CALL"}
  PROVE  Writes(fn.code[i]) = {}
<1>1. OperandsExist(fn)
  BY TextAssumption DEF Typed, WellFormed
<1>2. fn.code[i].op = "STORE" \/ fn.code[i].dest <= 0
  BY <1>1 DEF OperandsExist
<1>3. /\ Writes(fn.code[i]) = {v \in {fn.code[i].dest} : v > 0 /\ fn.code[i].op # "STORE"}
      /\ fn.code[i].dest \in Int
  BY Mentioned
<1>4. QED
  BY <1>2, <1>3

(* Labels and stores through pointers leave the frame and the registers be. *)
LEMMA NoEffectKeeps ==
  ASSUME Facts, MachineInv, NoEffect
  PROVE  MachineInv'
<1>1. /\ stage = "run" /\ Here.op \in {"LABEL", "STORE"} /\ pc' = pc + 1 /\ stage' = stage
      /\ UNCHANGED <<value, locals, regs, memory>> /\ UNCHANGED vars
  BY DEF NoEffect, Running
<1>2. /\ pc \in Positions /\ DOMAIN memory = Offsets /\ DOMAIN regs = Saveable \cup Clobbered
      /\ \A o \in LocalOffsets : memory[o] = locals[o]
  BY <1>1 DEF MachineInv, StageInv, FrameKept, Started
<1>3. pc' \in GoesTo(fn, pc)
  BY <1>1 DEF GoesTo, Here
<1>4. Writes(Here) = {}
  BY <1>1, <1>2, SetsNothing DEF Here, Facts, Computes, Binary, Compare
<1>5. pc' \in Positions' /\ ValuesPlaced'
  BY <1>1, <1>3, <1>4, NothingSet
<1>6. ParametersThere'
  BY <1>1, <1>3, ParametersStay DEF Underway
<1>7. QED
  BY <1>1, <1>2, <1>5, <1>6, MovedOn DEF Underway

(* A parameter is taken from its register while that still holds it, and a  *)
(* local is eight bytes from every other thing in the frame.                *)
LEMMA StoreLocalKeeps ==
  ASSUME Facts, MachineInv, StoreLocal
  PROVE  MachineInv'
<1>1. /\ stage = "run" /\ Here.op = "STORE_STACK" /\ pc' = pc + 1 /\ stage' = stage
      /\ UNCHANGED <<value, regs>> /\ UNCHANGED vars
  BY DEF StoreLocal, Running
<1>2. /\ pc \in Positions /\ phase = "done"
      /\ DOMAIN memory = Offsets /\ DOMAIN regs = Saveable \cup Clobbered /\ DOMAIN locals = LocalOffsets
      /\ \A o \in LocalOffsets : memory[o] = locals[o]
  BY <1>1 DEF MachineInv, StageInv, FrameKept, Started
<1>3. PICK l : l = Here.offset
  OBVIOUS
<1>4. l \in LocalOffsets
  BY <1>1, <1>2, <1>3 DEF LocalOffsets, InstAt, IsLocal, Here
<1>5. PICK t : locals' = [locals EXCEPT ![l] = t] /\ memory' = Written(memory, l, t)
  <2> DEFINE k == Here.src1.imm + 1
  <2>1. CASE Here.src1.vreg = -1
    <3>1. ParametersFirst(fn)
      BY TextAssumption DEF Facts, Typed, WellFormed
    <3>2. k \in DOMAIN ArgRegs /\ AtEntry(pc)
      BY <1>1, <1>2, <2>1, <3>1 DEF ParametersFirst, AtEntry, Here
    <3>3. regs[ArgRegs[k]] = Incoming(k)
      BY <1>1, <3>2 DEF MachineInv, ParametersThere
    <3>4. /\ locals' = [locals EXCEPT ![l] = Incoming(k)]
          /\ memory' = Written(memory, l, regs[ArgRegs[k]])
      BY <1>3, <2>1 DEF StoreLocal
    <3>5. QED
      BY <3>3, <3>4
  <2>2. CASE Here.src1.vreg # -1 /\ Here.src1.vreg = -2
    BY <1>3, <2>2 DEF StoreLocal
  <2>3. CASE Here.src1.vreg # -1 /\ Here.src1.vreg # -2
    BY <1>3, <2>3 DEF StoreLocal
  <2>4. QED
    BY <2>1, <2>2, <2>3
<1>6. /\ DOMAIN memory' = Offsets /\ memory'[l] = t
      /\ \A o \in LocalOffsets : o # l => memory'[o] = memory[o]
      /\ \A r \in SavedRegs : memory'[saveSlot[r]] = memory[saveSlot[r]]
      /\ \A v \in VRegs : Spilled(v) => memory'[SlotOf(v)] = memory[SlotOf(v)]
  BY <1>2, <1>4, <1>5, LocalLeaves
<1>7. DOMAIN locals' = DOMAIN locals /\ \A o \in LocalOffsets : memory'[o] = locals'[o]
  BY <1>2, <1>4, <1>5, <1>6
<1>8. pc' \in GoesTo(fn, pc)
  BY <1>1 DEF GoesTo, Here
<1>9. Writes(Here) = {}
  BY <1>1, <1>2, SetsNothing DEF Here, Facts, Computes, Binary, Compare
<1>10. pc' \in Positions' /\ ValuesPlaced'
  BY <1>1, <1>6, <1>8, <1>9, NothingSet
<1>11. ParametersThere'
  BY <1>1, <1>8, ParametersStay DEF Underway
<1>12. QED
  BY <1>1, <1>2, <1>6, <1>7, <1>10, <1>11, MovedOn DEF Underway

(* Both ways of a branch are ways the text has.                             *)
LEMMA BranchKeeps ==
  ASSUME Facts, MachineInv, Branch
  PROVE  MachineInv'
<1>1. /\ stage = "run" /\ Here.op \in Jump /\ stage' = stage
      /\ UNCHANGED <<value, locals, regs, memory>> /\ UNCHANGED vars
  BY DEF Branch, Running
<1>2. /\ pc \in Positions /\ DOMAIN memory = Offsets /\ DOMAIN regs = Saveable \cup Clobbered
      /\ \A o \in LocalOffsets : memory[o] = locals[o]
  BY <1>1 DEF MachineInv, StageInv, FrameKept, Started
<1>3. pc' \in GoesTo(fn, pc)
  <2>1. CASE GoTo(Here.label)
    BY <1>1, <2>1 DEF GoTo, GoesTo, Here
  <2>2. CASE Here.op # "JMP" /\ pc' = pc + 1
    BY <1>1, <2>2 DEF GoesTo, Here, Jump
  <2>3. QED
    BY <2>1, <2>2 DEF Branch
<1>4. Writes(Here) = {}
  BY <1>1, <1>2, SetsNothing DEF Here, Facts, Computes, Binary, Compare, Jump
<1>5. pc' \in Positions' /\ ValuesPlaced'
  BY <1>1, <1>3, <1>4, NothingSet
<1>6. ParametersThere'
  BY <1>1, <1>3, ParametersStay DEF Underway
<1>7. QED
  BY <1>1, <1>2, <1>5, <1>6, MovedOn DEF Underway

(* The result of a comparison the branch behind it took over is wanted by   *)
(* that branch alone.                                                       *)
LEMMA FlagsOnly ==
  ASSUME Typed, NEW i \in Positions, Fused(i), i + 1 \in Positions,
         NEW j \in Positions, <<j, fn.code[i].dest>> \in Wanted(fn)
  PROVE  j = i + 1
<1> DEFINE d == fn.code[i].dest
<1>1. /\ d > 0 /\ fn.code[i + 1].src1.vreg = d /\ fn.code[i + 1].op \in Jump /\ fn.code[i].op \in Compare
  BY DEF Fused, InstAt, Jump
<1>2. BriefValuesEnd(fn, Wanted(fn))
  BY TextAssumption DEF Typed, WellFormed
<1>3. d \in Writes(fn.code[i])
  BY <1>1, Mentioned DEF Compare
<1>4. ASSUME NEW k \in Positions, d \in Reads(fn.code[k]) PROVE k = i + 1
  <2>1. PICK only \in Uses(d) : Uses(d) = {only}
    BY DEF Fused, InstAt
  <2>2. <<i + 1, 1>> \in Uses(d)
    BY <1>1 DEF Uses, InstAt
  <2>3. \E n : <<k, n>> \in Uses(d)
    <3>1. CASE fn.code[k].src1.vreg = d
      BY <3>1 DEF Uses, InstAt
    <3>2. CASE fn.code[k].src2.vreg = d
      BY <3>2 DEF Uses, InstAt
    <3>3. CASE fn.code[k].op = "STORE" /\ fn.code[k].dest = d
      BY <3>3 DEF Uses, InstAt
    <3>4. CASE \E n \in DOMAIN fn.code[k].args : fn.code[k].args[n].vreg = d
      <4> DEFINE places(m) == {<<m, 3 + n>> : n \in {q \in DOMAIN fn.code[m].args : fn.code[m].args[q].vreg = d}}
      <4>1. PICK n \in DOMAIN fn.code[k].args : fn.code[k].args[n].vreg = d
        BY <3>4
      <4>2. <<k, 3 + n>> \in places(k)
        BY <4>1
      <4>3. places(k) \in {places(m) : m \in Positions}
        OBVIOUS
      <4>4. UNION {places(m) : m \in Positions} \subseteq Uses(d)
        BY Zenon DEF Uses, InstAt
      <4>5. QED
        BY <4>2, <4>3, <4>4
    <3>5. \/ d \in Operands(fn.code[k])
          \/ fn.code[k].op = "STORE" /\ fn.code[k].dest = d
      <4>1. d \in Operands(fn.code[k]) \cup (IF fn.code[k].op = "STORE" THEN {fn.code[k].dest} ELSE {})
        BY <1>4, Zenon DEF Reads, Positive
      <4>2. CASE fn.code[k].op = "STORE"
        BY <4>1, <4>2
      <4>3. CASE fn.code[k].op # "STORE"
        BY <4>1, <4>3
      <4>4. QED
        BY <4>2, <4>3
    <3>6. d \in Operands(fn.code[k]) =>
            \/ fn.code[k].src1.vreg = d \/ fn.code[k].src2.vreg = d
            \/ \E n \in DOMAIN fn.code[k].args : fn.code[k].args[n].vreg = d
      BY DEF Operands
    <3>7. QED
      BY <3>1, <3>2, <3>3, <3>4, <3>5, <3>6
  <2>4. PICK n : <<k, n>> \in Uses(d)
    BY <2>3
  <2>5. <<k, n>> = only /\ <<i + 1, 1>> = only
    BY <2>1, <2>2, <2>4
  <2>6. QED
    BY <2>5
<1>5. OnlyRead(fn, d, i + 1)
  BY <1>4 DEF OnlyRead
<1>6. i \in 1..(Len(fn.code) - 1)
  BY FunctionType DEF Typed
<1>7. QED
  BY <1>1, <1>2, <1>3, <1>5, <1>6 DEF BriefValuesEnd

(* A comparison that is not stored, and the branch that needed it, in one.  *)
LEMMA CompareAndBranchKeeps ==
  ASSUME Facts, MachineInv, CompareAndBranch
  PROVE  MachineInv'
<1>0. PICK d, j : d = Here.dest /\ j = pc'
  OBVIOUS
<1>1. /\ stage = "run" /\ Here.op \in Compare /\ Fused(pc) /\ stage' = stage
      /\ value' = [value EXCEPT ![d] = Produced(pc)]
      /\ UNCHANGED <<locals, regs, memory>> /\ UNCHANGED vars
  BY <1>0 DEF CompareAndBranch, Running
<1>2. /\ pc \in Positions /\ DOMAIN memory = Offsets /\ DOMAIN regs = Saveable \cup Clobbered
      /\ DOMAIN value = VRegs
      /\ \A o \in LocalOffsets : memory[o] = locals[o]
      /\ \A v \in VRegs : <<pc, v>> \in Wanted(fn) => InPlace(v) = value[v] /\ value[v] # Unset
  BY <1>1 DEF MachineInv, StageInv, FrameKept, ValuesPlaced, Started, Underway
<1>3. pc + 1 \in GoesTo(fn, pc) /\ pc + 1 \in Positions
  <2>1. pc + 1 \in GoesTo(fn, pc)
    BY <1>1 DEF GoesTo, Here, Compare
  <2>2. QED
    BY <1>2, <2>1, Flow DEF Facts
<1>4. fn.code[pc + 1].op \in Jump /\ fn.code[pc + 1].op # "JMP"
  BY <1>1 DEF Fused, InstAt, Jump
<1>5. j \in GoesTo(fn, pc + 1) /\ j # pc + 1
  <2>1. CASE GoTo(InstAt(pc + 1).label)
    <3>1. j = LabelPos(fn.code, fn.code[pc + 1].label)
      BY <1>0, <2>1 DEF GoTo, InstAt
    <3>2. j \in GoesTo(fn, pc + 1)
      BY <1>4, <3>1 DEF GoesTo
    <3>3. fn.code[j].op = "LABEL"
      BY <1>3, <3>1, <3>2, Flow, LabelFound DEF Facts
    <3>4. QED
      BY <1>4, <3>2, <3>3 DEF Jump
  <2>2. CASE pc' = pc + 2
    BY <1>0, <1>2, <1>4, <2>2 DEF GoesTo, Jump
  <2>3. QED
    BY <2>1, <2>2 DEF CompareAndBranch
<1>6. j \in Positions
  BY <1>3, <1>5, Flow DEF Facts
<1>7. UNCHANGED <<fn, assigned>> /\ Wanted(fn)' = Wanted(fn) /\ \A v : SlotOf(v)' = SlotOf(v)
  BY <1>1, SameAllocation
<1>8. ValuesPlaced'
  <2>1. ASSUME NEW v \in VRegs, <<j, v>> \in Wanted(fn)
        PROVE  v # d /\ <<pc, v>> \in Wanted(fn)
    <3>1. Writes(fn.code[pc + 1]) = {}
      BY <1>3, <1>4, SetsNothing DEF Facts, Computes, Binary, Compare, Jump
    <3>2. <<pc + 1, v>> \in Wanted(fn)
      BY <1>3, <1>5, <2>1, <3>1, Flow DEF Facts
    <3>3. v # d
      BY <1>0, <1>1, <1>2, <1>3, <1>5, <1>6, <2>1, FlagsOnly DEF Facts, Here
    <3>4. Writes(fn.code[pc]) \subseteq {d}
      BY <1>0, <1>2, Mentioned DEF Facts, Here
    <3>5. QED
      BY <1>2, <1>3, <3>2, <3>3, <3>4, Flow DEF Facts
  <2>2. \A v : InPlace(v)' = InPlace(v)
    BY <1>1, <1>7 DEF InPlace
  <2>3. \A v \in VRegs : v # d => value'[v] = value[v]
    BY <1>1, <1>2
  <2>4. \A v \in VRegs : <<j, v>> \in Wanted(fn) => InPlace(v)' = value'[v] /\ value'[v] # Unset
    BY <1>2, <2>1, <2>2, <2>3
  <2>5. \A v \in VRegs' : <<j, v>> \in Wanted(fn)' => InPlace(v)' = value'[v] /\ value'[v] # Unset
    BY <1>7, <2>4
  <2>6. QED
    BY <1>0, <2>5 DEF ValuesPlaced, Unset, Tag
<1>9. ParametersThere'
  BY <1>0, <1>1, <1>3, <1>5, ParametersStay DEF Underway
<1>10. QED
  BY <1>0, <1>1, <1>2, <1>6, <1>7, <1>8, <1>9, MovedOn DEF Underway

(* Whatever a call does before its callee is entered, it leaves the         *)
(* registers the callee keeps and the frame alone, and all that is wanted   *)
(* is there.                                                                *)
LEMMA CallStepKeeps ==
  ASSUME Facts, MachineInv, stage \in {"run", "passing"}, Here.op = "CALL",
         UNCHANGED <<vars, pc, value, locals>>,
         stage' \in {"passing", "calling"}, stage' = "passing" => passed' \in 0..Len(Here.args),
         DOMAIN regs' = DOMAIN regs, \A r \in Saveable : regs'[r] = regs[r],
         DOMAIN memory' = Offsets,
         \A o \in LocalOffsets : memory'[o] = memory[o],
         \A r \in SavedRegs : memory'[saveSlot[r]] = memory[saveSlot[r]],
         \A v \in VRegs : Spilled(v) => memory'[SlotOf(v)] = memory[SlotOf(v)]
  PROVE  /\ StageInv' /\ FrameKept' /\ CalleeKept' /\ ParametersThere' /\ ValuesPlaced'
         /\ CallerRestored' /\ ValueReturned'
<1>1. /\ UNCHANGED <<fn, phase, used, assigned, saveSlot>>
      /\ LocalOffsets' = LocalOffsets /\ SavedRegs' = SavedRegs /\ Offsets' = Offsets
      /\ Wanted(fn)' = Wanted(fn) /\ Here' = Here /\ \A v : SlotOf(v)' = SlotOf(v)
  BY SameAllocation DEF Here
<1>2. pc \in Positions /\ phase = "done" /\ Underway /\ Started
  BY DEF MachineInv, StageInv, Started, Underway
<1>3. StageInv'
  <2>1. DOMAIN value = VRegs /\ DOMAIN regs = Saveable \cup Clobbered /\ DOMAIN locals = LocalOffsets
    BY <1>2 DEF MachineInv, StageInv
  <2>2. QED
    BY <1>1, <1>2, <2>1 DEF StageInv, Started
<1>4. FrameKept'
  <2>1. /\ \A r \in SavedRegs : memory[saveSlot[r]] = Caller(r)
        /\ \A o \in LocalOffsets : memory[o] = locals[o]
    BY <1>2 DEF MachineInv, FrameKept
  <2>2. /\ \A r \in SavedRegs' : memory'[saveSlot'[r]] = Caller(r)
        /\ \A o \in LocalOffsets' : memory'[o] = locals'[o]
    BY <1>1, <2>1
  <2>3. QED
    BY <2>2 DEF FrameKept, Caller, Tag
<1>5. CalleeKept'
  <2>1. \A r \in Saveable \ used : regs[r] = Caller(r)
    BY <1>2 DEF MachineInv, CalleeKept
  <2>2. \A r \in Saveable \ used' : regs'[r] = Caller(r)
    BY <1>1, <2>1
  <2>3. QED
    BY <2>2 DEF CalleeKept, Caller, Tag
<1>6. ValuesPlaced'
  <2>1. \A v \in VRegs : <<pc, v>> \in Wanted(fn) => InPlace(v) = value[v] /\ value[v] # Unset
    BY <1>2 DEF MachineInv, ValuesPlaced
  <2>2. /\ \A v \in VRegs : <<pc, v>> \in Wanted(fn) /\ assigned[v] # NoReg => assigned[v] \in Saveable
        /\ \A v \in VRegs : <<pc, v>> \in Wanted(fn) /\ assigned[v] = NoReg => Spilled(v)
    BY <1>2, WantedSurvives, WantedWithin DEF Here, Spilled
  <2>3. \A v \in VRegs : <<pc, v>> \in Wanted(fn) => InPlace(v)' = InPlace(v)
    BY <1>1, <2>2 DEF InPlace
  <2>4. \A v \in VRegs' : <<pc', v>> \in Wanted(fn)' => InPlace(v)' = value'[v] /\ value'[v] # Unset
    BY <1>1, <2>1, <2>3
  <2>5. QED
    BY <2>4 DEF ValuesPlaced, Unset, Tag
<1>7. QED
  BY <1>3, <1>4, <1>5, <1>6 DEF ParametersThere, CallerRestored, ValueReturned

(* No argument is in place yet when a call begins (codegen_x86.c:479-489).  *)
LEMMA BeginCallKeeps ==
  ASSUME Facts, MachineInv, BeginCall
  PROVE  MachineInv'
<1>1. /\ stage = "run" /\ Here.op = "CALL" /\ stage' = "passing" /\ passed' = 0
      /\ UNCHANGED <<vars, pc, lap, value, locals, regs, memory>>
  BY DEF BeginCall, Running
<1>2. pc \in Positions /\ DOMAIN memory = Offsets
  BY <1>1 DEF MachineInv, StageInv, Started
<1>3. Here' = Here /\ Len(Here.args) \in Nat /\ DOMAIN Here.args = 1..Len(Here.args)
  BY <1>1, <1>2, SameAllocation, TextAssumption DEF Facts, Typed, WellFormed, OperandsExist, Here
<1>4. /\ StageInv' /\ FrameKept' /\ CalleeKept' /\ ParametersThere' /\ ValuesPlaced'
      /\ CallerRestored' /\ ValueReturned'
  <2>1. passed' \in 0..Len(Here.args)
    BY <1>1, <1>3
  <2>2. QED
    BY <1>1, <1>2, <2>1, CallStepKeeps
<1>5. ArgumentsSoFar' /\ ArgumentsDelivered'
  BY <1>1, <1>3 DEF ArgumentsSoFar, ArgumentsDelivered
<1>6. QED
  BY <1>4, <1>5 DEF MachineInv

(* The next argument goes to a register no argument before it is in, or by  *)
(* way of rax to a place on the stack that none of them has                 *)
(* (codegen_x86.c:491-503).                                                 *)
LEMMA PassArgumentKeeps ==
  ASSUME Facts, MachineInv, PassArgument
  PROVE  MachineInv'
<1>0. PICK k : k = passed + 1
  OBVIOUS
<1> DEFINE t == Loaded(Here.args[k])
<1>1. /\ stage = "passing" /\ passed < Len(Here.args) /\ stage' = stage /\ passed' = k
      /\ regs' = [regs EXCEPT ![IF k \in DOMAIN ArgRegs THEN ArgRegs[k] ELSE Rax] = t]
      /\ memory' = IF k \in DOMAIN ArgRegs THEN memory ELSE Written(memory, ArgumentSlot(pc, k), t)
      /\ UNCHANGED <<vars, pc, value, locals>>
  BY <1>0 DEF PassArgument
<1>2. /\ pc \in Positions /\ phase = "done" /\ Underway /\ Here.op = "CALL"
      /\ DOMAIN memory = Offsets /\ DOMAIN regs = Saveable \cup Clobbered
      /\ passed \in 0..Len(Here.args)
  BY <1>1 DEF MachineInv, StageInv, Started, Underway
<1>3. Here' = Here /\ Len(Here.args) \in Nat /\ DOMAIN Here.args = 1..Len(Here.args)
  BY <1>1, <1>2, SameAllocation, TextAssumption DEF Facts, Typed, WellFormed, OperandsExist, Here
<1>4. k \in DOMAIN Here.args /\ k \in 0..Len(Here.args)
  BY <1>0, <1>1, <1>2, <1>3
<1>5. t = Meaning(Here.args[k])
  <2>1. Here.args[k].vreg \in Operands(Here)
    BY <1>2, <1>4 DEF Operands
  <2>2. Here.args[k].vreg \in Int
    BY <1>2, <2>1, Mentioned DEF Facts, Here
  <2>3. Here.args[k].vreg > 0 => Here.args[k].vreg \in Reads(Here)
    BY <2>1 DEF Reads, Positive
  <2>4. QED
    BY <1>2, <2>2, <2>3, Reading DEF Facts
<1>6. \A op : Meaning(op)' = Meaning(op)
  BY <1>1 DEF Meaning, Constant, Tag
<1>7. \A j : ArgumentSlot(pc, j)' = ArgumentSlot(pc, j)
  BY <1>1, SameAllocation
<1>8. \A j \in DOMAIN Here.args : j <= passed => Passed(j) = Meaning(Here.args[j])
  BY <1>1 DEF MachineInv, ArgumentsSoFar
<1> HIDE DEF t
<1>9. CASE k \in DOMAIN ArgRegs
  <2>1. regs' = [regs EXCEPT ![ArgRegs[k]] = t] /\ memory' = memory
    BY <1>1, <1>9
  <2>2. ArgRegs[k] \in DOMAIN regs /\ ArgRegs[k] \notin Saveable
    BY <1>2, <1>9, RegisterKinds
  <2>3. /\ DOMAIN regs' = DOMAIN regs /\ regs'[ArgRegs[k]] = t
        /\ \A r : r # ArgRegs[k] => regs'[r] = regs[r]
    BY <2>1, <2>2
  <2>4. \A j \in DOMAIN ArgRegs : j # k => ArgRegs[j] # ArgRegs[k]
    BY <1>9 DEF ArgRegs
  <2>5. \A j : j # k => Passed(j)' = Passed(j)
    BY <1>1, <1>7, <2>1, <2>3, <2>4 DEF Passed
  <2>6. Passed(k)' = t
    BY <1>9, <2>3 DEF Passed
  <2>7. \A r \in Saveable : regs'[r] = regs[r]
    BY <2>2, <2>3
  <2>8. ArgumentsSoFar' /\ ArgumentsDelivered'
    <3>1. \A j \in DOMAIN Here.args : j <= k => Passed(j)' = Meaning(Here.args[j])
      BY <1>0, <1>2, <1>3, <1>5, <1>8, <2>5, <2>6
    <3>2. QED
      BY <1>1, <1>3, <1>6, <3>1 DEF ArgumentsSoFar, ArgumentsDelivered
  <2>9. /\ StageInv' /\ FrameKept' /\ CalleeKept' /\ ParametersThere' /\ ValuesPlaced'
        /\ CallerRestored' /\ ValueReturned'
    BY <1>1, <1>2, <1>4, <2>1, <2>3, <2>7, CallStepKeeps
  <2>10. QED
    BY <2>8, <2>9 DEF MachineInv
<1>10. CASE k \notin DOMAIN ArgRegs
  <2>1. regs' = [regs EXCEPT ![Rax] = t] /\ memory' = Written(memory, ArgumentSlot(pc, k), t)
    BY <1>1, <1>10
  <2>2. Rax \in DOMAIN regs /\ Rax \notin Saveable /\ \A j \in DOMAIN ArgRegs : ArgRegs[j] # Rax
    BY <1>2, RegisterKinds DEF ArgRegs, Rax
  <2>3. DOMAIN regs' = DOMAIN regs /\ \A r : r # Rax => regs'[r] = regs[r]
    BY <2>1, <2>2
  <2>4. OnStack(pc) = {j \in DOMAIN Here.args : j \notin DOMAIN ArgRegs} /\ k \in OnStack(pc)
    BY <1>4, <1>10 DEF OnStack, InstAt, Here
  <2>5. /\ DOMAIN memory' = Offsets /\ memory'[ArgumentSlot(pc, k)] = t
        /\ \A o \in LocalOffsets : memory'[o] = memory[o]
        /\ \A r \in SavedRegs : memory'[saveSlot[r]] = memory[saveSlot[r]]
        /\ \A v \in VRegs : Spilled(v) => memory'[SlotOf(v)] = memory[SlotOf(v)]
        /\ \A j \in OnStack(pc) : j # k => memory'[ArgumentSlot(pc, j)] = memory[ArgumentSlot(pc, j)]
    BY <1>2, <2>1, <2>4, ArgumentLeaves
  <2>6. \A j \in DOMAIN Here.args : j # k => Passed(j)' = Passed(j)
    BY <1>1, <1>7, <2>2, <2>3, <2>4, <2>5 DEF Passed
  <2>7. Passed(k)' = t
    BY <1>1, <1>7, <1>10, <2>5 DEF Passed
  <2>8. \A r \in Saveable : regs'[r] = regs[r]
    BY <2>2, <2>3
  <2>9. ArgumentsSoFar' /\ ArgumentsDelivered'
    <3>1. \A j \in DOMAIN Here.args : j <= k => Passed(j)' = Meaning(Here.args[j])
      BY <1>0, <1>2, <1>3, <1>5, <1>8, <2>6, <2>7
    <3>2. QED
      BY <1>1, <1>3, <1>6, <3>1 DEF ArgumentsSoFar, ArgumentsDelivered
  <2>10. /\ StageInv' /\ FrameKept' /\ CalleeKept' /\ ParametersThere' /\ ValuesPlaced'
         /\ CallerRestored' /\ ValueReturned'
    BY <1>1, <1>2, <1>4, <2>3, <2>5, <2>8, CallStepKeeps
  <2>11. QED
    BY <2>9, <2>10 DEF MachineInv
<1>11. QED
  BY <1>9, <1>10

(* r11 and rax hold no argument (codegen_x86.c:505-512).                    *)
LEMMA EnterCalleeKeeps ==
  ASSUME Facts, MachineInv, EnterCallee
  PROVE  MachineInv'
<1>1. /\ stage = "passing" /\ passed = Len(Here.args) /\ stage' = "calling"
      /\ regs' = [r \in DOMAIN regs |-> IF r = Rax THEN Torn
                                        ELSE IF r = Target /\ Here.callee = "" THEN Loaded(Here.src1)
                                        ELSE regs[r]]
      /\ UNCHANGED <<vars, pc, value, locals, memory>>
  BY DEF EnterCallee
<1>2. /\ pc \in Positions /\ phase = "done" /\ Underway /\ Here.op = "CALL"
      /\ DOMAIN memory = Offsets /\ DOMAIN regs = Saveable \cup Clobbered
  BY <1>1 DEF MachineInv, StageInv, Started, Underway
<1>3. Here' = Here /\ Len(Here.args) \in Nat /\ DOMAIN Here.args = 1..Len(Here.args)
  BY <1>1, <1>2, SameAllocation, TextAssumption DEF Facts, Typed, WellFormed, OperandsExist, Here
<1>4. Loaded(Here.src1) = Meaning(Here.src1)
  <2>1. Here.src1.vreg \in Operands(Here)
    BY DEF Operands
  <2>2. Here.src1.vreg \in Int
    BY <1>2, <2>1, Mentioned DEF Facts, Here
  <2>3. Here.src1.vreg > 0 => Here.src1.vreg \in Reads(Here)
    BY <2>1 DEF Reads, Positive
  <2>4. QED
    BY <1>2, <2>2, <2>3, Reading DEF Facts
<1>5. /\ Target \in DOMAIN regs /\ Target # Rax /\ Target \notin Saveable /\ Rax \notin Saveable
      /\ \A j \in DOMAIN ArgRegs : ArgRegs[j] \in DOMAIN regs /\ ArgRegs[j] # Rax /\ ArgRegs[j] # Target
  BY <1>2, RegisterKinds DEF ArgRegs, Rax, Target
<1>6. /\ DOMAIN regs' = DOMAIN regs
      /\ \A r \in Saveable : regs'[r] = regs[r]
      /\ \A j \in DOMAIN ArgRegs : regs'[ArgRegs[j]] = regs[ArgRegs[j]]
      /\ Here.callee = "" => regs'[Target] = Meaning(Here.src1)
  BY <1>1, <1>2, <1>4, <1>5
<1>7. ArgumentsSoFar' /\ ArgumentsDelivered'
  <2>1. \A j \in DOMAIN Here.args : Passed(j) = Meaning(Here.args[j])
    <3>1. \A j \in DOMAIN Here.args : j <= passed => Passed(j) = Meaning(Here.args[j])
      BY <1>1 DEF MachineInv, ArgumentsSoFar
    <3>2. passed = Len(Here.args)
      BY <1>1
    <3>3. passed \in Nat /\ DOMAIN Here.args = 1..passed
      BY <1>3, <3>2
    <3>4. \A j \in DOMAIN Here.args : j <= passed
      BY <3>3
    <3>5. QED
      BY <3>1, <3>4
  <2>2. \A j : Passed(j)' = Passed(j)
    <3>1. \A j : ArgumentSlot(pc, j)' = ArgumentSlot(pc, j)
      BY <1>1, SameAllocation
    <3>2. memory' = memory
      BY <1>1
    <3>3. QED
      BY <1>6, <3>1, <3>2 DEF Passed
  <2>3. \A op : Meaning(op)' = Meaning(op)
    BY <1>1 DEF Meaning, Constant, Tag
  <2>4. QED
    BY <1>1, <1>3, <1>6, <2>1, <2>2, <2>3 DEF ArgumentsSoFar, ArgumentsDelivered
<1>8. /\ StageInv' /\ FrameKept' /\ CalleeKept' /\ ParametersThere' /\ ValuesPlaced'
      /\ CallerRestored' /\ ValueReturned'
  BY <1>1, <1>2, <1>6, CallStepKeeps
<1>9. QED
  BY <1>7, <1>8 DEF MachineInv

(* The callee overwrites nothing that is wanted, and its value goes to the  *)
(* place of the call's own register.                                        *)
LEMMA ReturnFromCallKeeps ==
  ASSUME Facts, MachineInv, ReturnFromCall
  PROVE  MachineInv'
<1> DEFINE after == [r \in DOMAIN regs |-> IF r = Rax THEN Produced(pc)
                                           ELSE IF r \in Clobbered THEN Unset ELSE regs[r]]
<1>0. PICK d, t : d = Here.dest /\ t = Produced(pc)
  OBVIOUS
<1>1. /\ stage = "calling" /\ stage' = "run" /\ pc' = pc + 1 /\ locals' = locals /\ UNCHANGED vars
      /\ value' = IF d > 0 THEN [value EXCEPT ![d] = t] ELSE value
      /\ regs' = IF d > 0 /\ InRegister(d) THEN [after EXCEPT ![assigned[d]] = t] ELSE after
      /\ memory' = IF d > 0 /\ ~InRegister(d) THEN Written(memory, SlotOf(d), t) ELSE memory
  BY <1>0 DEF ReturnFromCall
<1>2. /\ pc \in Positions /\ phase = "done" /\ DOMAIN value = VRegs /\ Underway
      /\ DOMAIN memory = Offsets /\ DOMAIN regs = Saveable \cup Clobbered /\ Here.op = "CALL"
      /\ \A o \in LocalOffsets : memory[o] = locals[o]
  BY <1>1 DEF MachineInv, StageInv, FrameKept, Started, Underway
<1>3. /\ d \in Int /\ (d > 0 => d \in VRegs /\ d \in Mentions(fn.code[pc]))
      /\ Writes(Here) = {v \in {d} : v > 0}
  <2>1. d \in Mentions(fn.code[pc])
    BY <1>0 DEF Mentions, Here
  <2>2. QED
    BY <1>0, <1>2, <2>1, Mentioned DEF Here, Facts
<1>4. pc' \in GoesTo(fn, pc)
  BY <1>1, <1>2 DEF GoesTo, Here
<1>5. UNCHANGED assigned /\ \A v : SlotOf(v)' = SlotOf(v)
  BY <1>1, SameAllocation
<1>6. /\ DOMAIN after = DOMAIN regs /\ \A r \in Saveable : after[r] = regs[r]
  BY <1>2, RegisterKinds
<1>7. /\ \A v \in VRegs : <<pc, v>> \in Wanted(fn) /\ assigned[v] # NoReg => assigned[v] \in Saveable
      /\ \A v \in VRegs : <<pc, v>> \in Wanted(fn) /\ assigned[v] = NoReg => Spilled(v)
  BY <1>2, WantedSurvives, WantedWithin DEF Here, Spilled
<1> HIDE DEF after
<1>8. CASE d > 0 /\ assigned[d] # NoReg
  <2>1. regs' = [after EXCEPT ![assigned[d]] = t] /\ memory' = memory
    BY <1>1, <1>8 DEF InRegister
  <2>2. assigned[d] \in DOMAIN regs /\ assigned[d] \in used
    BY <1>2, <1>3, <1>8, AssignedKinds, RegisterKinds
  <2>3. DOMAIN regs' = DOMAIN regs /\ regs'[assigned[d]] = t
        /\ \A r \in Saveable : r # assigned[d] => regs'[r] = regs[r]
    BY <1>2, <1>6, <2>1, <2>2
  <2>4. \A v \in VRegs : <<pc, v>> \in Wanted(fn) /\ v # d /\ assigned[v] # NoReg => assigned[v] # assigned[d]
    BY <1>2, <1>3, <1>8, WantedApart
  <2>5. \A v \in VRegs : <<pc, v>> \in Wanted(fn) /\ v # d => InPlace(v)' = InPlace(v)
    BY <1>5, <1>7, <2>1, <2>3, <2>4 DEF InPlace
  <2>6. InPlace(d)' = t
    BY <1>5, <1>8, <2>3 DEF InPlace
  <2>7. ValuesPlaced' /\ pc' \in Positions'
    <3>1. /\ DOMAIN value' = VRegs /\ value'[d] = t /\ \A v \in VRegs : v # d => value'[v] = value[v]
      BY <1>1, <1>2, <1>3, <1>8
    <3>2. t # Unset
      BY <1>0 DEF Produced, Unset, Tag
    <3>3. QED
      BY <1>1, <1>2, <1>3, <1>4, <1>8, <2>5, <2>6, <3>1, <3>2, HandedOn
  <2>8. ParametersThere'
    BY <1>1, <1>2, <1>4, ParametersStay
  <2>9. QED
    BY <1>1, <1>2, <2>1, <2>2, <2>3, <2>7, <2>8, MovedOn
<1>9. CASE d > 0 /\ assigned[d] = NoReg
  <2>1. regs' = after /\ memory' = Written(memory, SlotOf(d), t)
    BY <1>1, <1>9 DEF InRegister
  <2>2. d \in VRegs /\ Spilled(d)
    BY <1>2, <1>3, <1>9, MentionedWithin DEF Spilled
  <2>3. /\ DOMAIN memory' = Offsets /\ memory'[SlotOf(d)] = t
        /\ \A o \in LocalOffsets : memory'[o] = memory[o]
        /\ \A r \in SavedRegs : memory'[saveSlot[r]] = memory[saveSlot[r]]
        /\ \A v \in VRegs : Spilled(v) /\ v # d => memory'[SlotOf(v)] = memory[SlotOf(v)]
    BY <1>2, <2>1, <2>2, SpillLeaves
  <2>4. \A v \in VRegs : <<pc, v>> \in Wanted(fn) /\ v # d => InPlace(v)' = InPlace(v)
    BY <1>5, <1>6, <1>7, <2>1, <2>3 DEF InPlace
  <2>5. InPlace(d)' = t
    BY <1>5, <1>9, <2>3 DEF InPlace
  <2>6. ValuesPlaced' /\ pc' \in Positions'
    <3>1. /\ DOMAIN value' = VRegs /\ value'[d] = t /\ \A v \in VRegs : v # d => value'[v] = value[v]
      BY <1>1, <1>2, <1>3, <1>9
    <3>2. t # Unset
      BY <1>0 DEF Produced, Unset, Tag
    <3>3. QED
      BY <1>1, <1>2, <1>3, <1>4, <1>9, <2>4, <2>5, <3>1, <3>2, HandedOn
  <2>7. ParametersThere'
    BY <1>1, <1>2, <1>4, ParametersStay
  <2>8. QED
    BY <1>1, <1>2, <1>6, <2>1, <2>3, <2>6, <2>7, MovedOn
<1>10. CASE ~(d > 0)
  <2>1. regs' = after /\ memory' = memory /\ value' = value
    BY <1>1, <1>10
  <2>2. \A v \in VRegs : <<pc, v>> \in Wanted(fn) => InPlace(v)' = InPlace(v)
    BY <1>5, <1>6, <1>7, <2>1 DEF InPlace
  <2>3. ValuesPlaced' /\ pc' \in Positions'
    BY <1>1, <1>2, <1>3, <1>4, <1>10, <2>1, <2>2, HandedOn
  <2>4. ParametersThere'
    BY <1>1, <1>2, <1>4, ParametersStay
  <2>5. QED
    BY <1>1, <1>2, <1>6, <2>1, <2>3, <2>4, MovedOn
<1>11. QED
  BY <1>8, <1>9, <1>10

(* The epilogue takes from each slot what the prologue put there.           *)
LEMMA ReturnValueKeeps ==
  ASSUME Facts, MachineInv, ReturnValue
  PROVE  MachineInv'
<1>1. /\ stage = "run" /\ Here.op = "RET" /\ stage' = "returned" /\ pc' = pc
      /\ UNCHANGED <<value, locals, memory>> /\ UNCHANGED vars
      /\ regs' = [Restored EXCEPT ![Rax] = Loaded(Here.src1)]
  BY DEF ReturnValue, Running
<1>2. /\ UNCHANGED <<fn, phase, used, saveSlot>>
      /\ LocalOffsets' = LocalOffsets /\ SavedRegs' = SavedRegs /\ Offsets' = Offsets /\ Here' = Here
  BY <1>1, SameAllocation DEF Here
<1>3. /\ pc \in Positions /\ phase = "done" /\ DOMAIN regs = Saveable \cup Clobbered /\ Underway
      /\ \A o \in LocalOffsets : memory[o] = locals[o]
      /\ \A r \in SavedRegs : memory[saveSlot[r]] = Caller(r)
      /\ \A r \in Saveable \ used : regs[r] = Caller(r)
  BY <1>1 DEF MachineInv, StageInv, FrameKept, CalleeKept, Started, Underway
<1>4. /\ Rax \in DOMAIN regs /\ Rax \notin Saveable
  BY <1>3, RegisterKinds
<1>5. /\ DOMAIN regs' = DOMAIN regs /\ regs'[Rax] = Loaded(Here.src1)
      /\ \A r \in Saveable : regs'[r] = IF r \in SavedRegs THEN memory[saveSlot[r]] ELSE regs[r]
  BY <1>1, <1>3, <1>4 DEF Restored
<1>6. StageInv'
  BY <1>1, <1>2, <1>5 DEF MachineInv, StageInv, Started
<1>7. FrameKept'
  BY <1>1, <1>2, <1>3 DEF FrameKept, Caller, Tag
<1>8. CallerRestored'
  <2>1. \A r \in Saveable : regs'[r] = Caller(r)
    BY <1>3, <1>5 DEF SavedRegs
  <2>2. QED
    BY <2>1 DEF CallerRestored, Caller, Tag
<1>9. ValueReturned'
  <2>1. Here.src1.vreg \in Operands(Here)
    BY DEF Operands
  <2>2. Here.src1.vreg \in Int
    BY <1>3, <2>1, Mentioned DEF Facts, Here
  <2>3. Here.src1.vreg > 0 => Here.src1.vreg \in Reads(Here)
    BY <2>1 DEF Reads, Positive
  <2>4. Loaded(Here.src1) = Meaning(Here.src1)
    BY <1>3, <2>2, <2>3, Reading DEF Facts
  <2>5. \A op : Meaning(op)' = Meaning(op)
    BY <1>1 DEF Meaning, Constant, Tag
  <2>6. regs'[Rax] = Meaning(Here'.src1)
    BY <1>2, <1>5, <2>4
  <2>7. QED
    BY <2>5, <2>6 DEF ValueReturned
<1>10. QED
  BY <1>1, <1>6, <1>7, <1>8, <1>9 DEF MachineInv, CalleeKept, ParametersThere, ValuesPlaced, Underway,
                                      ArgumentsSoFar, ArgumentsDelivered

(* A step that changes nothing.                                             *)
LEMMA StutterKeeps ==
  ASSUME MachineInv, UNCHANGED allVars
  PROVE  MachineInv'
<1>1. UNCHANGED vars /\ UNCHANGED <<stage, pc, lap, value, locals, passed, regs, memory>>
  BY DEF allVars, machine
<1>2. /\ UNCHANGED <<fn, phase, used, assigned, saveSlot>>
      /\ LocalOffsets' = LocalOffsets /\ SavedRegs' = SavedRegs /\ Offsets' = Offsets
      /\ Wanted(fn)' = Wanted(fn) /\ Here' = Here /\ \A v : SlotOf(v)' = SlotOf(v)
      /\ \A i, k : ArgumentSlot(i, k)' = ArgumentSlot(i, k)
  BY <1>1, SameAllocation DEF Here
<1>3. /\ \A v : InPlace(v)' = InPlace(v)
      /\ \A op : Meaning(op)' = Meaning(op)
      /\ \A i : AtEntry(i)' = AtEntry(i)
      /\ \A k : Passed(k)' = Passed(k)
  BY <1>1, <1>2 DEF InPlace, Meaning, AtEntry, Passed, Constant, Tag
<1>4. /\ StageInv' /\ FrameKept' /\ CalleeKept'
  BY <1>1, <1>2 DEF MachineInv, StageInv, FrameKept, CalleeKept, Started, Underway, Caller, Tag
<1>5. ParametersThere' /\ ValuesPlaced'
  BY <1>1, <1>2, <1>3 DEF MachineInv, ParametersThere, ValuesPlaced, Underway, Incoming, Tag, Unset
<1>6. ArgumentsSoFar' /\ ArgumentsDelivered' /\ CallerRestored' /\ ValueReturned'
  BY <1>1, <1>2, <1>3 DEF MachineInv, ArgumentsSoFar, ArgumentsDelivered, CallerRestored, ValueReturned, Caller, Tag
<1>7. QED
  BY <1>4, <1>5, <1>6 DEF MachineInv
-----------------------------------------------------------------------------
(* What is proved of the allocator holds while the code runs.               *)
LEMMA FactsHold == MachineSpec => []Facts
<1>1. Spec => []Facts
  BY Typing, Ranges, Frame, ScanInvariant, Interference, CallsPreserve, FrameIsSound, LoopsKept,
     PTL DEF Facts
<1>2. QED
  BY <1>1, MachineUsesAllocator, PTL

(* The inductive invariant of the machine: while the code of a well-formed  *)
(* text runs, each value still wanted is in the register or slot the        *)
(* allocator gave it, the locals and the caller's registers are in the frame*)
(* or where they were, and the argument registers hold the parameters as long*)
(* as these are taken from them (codegen_x86.c:6-118, 479-583).             *)
THEOREM ValuesStayInPlace == MachineSpec => []MachineInv
<1>1. ASSUME MachineInit PROVE MachineInv
  <2>1. stage = "allocate" /\ pc = 1 /\ DOMAIN value = VRegs
    BY <1>1 DEF MachineInit
  <2>2. QED
    BY <2>1 DEF MachineInv, StageInv, FrameKept, CalleeKept, ParametersThere, ValuesPlaced, Started,
                Underway, ArgumentsSoFar, ArgumentsDelivered, CallerRestored, ValueReturned
<1>2. ASSUME Facts, MachineInv, [MachineNext]_allVars PROVE MachineInv'
  <2>1. CASE Allocate
    BY <1>2, <2>1, AllocateKeeps
  <2>2. CASE Prologue
    BY <1>2, <2>2, PrologueKeeps
  <2>3. CASE Compute
    BY <1>2, <2>3, ComputeKeeps
  <2>4. CASE NoEffect
    BY <1>2, <2>4, NoEffectKeeps
  <2>5. CASE StoreLocal
    BY <1>2, <2>5, StoreLocalKeeps
  <2>6. CASE Branch
    BY <1>2, <2>6, BranchKeeps
  <2>7. CASE CompareAndBranch
    BY <1>2, <2>7, CompareAndBranchKeeps
  <2>8. CASE BeginCall
    BY <1>2, <2>8, BeginCallKeeps
  <2>9. CASE PassArgument
    BY <1>2, <2>9, PassArgumentKeeps
  <2>10. CASE EnterCallee
    BY <1>2, <2>10, EnterCalleeKeeps
  <2>11. CASE ReturnFromCall
    BY <1>2, <2>11, ReturnFromCallKeeps
  <2>12. CASE ReturnValue
    BY <1>2, <2>12, ReturnValueKeeps
  <2>13. CASE UNCHANGED allVars
    BY <1>2, <2>13, StutterKeeps
  <2>14. QED
    BY <1>2, <2>1, <2>2, <2>3, <2>4, <2>5, <2>6, <2>7, <2>8, <2>9, <2>10, <2>11, <2>12, <2>13
       DEF MachineNext
<1>3. QED
  BY <1>1, <1>2, FactsHold, PTL DEF MachineSpec

(* Whatever an instruction reads is where the allocator put it and is what   *)
(* the code means it to be, on every path through every well-formed text    *)
(* (codegen_x86.c:6-64).                                                    *)
THEOREM ReadsFindTheirValues == MachineSpec => []ReadsAreRight
<1>1. ASSUME Facts, MachineInv PROVE ReadsAreRight
  <2> SUFFICES ASSUME stage = "run", NEW v \in Reads(Here) PROVE Loaded(V(v)) = value[v]
    BY DEF ReadsAreRight
  <2>1. pc \in Positions /\ Underway
    BY <1>1 DEF MachineInv, StageInv, Started, Underway
  <2>2. v \in VRegs
    BY <1>1, <2>1, Mentioned DEF Facts, Here
  <2>3. V(v).vreg = v
    BY DEF V
  <2>4. Loaded(V(v)) = Meaning(V(v))
    BY <1>1, <2>1, <2>2, <2>3, Reading DEF Facts
  <2>5. QED
    BY <2>2, <2>3, <2>4 DEF Meaning
<1>2. QED
  BY <1>1, FactsHold, ValuesStayInPlace, PTL

(* When a callee is entered every argument, in its register or on the stack *)
(* below the frame, and the target in r11 are what the code means them to   *)
(* be: each was loaded from a place nothing loaded or stored before it had  *)
(* touched, and nothing after it touched it (codegen_x86.c:479-512).        *)
THEOREM ArgumentsReachCallee == MachineSpec => []ArgumentsDelivered
BY ValuesStayInPlace, PTL DEF MachineInv

(* No save, spill or store reaches a local it is not meant for              *)
(* (codegen_x86.c:84-118).                                                  *)
THEOREM LocalsStayIntact == MachineSpec => []LocalsIntact
<1>1. MachineInv => LocalsIntact
  BY DEF MachineInv, FrameKept, Started, LocalsIntact
<1>2. QED
  BY <1>1, ValuesStayInPlace, PTL

(* The epilogue gives the caller its registers back                         *)
(* (codegen_x86.c:113-118, 577-583),                                        *)
THEOREM CallerGetsItsRegisters == MachineSpec => []CallerRestored
BY ValuesStayInPlace, PTL DEF MachineInv

(* and leaves the value the function returns in rax.                        *)
THEOREM ReturnedValueSurvives == MachineSpec => []ValueReturned
BY ValuesStayInPlace, PTL DEF MachineInv
=============================================================================
