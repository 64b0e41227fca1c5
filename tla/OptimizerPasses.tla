---------------------------- MODULE OptimizerPasses ----------------------------
(***************************************************************************)
(* The nine passes of the optimizer of three-address code (src/opt.c), each *)
(* from the code of one function to the code it is rewritten to.            *)
(*                                                                          *)
(* What a pass knows at an instruction it reads off the code above it: the  *)
(* tables it keeps down the text are that and nothing else.  The table of   *)
(* constants in locals holds MaxStackConsts of them; the capacity of the    *)
(* tables of stores, a quarter of the frame and 64 more, is above the       *)
(* number of locals.  The arithmetic of the compiler itself, which folding  *)
(* relies on, is a parameter: nothing here depends on what it answers.      *)
(***************************************************************************)
EXTENDS IR, FiniteSetsExt

CONSTANTS
  MaxShift,          \* the highest power of two that is looked for: 62
  MaxStackConsts,    \* the places in the table of constants
  Folded(_, _, _)    \* an operation on two constants

ASSUME MaxShiftAssumption == MaxShift \in Nat
ASSUME MaxStackConstsAssumption == MaxStackConsts \in Nat \ {0}

(* The instructions at the positions kept, in their order. *)
Only(code, kept) ==
  LET upto[k \in 0..Len(code)] ==
        IF k = 0 THEN << >>
        ELSE IF k \in kept THEN Append(upto[k - 1], code[k]) ELSE upto[k - 1]
  IN  upto[Len(code)]
\* Mutant: no local's address is seen to be taken.
EscapingNone(code) == {}
Escaping(code) == {code[k].offset : k \in {j \in DOMAIN code : code[j].op = "ADDR_STACK"}}
CondJump == {"JMP_IF_ZERO", "JMP_IF_NOT_ZERO"}
Arithmetic == Binary \cup Compare

(***************************************************************************)
(* Constant propagation and folding, down the text.  A register is known at *)
(* a position when an instruction above it became an IMM, and has no other  *)
(* definition unless it was folded; a local, when the last store to it      *)
(* stores a constant and the local has an entry in the table, which takes   *)
(* the first locals that need one and is cleared with what it holds.        *)
(* Folding takes no notice of doubles.                                      *)
(***************************************************************************)
Definitions(code, v) == Cardinality({k \in DOMAIN code : code[k].dest = v})
Foldable(i) ==
  /\ i.op \in Arithmetic /\ i.src1.vreg = 0 /\ i.src2.vreg = 0
  /\ i.op \in {"DIV", "MOD"} => i.src2.imm # 0
\* Mutant: a store through a pointer leaves the table of constants as it was.
ClearsNotAtStores(i) == i.op \in {"LABEL", "CALL"}
Clears(i) == i.op \in {"LABEL", "CALL", "STORE"}
Forgets(i, o) ==
  Clears(i) \/ (i.op \in {"STORE_STACK", "ADDR_STACK"} /\ i.offset = o)
LastStores(code, k) ==
  {j \in 1..(k - 1) : /\ code[j].op = "STORE_STACK" /\ code[j].offset = code[k].offset
                      /\ \A m \in (j + 1)..(k - 1) : ~Forgets(code[m], code[k].offset)}

(* What is known below the instructions above, as they are now.            *)
HasEntry(code, above, j) ==
  LET since == Max({0} \cup {m \in 1..j : Clears(code[m])})
      needs == {m \in (since + 1)..j : code[m].op = "STORE_STACK" /\ above[m].src1.vreg = 0}
      first == Min({m \in needs : code[m].offset = code[j].offset})
  IN  j \in needs /\ Cardinality({code[m].offset : m \in {n \in needs : n < first}}) < MaxStackConsts
Records(code, above, j) ==
  /\ above[j].op = "IMM"
  /\ code[j].op \in Arithmetic \/ Definitions(code, code[j].dest) = 1
Substituted(code, above, o) ==
  LET known == {j \in DOMAIN above : o.vreg > 0 /\ code[j].dest = o.vreg /\ Records(code, above, j)}
  IN  IF known = {} THEN o ELSE above[Max(known)].src1
Propagated(code, above) ==
  LET i == code[Len(above) + 1]
      one == [i EXCEPT !.src1 = Substituted(code, above, @)]
      two == [one EXCEPT !.src2 = Substituted(code, above, @)]
      Const(n) == [Imm(i.dest, n) EXCEPT !.fp = i.fp]
      held == {above[j].src1 : j \in {l \in LastStores(code, Len(above) + 1) : HasEntry(code, above, l)}}
  IN
  CASE i.op \in {"STORE", "STORE_STACK", "RET"} \cup CondJump -> one
    [] i.op = "CALL" -> [i EXCEPT !.args = [n \in DOMAIN @ |-> Substituted(code, above, @[n])]]
    [] i.op = "LOAD_STACK" ->
         IF held # {} THEN Const((CHOOSE o \in held : TRUE).imm) ELSE i
    [] i.op = "MOV" -> IF one.src1.vreg = 0 THEN Const(one.src1.imm) ELSE i
    [] i.op \in Arithmetic ->
         IF Foldable(two) THEN Const(Folded(i.op, two.src1.imm, two.src2.imm)) ELSE two
    [] OTHER -> i
ConstantPropagation(code) ==
  LET upto[k \in 0..Len(code)] ==
        IF k = 0 THEN << >>
        ELSE LET above == upto[k - 1] IN Append(above, Propagated(code, above))
  IN  upto[Len(code)]

(***************************************************************************)
(* Copy propagation: one map for the whole function, from the register a    *)
(* move defines to the oldest register its value came from; from any other  *)
(* register to itself.                                                      *)
(***************************************************************************)
IsCopy(i) == i.op = "MOV" /\ i.dest > 0 /\ i.src1.vreg > 0
SelfMove(i) == IsCopy(i) /\ i.dest = i.src1.vreg
(* A way through the map is no longer than the map.                         *)
CopyRoot(map, r) ==
  LET at[n \in 0..Cardinality(DOMAIN map)] ==
        IF n = 0 THEN r
        ELSE LET curr == at[n - 1] IN IF curr \in DOMAIN map THEN map[curr] ELSE curr
  IN  at[Cardinality(DOMAIN map)]
CopyMap(code) ==
  LET copied == {code[k].dest : k \in {j \in DOMAIN code : IsCopy(code[j])}}
      upto[k \in 0..Len(code)] ==
        IF k = 0 THEN [d \in copied |-> d]
        ELSE LET map == upto[k - 1]
                 i == code[k]
                 root == CopyRoot(map, i.src1.vreg)
             IN  IF IsCopy(i) /\ ~SelfMove(i) /\ root # i.dest THEN [map EXCEPT ![i.dest] = root] ELSE map
  IN  upto[Len(code)]
CopyPropagation(code) ==
  LET map == CopyMap(code)
      Rooted(o) == [o EXCEPT !.vreg = CopyRoot(map, @)]
      Renamed(i) ==
        [i EXCEPT !.src1 = Rooted(@), !.src2 = Rooted(@),
                  !.args = [k \in DOMAIN @ |-> Rooted(@[k])],
                  !.dest = IF i.op = "STORE" THEN CopyRoot(map, @) ELSE @]
      kept == Only(code, {k \in DOMAIN code : ~SelfMove(code[k])})
  IN  [k \in DOMAIN kept |-> Renamed(kept[k])]

(***************************************************************************)
(* Store-to-load forwarding: a load becomes what the last store above it    *)
(* stored, unless that may have been lost on the way: at a label, a call, a *)
(* store through a pointer when the local's address is taken, or where the  *)
(* stored register is redefined.  An argument's place is not entered.       *)
(***************************************************************************)
Enters(i, o) == i.op = "STORE_STACK" /\ i.offset = o /\ i.src1.vreg >= 0
Loses(code, i, o, held) ==
  \/ i.op \in {"LABEL", "CALL"} \/ Enters(i, o)
  \/ i.op = "STORE" /\ o \in Escaping(code)
  \/ i.op \notin {"STORE", "LOAD_STACK"} /\ i.dest > 0 /\ held.vreg = i.dest
Forwarded(i, held) == IF held.vreg = 0 THEN Imm(i.dest, held.imm) ELSE Mov(i.dest, held)
StoreLoadForwarding(code) ==
  LET o(k) == code[k].offset
      From(k) == {j \in 1..(k - 1) :
                    /\ code[k].op = "LOAD_STACK" /\ Enters(code[j], o(k))
                    /\ \A m \in (j + 1)..(k - 1) : ~Loses(code, code[m], o(k), code[j].src1)}
  IN  [k \in DOMAIN code |->
         IF From(k) = {} THEN code[k]
         ELSE Forwarded(code[k], code[CHOOSE j \in From(k) : TRUE].src1)]

(***************************************************************************)
(* Dead stores: a store to a local that another overwrites before anything  *)
(* can have read it.                                                        *)
(***************************************************************************)
MayRead(i, o) ==
  i.op \in {"LABEL", "CALL", "RET"} \cup Jump \/ (i.op = "LOAD_STACK" /\ i.offset = o)
Overwritten(code, j) ==
  /\ code[j].op = "STORE_STACK" /\ code[j].offset \notin Escaping(code)
  /\ \E k \in (j + 1)..Len(code) :
       /\ code[k].op = "STORE_STACK" /\ code[k].offset = code[j].offset
       /\ \A m \in (j + 1)..(k - 1) : ~MayRead(code[m], code[j].offset)
DeadStoreElimination(code) == Only(code, {k \in DOMAIN code : ~Overwritten(code, k)})

(***************************************************************************)
(* Algebraic simplification of one operation, by the first rule that fits.  *)
(* Nothing asks whether the operands are doubles or unsigned.               *)
(***************************************************************************)
Is(o, k) == o.vreg = 0 /\ o.imm = k
Shift(o) == IF o.vreg = 0 /\ \E k \in 1..MaxShift : o.imm = 2^k
            THEN CHOOSE k \in 1..MaxShift : o.imm = 2^k ELSE 0

\* Mutant: a subtraction from zero is taken back to the product it came from.
SimplifiedBackAndForth(i) ==
  IF i.op = "MUL" /\ Is(i.src2, -1) THEN [i EXCEPT !.op = "SUB", !.src1 = K(0), !.src2 = i.src1]
  ELSE IF i.op = "SUB" /\ Is(i.src1, 0) THEN [i EXCEPT !.op = "MUL", !.src1 = i.src2, !.src2 = K(-1)]
  ELSE i
Simplified(i) ==
  LET l == i.src1
      r == i.src2
      same == l.vreg > 0 /\ l.vreg = r.vreg
      Copy(o) == [i EXCEPT !.op = "MOV", !.src1 = o, !.src2 = K(0)]
      Const(k) == [i EXCEPT !.op = "IMM", !.src1 = K(k), !.src2 = K(0)]
      Negated(o) == [i EXCEPT !.op = "SUB", !.src1 = K(0), !.src2 = o, !.fp = FALSE]
      Shifted(o, k) == [i EXCEPT !.op = "SHL", !.src1 = o, !.src2 = K(k)]
  IN
  IF i.op \in {"ADD", "SUB", "OR", "XOR", "SHL", "SHR"} /\ Is(r, 0) THEN Copy(l)
  ELSE IF i.op \in {"ADD", "OR", "XOR"} /\ Is(l, 0) THEN Copy(r)
  ELSE IF i.op \in {"SUB", "XOR", "MOD"} /\ same THEN Const(0)
  ELSE IF i.op \in {"MUL", "DIV"} /\ Is(r, -1) THEN Negated(l)
  ELSE IF i.op = "MUL" /\ Is(l, -1) THEN Negated(r)
  ELSE IF i.op \in {"MUL", "AND"} /\ (Is(r, 0) \/ Is(l, 0)) THEN Const(0)
  ELSE IF i.op \in {"MUL", "DIV"} /\ Is(r, 1) THEN Copy(l)
  ELSE IF i.op = "MUL" /\ Is(l, 1) THEN Copy(r)
  ELSE IF i.op = "MUL" /\ Shift(r) # 0 THEN Shifted(l, Shift(r))
  ELSE IF i.op = "MUL" /\ Shift(l) # 0 THEN Shifted(r, Shift(l))
  ELSE IF i.op = "MOD" /\ Is(r, 1) THEN Const(0)
  ELSE IF i.op \in {"DIV", "MOD"} /\ Is(l, 0) /\ ~Is(r, 0) THEN Const(0)
  ELSE IF i.op = "DIV" /\ same THEN Const(1)
  ELSE IF i.op \in {"AND", "OR"} /\ same THEN Copy(l)
  ELSE IF i.op = "AND" /\ Is(r, -1) THEN Copy(l)
  ELSE IF i.op = "AND" /\ Is(l, -1) THEN Copy(r)
  ELSE IF i.op = "OR" /\ (Is(r, -1) \/ Is(l, -1)) THEN Const(-1)
  ELSE IF i.op \in {"SHL", "SHR"} /\ Is(l, 0) THEN Const(0)
  ELSE IF i.op \in {"CMP_EQ", "CMP_LE", "CMP_GE"} /\ same THEN Const(1)
  ELSE IF i.op \in {"CMP_NE", "CMP_LT", "CMP_GT"} /\ same THEN Const(0)
  ELSE i
AlgebraicSimplification(code) == [k \in DOMAIN code |-> Simplified(code[k])]

(***************************************************************************)
(* Control flow, first pass: branches on a constant; jumps to the label     *)
(* right behind them; jumps to jumps, each rewritten before the next is     *)
(* followed; labels nothing refers to, unless a jump or a return precedes.  *)
(***************************************************************************)
Taken(i) == (i.op = "JMP_IF_ZERO") = (i.src1.imm = 0)
ConstantBranch(i) == i.op \in CondJump /\ i.src1.vreg = 0
ConstantBranches(code) ==
  LET kept == Only(code, {k \in DOMAIN code : ConstantBranch(code[k]) => Taken(code[k])})
  IN  [k \in DOMAIN kept |-> IF ConstantBranch(kept[k]) THEN Jmp(kept[k].label) ELSE kept[k]]

(* The label right behind a position is l.                                  *)
LabelBehind(code, k, l) == k < Len(code) /\ IsLabel(code[k + 1], l)
DeadJumps(code) ==
  Only(code, {k \in DOMAIN code : ~(code[k].op \in Jump /\ LabelBehind(code, k, code[k].label))})

(* Where a jump to l goes on to, and that seven times more.                 *)
Hop(code, l) ==
  LET p == LabelPos(code, l)
  IN  IF p > 0 /\ p < Len(code) /\ code[p + 1].op = "JMP" THEN code[p + 1].label ELSE l
MaxHops == 8
ThreadTarget(code, l) ==
  LET target[n \in 0..MaxHops] == IF n = 0 THEN l ELSE Hop(code, target[n - 1]) IN target[MaxHops]
Threaded(code) ==
  LET upto[k \in 0..Len(code)] ==
        IF k = 0 THEN code
        ELSE LET c == upto[k - 1]
             IN  IF c[k].op \in Jump THEN [c EXCEPT ![k].label = ThreadTarget(c, @)] ELSE c
  IN  upto[Len(code)]

\* Mutant: only unconditional jumps count as references.
ReferencedByJmp(code, l) == \E k \in DOMAIN code : code[k].op = "JMP" /\ code[k].label = l
Referenced(code, l) == \E k \in DOMAIN code : code[k].op \in Jump /\ code[k].label = l
UnusedLabels(code) ==
  Only(code, {k \in DOMAIN code : \/ code[k].op # "LABEL" \/ Referenced(code, code[k].label)
                                  \/ k > 1 /\ code[k - 1].op \in {"JMP", "RET"}})

CfgOptimization(code) == UnusedLabels(Threaded(DeadJumps(ConstantBranches(code))))

(***************************************************************************)
(* Control flow, second pass: a branch over a jump is inverted and takes    *)
(* its target; a branch before a jump to the same place goes; labels in a   *)
(* row become the first; nothing is kept between a jump or a return and     *)
(* the next label.                                                          *)
(***************************************************************************)
SkipsJump(code, k) ==
  /\ code[k].op \in CondJump
  /\ k < Len(code) /\ code[k + 1].op = "JMP"
  /\ LabelBehind(code, k + 1, code[k].label)
Inverted(code) ==
  LET other == [op \in CondJump |-> CHOOSE o \in CondJump : o # op]
      turned == [k \in DOMAIN code |->
                   IF SkipsJump(code, k)
                   THEN [code[k] EXCEPT !.op = other[@], !.label = code[k + 1].label] ELSE code[k]]
  IN  Only(turned, {k \in DOMAIN code : k = 1 \/ ~SkipsJump(code, k - 1)})

SameTargets(code) ==
  Only(code, {k \in DOMAIN code : ~(/\ code[k].op \in CondJump
                                    /\ k < Len(code) /\ code[k + 1].op = "JMP"
                                    /\ code[k + 1].label = code[k].label)})

(* The first label of a row, and that of the row a label is in.             *)
IsRowHead(code, p) == code[p].op = "LABEL" /\ (p > 1 => code[p - 1].op # "LABEL")
RowHead(code, p) ==
  CHOOSE h \in 1..p : IsRowHead(code, h) /\ \A m \in h..p : code[m].op = "LABEL"
OneLabelInARow(code) ==
  LET Name(l) == LET p == LabelPos(code, l) IN IF p = 0 THEN l ELSE code[RowHead(code, p)].label
      renamed == [k \in DOMAIN code |->
                    IF code[k].op \in Jump THEN [code[k] EXCEPT !.label = Name(@)] ELSE code[k]]
  IN  Only(renamed, {k \in DOMAIN code : code[k].op = "LABEL" => IsRowHead(code, k)})

\* Mutant: what follows a conditional jump goes as well.
AfterAnyJump(code) ==
  Only(code, {k \in DOMAIN code : \A j \in 1..(k - 1) : code[j].op \in Jump \cup {"RET"} =>
                                   \E m \in (j + 1)..k : code[m].op = "LABEL"})
AfterJump(code) ==
  Only(code, {k \in DOMAIN code : \A j \in 1..(k - 1) : code[j].op \in {"JMP", "RET"} =>
                                   \E m \in (j + 1)..k : code[m].op = "LABEL"})

CfgSimplify(code) == AfterJump(OneLabelInARow(SameTargets(Inverted(code))))

(***************************************************************************)
(* Blocks no path from the entry reaches.  After AfterJump a jump or a      *)
(* return only ends a block, so that a block is reached where its first     *)
(* instruction is.                                                          *)
(***************************************************************************)
Successors(code, k) ==
  (IF code[k].op \in Jump THEN {LabelPos(code, code[k].label)} ELSE {})
  \cup (IF code[k].op \in {"JMP", "RET"} THEN {} ELSE {k + 1})
Edges(code) == UNION {{<<k, j>> : j \in Successors(code, k) \cap DOMAIN code} : k \in DOMAIN code}
(* Each round reaches further, until one does not.                          *)
Reached(edges, rounds) ==
  LET seen[n \in 0..rounds] ==
        IF n = 0 THEN {1}
        ELSE LET s == seen[n - 1] IN s \cup {e[2] : e \in {d \in edges : d[1] \in s}}
  IN  seen[rounds]
Reach(code) == Reached(Edges(code), Len(code))
UnreachableBlockRemoval(code) == LET open == AfterJump(code) IN Only(open, Reach(open))

(***************************************************************************)
(* Dead code: what only computes a register that nothing reads.             *)
(***************************************************************************)
Pure == Arithmetic \cup {"IMM", "MOV", "LOAD_STACK", "ADDR_STACK"}
DeadCodeElimination(code) ==
  LET used == UNION {Reads(code[k]) : k \in DOMAIN code}
  IN  Only(code, {k \in DOMAIN code : code[k].op \in Pure /\ code[k].dest > 0 => code[k].dest \in used})

-----------------------------------------------------------------------------
(* The passes in the order opt_run_pipeline calls them.                     *)
Passes == << "forward", "dead stores", "constants", "copies", "algebra",
             "flow", "simplify", "unreachable", "dead code" >>
Rewritten(pass, code) ==
  CASE pass = "forward" -> StoreLoadForwarding(code)
    [] pass = "dead stores" -> DeadStoreElimination(code)
    [] pass = "constants" -> ConstantPropagation(code)
    [] pass = "copies" -> CopyPropagation(code)
    [] pass = "algebra" -> AlgebraicSimplification(code)
    [] pass = "flow" -> CfgOptimization(code)
    [] pass = "simplify" -> CfgSimplify(code)
    [] pass = "unreachable" -> UnreachableBlockRemoval(code)
    [] pass = "dead code" -> DeadCodeElimination(code)
MaxIters(level) == IF level >= 2 THEN 10 ELSE 4
=============================================================================
