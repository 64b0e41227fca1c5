------------------------- MODULE PreprocessorProofs -------------------------
(***************************************************************************)
(* Proofs about the preprocessor, for any files, any options and any       *)
(* limits.                                                                 *)
(***************************************************************************)
EXTENDS Preprocessor, SequenceTheorems, FiniteSetTheorems, WellFoundedInduction, TLAPS

(***************************************************************************)
(* THE TABLE OF MACROS                                                     *)
(*                                                                         *)
(* What the first entry of a name is, and that definitions and             *)
(* undefinitions, in any order, leave every name at most one entry.        *)
(***************************************************************************)
Entries(D) == [name : Names \cup {NoName}, def : D]

(* Every set of numbers that is not empty has a least one.                 *)
LEMMA LeastExists ==
  ASSUME NEW S, S \subseteq Nat, S # {}
  PROVE  \E i \in S : \A j \in S : i <= j
<1>1. PICK i \in S : \A j \in S : ~(<<j, i>> \in OpToRel(<, Nat))
  BY WFMin, NatLessThanWellFounded
<1>2. \A j \in S : ~(j < i)
  BY <1>1 DEF OpToRel
<1>3. QED
  BY <1>2

(* find_macro finds an entry of that name, and 0 only when there is none.  *)
LEMMA FindFinds ==
  ASSUME NEW D, NEW t \in Seq(Entries(D)), NEW n
  PROVE  /\ Find(t, n) \in 0..Len(t)
         /\ Find(t, n) # 0 => t[Find(t, n)].name = n
         /\ Find(t, n) = 0 => \A i \in 1..Len(t) : t[i].name # n
<1> DEFINE same == {i \in DOMAIN t : t[i].name = n}
<1>1. DOMAIN t = 1..Len(t) /\ Len(t) \in Nat
  BY LenProperties
<1>2. CASE same = {}
  BY <1>1, <1>2 DEF Find
<1>3. CASE same # {}
  <2>1. \E i \in same : \A j \in same : i <= j
    <3>1. same \subseteq Nat
      BY <1>1
    <3>2. QED
      BY <3>1, <1>3, LeastExists
  <2>2. Find(t, n) = CHOOSE i \in same : \A j \in same : i <= j
    BY <1>3 DEF Find
  <2>3. Find(t, n) \in same
    BY <2>1, <2>2
  <2>4. QED
    BY <2>3, <1>1
<1>4. QED
  BY <1>2, <1>3

(* Where a definition goes: to the entry of the name, or where no other    *)
(* entry with a name is.                                                   *)
LEMMA SlotFits ==
  ASSUME NEW D, NEW t \in Seq(Entries(D)), NEW n
  PROVE  /\ Slot(t, n) \in 1..(Len(t) + 1)
         /\ Find(t, n) # 0 => Slot(t, n) = Find(t, n)
         /\ Find(t, n) = 0 /\ Slot(t, n) <= Len(t) => t[Slot(t, n)].name = NoName
<1>1. Len(t) \in Nat
  BY LenProperties
<1>2. CASE Find(t, n) # 0
  BY <1>1, <1>2, FindFinds DEF Slot
<1>3. CASE Find(t, n) = 0
  <2>1. /\ Find(t, NoName) \in 0..Len(t)
        /\ Find(t, NoName) # 0 => t[Find(t, NoName)].name = NoName
    BY FindFinds
  <2>2. QED
    BY <1>1, <1>3, <2>1 DEF Slot
<1>4. QED
  BY <1>2, <1>3

(* What a table is after a definition.                                     *)
LEMMA WithMacroIs ==
  ASSUME NEW D, NEW t \in Seq(Entries(D)), NEW n \in Names, NEW d \in D
  PROVE  /\ WithMacro(t, n, d) \in Seq(Entries(D))
         /\ Len(t) <= Len(WithMacro(t, n, d))
         /\ Len(WithMacro(t, n, d)) <= Len(t) + 1
         /\ Slot(t, n) \in 1..Len(WithMacro(t, n, d))
         /\ \A i \in 1..Len(WithMacro(t, n, d)) :
              WithMacro(t, n, d)[i] = IF i = Slot(t, n) THEN [name |-> n, def |-> d] ELSE t[i]
         /\ \A i \in 1..Len(WithMacro(t, n, d)) : i # Slot(t, n) => i \in 1..Len(t)
<1> DEFINE s == Slot(t, n)
           m == IF s > Len(t) THEN s ELSE Len(t)
           w == [i \in 1..m |-> IF i = s THEN [name |-> n, def |-> d] ELSE t[i]]
<1>1. Len(t) \in Nat /\ \A i \in 1..Len(t) : t[i] \in Entries(D)
  BY LenProperties, ElementOfSeq
<1>2. s \in 1..(Len(t) + 1)
  BY SlotFits
<1>3. m \in Nat /\ Len(t) <= m /\ m <= Len(t) + 1 /\ s \in 1..m
  BY <1>1, <1>2
<1>4. \A i \in 1..m : i # s => i \in 1..Len(t)
  BY <1>1, <1>2
<1>5. [name |-> n, def |-> d] \in Entries(D)
  BY DEF Entries
<1>6. w \in [1..m -> Entries(D)]
  <2> HIDE DEF m, s
  <2>1. QED
    BY <1>1, <1>4, <1>5
<1>7. w \in Seq(Entries(D)) /\ Len(w) = m
  <2> HIDE DEF m, w
  <2>1. w \in Seq(Entries(D))
    BY <1>6, <1>3, SeqDef
  <2>2. DOMAIN w = 1..m /\ DOMAIN w = 1..Len(w) /\ Len(w) \in Nat
    BY <1>6, <2>1, LenProperties
  <2>3. QED
    BY <2>1, <2>2, <1>3
<1>8. WithMacro(t, n, d) = w
  BY DEF WithMacro
<1>9. \A i \in 1..m : w[i] = IF i = s THEN [name |-> n, def |-> d] ELSE t[i]
  <2> HIDE DEF m, s
  <2>1. QED
    OBVIOUS
<1> HIDE DEF m, w
<1>10. QED
  BY <1>3, <1>4, <1>7, <1>8, <1>9

(* A definition leaves every name one entry.                               *)
LEMMA WithMacroKeepsOne ==
  ASSUME NEW D, NEW t \in Seq(Entries(D)), NEW n \in Names, NEW d \in D, OneEntryEach(t)
  PROVE  OneEntryEach(WithMacro(t, n, d))
<1> DEFINE w == WithMacro(t, n, d)
<1>1. DOMAIN w = 1..Len(w) /\ DOMAIN t = 1..Len(t) /\ Len(t) \in Nat /\ Len(w) \in Nat
  BY WithMacroIs, LenProperties
<1>2. \A i \in 1..Len(t) : t[i].name = n => i = Slot(t, n)
  BY FindFinds, SlotFits, <1>1, NoNameAssumption DEF OneEntryEach
<1> SUFFICES ASSUME NEW i \in 1..Len(w), NEW j \in 1..Len(w),
                    w[i].name = w[j].name, w[i].name # NoName
             PROVE  i = j
  BY <1>1 DEF OneEntryEach
<1>3. ASSUME NEW k \in 1..Len(w)
      PROVE  /\ k # Slot(t, n) => k \in 1..Len(t) /\ w[k] = t[k]
             /\ k = Slot(t, n) => w[k].name = n
  <2>1. /\ w[k] = IF k = Slot(t, n) THEN [name |-> n, def |-> d] ELSE t[k]
        /\ k # Slot(t, n) => k \in 1..Len(t)
    BY WithMacroIs
  <2>2. QED
    BY <2>1
<1> HIDE DEF w
<1>4. QED
  BY <1>1, <1>2, <1>3 DEF OneEntryEach

(* An undefinition makes one entry a hole.                                 *)
LEMMA WithoutMacroIs ==
  ASSUME NEW D, NEW t \in Seq(Entries(D)), NEW n
  PROVE  /\ WithoutMacro(t, n) \in Seq(Entries(D))
         /\ OneEntryEach(t) => OneEntryEach(WithoutMacro(t, n))
<1> DEFINE f == Find(t, n)
           w == [t EXCEPT ![f] = [t[f] EXCEPT !.name = NoName]]
<1>1. CASE ~IsDefined(t, n)
  BY <1>1 DEF WithoutMacro
<1>2. CASE IsDefined(t, n)
  <2>1. f \in 1..Len(t) /\ Len(t) \in Nat
    BY <1>2, FindFinds, LenProperties DEF IsDefined
  <2>2. t[f] \in Entries(D)
    BY <2>1, ElementOfSeq
  <2>3. [t[f] EXCEPT !.name = NoName] \in Entries(D) /\ [t[f] EXCEPT !.name = NoName].name = NoName
    BY <2>2 DEF Entries
  <2>4. WithoutMacro(t, n) = w
    BY <1>2 DEF WithoutMacro
  <2> DEFINE hole == [t[f] EXCEPT !.name = NoName]
  <2> HIDE DEF f, hole
  <2>5. /\ [t EXCEPT ![f] = hole] \in Seq(Entries(D)) /\ Len([t EXCEPT ![f] = hole]) = Len(t)
        /\ \A i \in 1..Len(t) : [t EXCEPT ![f] = hole][i] = IF i = f THEN hole ELSE t[i]
    BY <2>1, <2>3, ExceptSeq DEF hole
  <2>6. w = [t EXCEPT ![f] = hole]
    BY DEF hole
  <2> HIDE DEF w
  <2>7. w \in Seq(Entries(D)) /\ Len(w) = Len(t) /\ DOMAIN w = 1..Len(t) /\ DOMAIN t = 1..Len(t)
    BY <2>5, <2>6, LenProperties
  <2>8. ASSUME OneEntryEach(t) PROVE OneEntryEach(w)
    <3> SUFFICES ASSUME NEW i \in 1..Len(t), NEW j \in 1..Len(t),
                        w[i].name = w[j].name, w[i].name # NoName
                 PROVE  i = j
      BY <2>7 DEF OneEntryEach
    <3>1. i # f /\ j # f
      BY <2>3, <2>5, <2>6 DEF hole
    <3>2. w[i] = t[i] /\ w[j] = t[j]
      BY <3>1, <2>5, <2>6
    <3>3. QED
      BY <3>2, <2>7, <2>8 DEF OneEntryEach
  <2>9. QED
    BY <2>4, <2>7, <2>8
<1>3. QED
  BY <1>1, <1>2


USE DEF files, inclusion

(***************************************************************************)
(* TYPES                                                                   *)
(***************************************************************************)
Paths == Files \cup {Main}
Group == [parent : BOOLEAN, taken : BOOLEAN, active : BOOLEAN]
Buffers == [file : Paths, macro : Names \cup {NoName}, text : Bodies, pos : Nat, entry : Nat]
Verdicts == UNION {[D -> BOOLEAN] : D \in SUBSET Nat}
Records == [cond : Seq(Group), verdict : Verdicts]

StackTyped ==
  /\ stack \in Seq(Buffers) /\ Len(stack) \in 1..MaxDepth
  /\ \A d \in 1..Len(stack) : stack[d].pos \in 1..(Len(stack[d].text) + 1)
CondTyped == cond \in Seq(Group) /\ Len(cond) <= MaxCond
HistoryTyped == history \in Seq(Records) /\ Len(history) = Len(stack)
OnceTyped == once \in Seq(Paths) /\ Len(once) <= MaxOnce /\ asked \subseteq Paths /\ read \subseteq Files
TrackedTyped ==
  /\ tracked \subseteq Files /\ IsFiniteSet(tracked) /\ Cardinality(tracked) <= MaxFiles
  /\ opened \in 0..MaxFiles

Typed ==
  /\ options \in Options /\ option \in Nat \ {0} /\ text \in [Files -> Bodies]
  /\ StackTyped /\ CondTyped /\ HistoryTyped /\ OnceTyped /\ TrackedTyped
  /\ defs \in Seq(Entries(Bodies))
  /\ phase \in {"undefine", "define", "reading", "done", "fatal"}

(* The text the top buffer holds, and what its next item is.               *)
LEMMA TopTyped ==
  ASSUME Typed
  PROVE  /\ Len(stack) \in Nat \ {0} /\ stack[Len(stack)] = Top /\ Top \in Buffers
         /\ Len(Top.text) \in Nat /\ Top.pos \in 1..(Len(Top.text) + 1)
         /\ ~AtEnd => Item \in Items
<1>1. Len(stack) \in Nat \ {0} /\ Len(stack) \in 1..Len(stack)
  BY LimitsAssumption DEF Typed, StackTyped
<1>2. Top \in Buffers /\ Top.pos \in 1..(Len(Top.text) + 1)
  BY <1>1, ElementOfSeq DEF Typed, StackTyped, Top
<1>3. Top.text \in Seq(Items)
  BY <1>2 DEF Buffers, Bodies
<1>4. Len(Top.text) \in Nat /\ \A i \in 1..Len(Top.text) : Top.text[i] \in Items
  BY <1>3, LenProperties, ElementOfSeq
<1>5. ~AtEnd => Top.pos \in 1..Len(Top.text)
  BY <1>2, <1>4 DEF AtEnd
<1>6. QED
  BY <1>1, <1>2, <1>4, <1>5 DEF Item, Top

(* A buffer moved on by one item is a buffer, the same but for its place.  *)
LEMMA MovedOn ==
  ASSUME NEW F, NEW M, NEW T, NEW b \in [file : F, macro : M, text : T, pos : Nat, entry : Nat]
  PROVE  /\ [b EXCEPT !.pos = @ + 1] \in [file : F, macro : M, text : T, pos : Nat, entry : Nat]
         /\ [b EXCEPT !.pos = @ + 1].pos = b.pos + 1 /\ [b EXCEPT !.pos = @ + 1].text = b.text
         /\ [b EXCEPT !.pos = @ + 1].file = b.file /\ [b EXCEPT !.pos = @ + 1].macro = b.macro
         /\ [b EXCEPT !.pos = @ + 1].entry = b.entry
  OBVIOUS

(* Reading one item moves the top buffer and no other.                     *)
LEMMA AdvanceIs ==
  ASSUME Typed, ~AtEnd
  PROVE  /\ Advance \in Seq(Buffers) /\ Len(Advance) = Len(stack)
         /\ \A d \in 1..Len(stack) :
              /\ Advance[d].pos \in 1..(Len(Advance[d].text) + 1)
              /\ Advance[d].file = stack[d].file /\ Advance[d].macro = stack[d].macro
              /\ Advance[d].entry = stack[d].entry /\ Advance[d].text = stack[d].text
<1> DEFINE top == [stack[Len(stack)] EXCEPT !.pos = @ + 1]
<1>1. /\ Len(stack) \in 1..Len(stack) /\ stack \in Seq(Buffers) /\ stack[Len(stack)] \in Buffers
      /\ Len(Top.text) \in Nat /\ Top.pos \in 1..(Len(Top.text) + 1) /\ Top = stack[Len(stack)]
  BY TopTyped DEF Typed, StackTyped
<1>2. /\ top \in Buffers /\ top.pos = Top.pos + 1 /\ top.text = Top.text
      /\ top.file = Top.file /\ top.macro = Top.macro /\ top.entry = Top.entry
  <2>1. Top \in Buffers /\ top = [Top EXCEPT !.pos = @ + 1]
    BY <1>1
  <2> HIDE DEF top
  <2>2. QED
    BY <2>1, MovedOn DEF Buffers
<1>3. Top.pos + 1 \in 1..(Len(Top.text) + 1)
  BY <1>1 DEF AtEnd
<1>4. Advance = [stack EXCEPT ![Len(stack)] = top]
  BY DEF Advance
<1> HIDE DEF top
<1>5. /\ Advance \in Seq(Buffers) /\ Len(Advance) = Len(stack)
      /\ \A d \in 1..Len(stack) : Advance[d] = IF d = Len(stack) THEN top ELSE stack[d]
  BY <1>1, <1>2, <1>4, ExceptSeq
<1>6. ASSUME NEW d \in 1..Len(stack)
      PROVE  /\ Advance[d].pos \in 1..(Len(Advance[d].text) + 1)
             /\ Advance[d].file = stack[d].file /\ Advance[d].macro = stack[d].macro
             /\ Advance[d].entry = stack[d].entry /\ Advance[d].text = stack[d].text
  <2>1. CASE d = Len(stack)
    BY <2>1, <1>1, <1>2, <1>3, <1>5
  <2>2. CASE d # Len(stack)
    BY <2>2, <1>5 DEF Typed, StackTyped
  <2>3. QED
    BY <2>1, <2>2
<1>7. QED
  BY <1>5, <1>6

(* The stack keeps its type when an item is read.                          *)
LEMMA AdvanceTyped ==
  ASSUME Typed, ~AtEnd, stack' = Advance
  PROVE  StackTyped'
<1>1. Len(stack) \in 1..MaxDepth
  BY DEF Typed, StackTyped
<1>2. QED
  BY AdvanceIs, <1>1 DEF StackTyped

(* A verdict is recorded for the item read.                                *)
LEMMA RecordedTyped ==
  ASSUME Typed, ~AtEnd, Verdict(Item) \in BOOLEAN
  PROVE  /\ Recorded \in Seq(Records) /\ Len(Recorded) = Len(history)
         /\ \A d \in 1..Len(history) : Recorded[d].cond = history[d].cond
<1> DEFINE last == history[Len(history)]
           verdict == [p \in DOMAIN last.verdict \cup {Top.pos} |->
                         IF p = Top.pos THEN Verdict(Item) ELSE last.verdict[p]]
           new == [last EXCEPT !.verdict = verdict]
<1>1. Len(history) \in 1..Len(history) /\ history \in Seq(Records) /\ Top.pos \in Nat
  BY TopTyped DEF Typed, HistoryTyped
<1>2. last \in Records
  BY <1>1, ElementOfSeq
<1>3. PICK D \in SUBSET Nat : last.verdict \in [D -> BOOLEAN]
  BY <1>2 DEF Records, Verdicts
<1>4. verdict \in [D \cup {Top.pos} -> BOOLEAN]
  BY <1>3
<1>5. verdict \in Verdicts
  <2>1. D \cup {Top.pos} \in SUBSET Nat
    BY <1>1
  <2> HIDE DEF verdict
  <2>2. QED
    BY <1>4, <2>1 DEF Verdicts
<1>6. Recorded = [history EXCEPT ![Len(history)] = new]
  BY DEF Recorded
<1>7. new \in Records /\ new.cond = last.cond
  <2> HIDE DEF verdict
  <2>1. QED
    BY <1>2, <1>5 DEF Records
<1> HIDE DEF new
<1>8. /\ Recorded \in Seq(Records) /\ Len(Recorded) = Len(history)
      /\ \A d \in 1..Len(history) : Recorded[d] = IF d = Len(history) THEN new ELSE history[d]
  BY <1>1, <1>6, <1>7, ExceptSeq
<1>9. QED
  BY <1>7, <1>8

(* A condition holds or does not.                                          *)
LEMMA VerdictTyped ==
  ASSUME Reads({"if", "elif", "ifdef", "ifndef", "else"})
  PROVE  Verdict(Item) \in BOOLEAN
  BY DEF Reads, Verdict, Holds
(* A buffer is pushed on the stack moved past the item.                    *)
LEMMA EnteredTyped ==
  ASSUME Typed, ~AtEnd, Len(stack) < MaxDepth, NEW b, b \in Buffers, b.pos = 1,
         Entered(b, Advance)
  PROVE  /\ StackTyped' /\ HistoryTyped'
         /\ Len(stack') = Len(stack) + 1 /\ stack'[Len(stack) + 1] = b
         /\ \A d \in 1..Len(stack) : stack'[d] = Advance[d] /\ history'[d] = history[d]
         /\ history'[Len(stack) + 1].cond = cond
<1>1. /\ Advance \in Seq(Buffers) /\ Len(Advance) = Len(stack) /\ Len(stack) \in Nat
      /\ history \in Seq(Records) /\ Len(history) = Len(stack) /\ cond \in Seq(Group)
  BY AdvanceIs, TopTyped DEF Typed, HistoryTyped, CondTyped
<1>2. /\ stack' \in Seq(Buffers) /\ Len(stack') = Len(stack) + 1
      /\ \A d \in 1..Len(stack) : stack'[d] = Advance[d]
      /\ stack'[Len(stack) + 1] = b
  BY <1>1, AppendProperties DEF Entered
<1>3. NoVerdict \in Verdicts
  <2>1. NoVerdict \in [{} -> BOOLEAN] /\ {} \in SUBSET Nat
    BY DEF NoVerdict
  <2>2. QED
    BY <2>1 DEF Verdicts
<1>4. [cond |-> cond, verdict |-> NoVerdict] \in Records
  BY <1>1, <1>3 DEF Records
<1>5. /\ history' \in Seq(Records) /\ Len(history') = Len(stack) + 1
      /\ \A d \in 1..Len(stack) : history'[d] = history[d]
      /\ history'[Len(stack) + 1] = [cond |-> cond, verdict |-> NoVerdict]
  BY <1>1, <1>4, AppendProperties DEF Entered
<1>6. b.pos \in 1..(Len(b.text) + 1)
  <2>1. Len(b.text) \in Nat
    BY LenProperties DEF Buffers, Bodies
  <2>2. QED
    BY <2>1
<1>7. ASSUME NEW d \in 1..Len(stack') PROVE stack'[d].pos \in 1..(Len(stack'[d].text) + 1)
  <2>1. CASE d = Len(stack) + 1
    BY <2>1, <1>2, <1>6
  <2>2. CASE d \in 1..Len(stack)
    BY <2>2, <1>2, AdvanceIs
  <2>3. QED
    BY <2>1, <2>2, <1>1, <1>2
<1>8. StackTyped'
  BY <1>1, <1>2, <1>7, LimitsAssumption DEF StackTyped
<1>9. QED
  BY <1>2, <1>5, <1>8 DEF HistoryTyped

(* What tracking one more file does, whether or not there is room.         *)
LEMMA TrackedIs ==
  ASSUME Typed, NEW f \in Files
  PROVE  /\ Tracked(f) \subseteq Files /\ IsFiniteSet(Tracked(f)) /\ Cardinality(Tracked(f)) <= MaxFiles
         /\ Cardinality(Tracked(f)) <= Cardinality(tracked) + 1
         /\ f \in tracked => Cardinality(Tracked(f)) = Cardinality(tracked)
         /\ tracked \subseteq Tracked(f)
         /\ Cardinality(tracked) < MaxFiles => f \in Tracked(f)
<1>1. IsFiniteSet(tracked) /\ Cardinality(tracked) \in Nat
  BY FS_CardinalityType DEF Typed, TrackedTyped
<1>2. /\ IsFiniteSet(tracked \cup {f})
      /\ Cardinality(tracked \cup {f}) =
           IF f \in tracked THEN Cardinality(tracked) ELSE Cardinality(tracked) + 1
  BY <1>1, FS_AddElement
<1>3. QED
  BY <1>1, <1>2, LimitsAssumption DEF Tracked, Typed, TrackedTyped

(* Where a header is found it names a file.                                *)
LEMMA ResolvedTyped ==
  ASSUME NEW item, Found(item) # {}
  PROVE  Resolved(item) \in Files
<1> DEFINE quoted == IF item.quoted THEN <<Top.file[1], Cwd>> ELSE <<>>
           paths == {SearchPaths[k] : k \in DOMAIN SearchPaths}
           all == paths \cup {Top.file[1], Cwd}
           dirs == quoted \o SearchPaths
<1>1. dirs \in Seq(all)
  <2>1. SearchPaths \in Seq(all)
    <3>1. SearchPaths \in Seq(paths) /\ paths \subseteq all
      BY TextsAssumption
    <3> HIDE DEF paths, all
    <3>2. QED
      BY <3>1, SeqMonotonic
  <2>2. quoted \in Seq(all)
    <3>1. Top.file[1] \in all /\ Cwd \in all
      OBVIOUS
    <3> HIDE DEF all, paths
    <3>2. <<Top.file[1], Cwd>> \in Seq(all) /\ <<>> \in Seq(all)
      BY <3>1, EmptySeq
    <3>3. QED
      BY <3>2
  <2> HIDE DEF quoted, all
  <2>3. QED
    BY <2>1, <2>2, ConcatProperties
<1>2. DOMAIN dirs \subseteq Nat
  <2> HIDE DEF dirs, all
  <2>1. QED
    BY <1>1, LenProperties
<1>3. Candidates(item) = [i \in DOMAIN dirs |-> <<dirs[i], item.header>>]
  BY DEF Candidates
<1>4. Found(item) \subseteq Nat
  <2> HIDE DEF dirs
  <2>1. QED
    BY <1>2, <1>3 DEF Found
<1>5. \E i \in Found(item) : \A j \in Found(item) : i <= j
  BY <1>4, LeastExists
<1>6. (CHOOSE i \in Found(item) : \A j \in Found(item) : i <= j) \in Found(item)
  BY <1>5
<1>7. QED
  BY <1>6 DEF Resolved, Files, Found

(* What #elif and #else make of a group is a group.                        *)
LEMMA BranchTyped ==
  ASSUME Typed, cond # <<>>, NEW h \in BOOLEAN
  PROVE  /\ [cond EXCEPT ![Len(cond)] = Branch(h)] \in Seq(Group)
         /\ Len([cond EXCEPT ![Len(cond)] = Branch(h)]) = Len(cond)
         /\ \A i \in 1..(Len(cond) - 1) : [cond EXCEPT ![Len(cond)] = Branch(h)][i] = cond[i]
<1>1. cond \in Seq(Group) /\ Len(cond) \in 1..Len(cond)
  BY EmptySeq DEF Typed, CondTyped
<1>2. cond[Len(cond)] \in Group
  BY <1>1, ElementOfSeq
<1>3. Branch(h) \in Group
  BY <1>2 DEF Branch, Group
<1>4. QED
  BY <1>1, <1>3, ExceptSeq

(* What is popped leaves the rest as it was.                               *)
LEMMA Prefix ==
  ASSUME NEW S, NEW s \in Seq(S), NEW n \in 0..Len(s)
  PROVE  /\ SubSeq(s, 1, n) \in Seq(S) /\ Len(SubSeq(s, 1, n)) = n
         /\ \A i \in 1..n : SubSeq(s, 1, n)[i] = s[i]
<1>1. Len(s) \in Nat /\ \A i \in 1..n : s[i] \in S
  BY LenProperties, ElementOfSeq
<1>2. QED
  BY <1>1, SubSeqProperties

(* An option that defines has a name and a text.                           *)
LEMMA OptionTyped ==
  ASSUME Typed, option <= Len(options), options[option].kind = "define"
  PROVE  options[option].name \in Names /\ options[option].def \in Bodies
<1> DEFINE O == [kind : {"undef"}, name : Names] \cup [kind : {"define"}, name : Names, def : Bodies]
<1>1. options \in Seq(O)
  BY TextsAssumption DEF Typed
<1>2. option \in 1..Len(options)
  <2> HIDE DEF O
  <2>1. QED
    BY <1>1, LenProperties DEF Typed
<1>3. options[option] \in O
  <2> HIDE DEF O
  <2>1. QED
    BY <1>1, <1>2, ElementOfSeq
<1>4. QED
  BY <1>3

(* A macro that is expanded has an entry, and so a name and a text.        *)
LEMMA ExpansionTyped ==
  ASSUME Typed, Acts({"name"}), Expands(Item.name)
  PROVE  Buffer(Top.file, Item.name, Definition(defs, Item.name)) \in Buffers
<1> DEFINE n == Item.name
<1>1. IsDefined(defs, n)
  BY DEF Expands
<1>2. Find(defs, n) \in 1..Len(defs) /\ defs[Find(defs, n)].name = n
  <2>1. defs \in Seq(Entries(Bodies)) /\ Len(defs) \in Nat
    BY LenProperties DEF Typed
  <2> HIDE DEF n
  <2>2. QED
    BY <1>1, <2>1, FindFinds DEF IsDefined
<1>3. defs[Find(defs, n)] \in Entries(Bodies)
  BY <1>2, ElementOfSeq DEF Typed
<1>4. n \in Names \cup {NoName} /\ Definition(defs, n) \in Bodies
  BY <1>2, <1>3 DEF Entries, Definition
<1>5. Len(cond) \in Nat /\ Top.file \in Paths
  BY TopTyped, LenProperties DEF Typed, CondTyped, Buffers
<1>6. QED
  BY <1>4, <1>5 DEF Buffer, Buffers

(* Reading an item keeps the types when it touches the stack alone.        *)
LEMMA ReadTyped ==
  ASSUME Typed, ~AtEnd, stack' = Advance, UNCHANGED <<files, inclusion, cond, phase, history>>,
         defs' \in Seq(Entries(Bodies))
  PROVE  Typed'
<1>1. StackTyped'
  BY AdvanceTyped
<1>2. HistoryTyped'
  BY AdvanceIs DEF Typed, HistoryTyped
<1>3. QED
  BY <1>1, <1>2 DEF Typed, CondTyped, OnceTyped, TrackedTyped

(* Every variable keeps its type: every stack stays within its array,      *)
(* every position within its text.                                         *)
THEOREM PreprocessorTyping == Spec => []Typed
<1>1. ASSUME Init PROVE Typed
  <2>1. Canonical[Main] \in Files /\ Main \in Paths
    BY TextsAssumption DEF Files, Paths
  <2>2. text \in [Files -> Bodies] /\ text[Canonical[Main]] \in Bodies /\ options \in Options
    BY <1>1, <2>1, TextsAssumption DEF Init
  <2> DEFINE b == [file |-> Main, macro |-> NoMacro, text |-> text[Canonical[Main]], pos |-> 1, entry |-> 0]
             h == [cond |-> <<>>, verdict |-> NoVerdict]
  <2>3. b \in Buffers /\ b.pos = 1 /\ b.text \in Seq(Items)
    BY <2>1, <2>2 DEF Buffers, NoMacro, Bodies
  <2>4. stack = <<b>> /\ history = <<h>>
    BY <1>1 DEF Init
  <2>5. h \in Records
    <3>1. NoVerdict \in [{} -> BOOLEAN] /\ {} \in SUBSET Nat
      BY DEF NoVerdict
    <3>2. NoVerdict \in Verdicts
      BY <3>1 DEF Verdicts
    <3>3. QED
      BY <3>2, EmptySeq DEF Records
  <2>6. StackTyped
    <3>1. Len(b.text) \in Nat
      BY <2>3, LenProperties
    <3> HIDE DEF b
    <3>2. QED
      BY <2>3, <2>4, <3>1, LimitsAssumption DEF StackTyped
  <2>7. HistoryTyped
    <3> HIDE DEF b, h
    <3>1. QED
      BY <2>4, <2>5 DEF HistoryTyped
  <2>8. CondTyped /\ OnceTyped /\ TrackedTyped
    BY <1>1, <2>1, EmptySeq, FS_EmptySet, LimitsAssumption DEF Init, CondTyped, OnceTyped, TrackedTyped
  <2>9. QED
    BY <1>1, <2>2, <2>6, <2>7, <2>8, EmptySeq DEF Init, Typed
<1>2. ASSUME Typed, [Next]_vars PROVE Typed'
  <2> USE <1>2
  <2>1. CASE UndefineOption
    <3>1. defs' \in Seq(Entries(Bodies))
      BY <2>1, WithoutMacroIs DEF UndefineOption, Typed
    <3>2. QED
      BY <2>1, <3>1 DEF UndefineOption, Typed, StackTyped, CondTyped, HistoryTyped, OnceTyped, TrackedTyped
  <2>2. CASE DefineOption
    <3>1. CASE options[option].kind = "define"
      <4>1. options[option].name \in Names /\ options[option].def \in Bodies
        BY <2>2, <3>1, OptionTyped DEF DefineOption
      <4>2. defs' \in Seq(Entries(Bodies))
        BY <2>2, <3>1, <4>1, WithMacroIs DEF DefineOption, Typed
      <4>3. QED
        BY <2>2, <4>2 DEF DefineOption, Typed, StackTyped, CondTyped, HistoryTyped, OnceTyped, TrackedTyped
    <3>2. CASE options[option].kind # "define"
      BY <2>2, <3>2 DEF DefineOption, Typed, StackTyped, CondTyped, HistoryTyped, OnceTyped, TrackedTyped
    <3>3. QED
      BY <3>1, <3>2
  <2>3. CASE OptionsApplied
    BY <2>3 DEF OptionsApplied, Typed, StackTyped, CondTyped, HistoryTyped, OnceTyped, TrackedTyped
  <2>4. CASE OpenGroup
    <3>1. ~AtEnd /\ Verdict(Item) \in BOOLEAN
      BY <2>4, VerdictTyped DEF OpenGroup, Reads
    <3>2. StackTyped' /\ HistoryTyped'
      BY <2>4, <3>1, AdvanceTyped, AdvanceIs, RecordedTyped DEF OpenGroup, HistoryTyped, Typed
    <3>3. CondTyped'
      <4> DEFINE taken == ParentActive /\ Verdict(Item)
                 new == [parent |-> ParentActive, taken |-> taken, active |-> taken]
      <4>1. ParentActive \in BOOLEAN
        <5>1. cond # <<>> => Len(cond) \in 1..Len(cond) /\ cond[Len(cond)] \in Group
          BY EmptySeq, ElementOfSeq DEF Typed, CondTyped
        <5>2. QED
          BY <5>1 DEF ParentActive, Group
      <4>2. new \in Group
        BY <4>1, <3>1 DEF Group
      <4>3. CASE Len(cond) < MaxCond
        <5>1. cond' = Append(cond, new)
          BY <2>4, <4>3 DEF OpenGroup
        <5> HIDE DEF new
        <5>2. QED
          BY <5>1, <4>2, <4>3, AppendProperties, LenProperties, LimitsAssumption DEF Typed, CondTyped
      <4>4. CASE ~(Len(cond) < MaxCond)
        BY <2>4, <4>4 DEF OpenGroup, Typed, CondTyped
      <4>5. QED
        BY <4>3, <4>4
    <3>4. QED
      BY <2>4, <3>2, <3>3 DEF OpenGroup, Typed, OnceTyped, TrackedTyped
  <2>5. CASE NextBranch
    <3>1. ~AtEnd /\ Verdict(Item) \in BOOLEAN
      BY <2>5, VerdictTyped DEF NextBranch, Reads
    <3>2. StackTyped' /\ HistoryTyped'
      BY <2>5, <3>1, AdvanceTyped, AdvanceIs, RecordedTyped DEF NextBranch, HistoryTyped, Typed
    <3>3. CondTyped'
      <4>1. CASE InGroup
        <5>1. cond # <<>>
          BY <4>1, TopTyped, EmptySeq DEF InGroup, Buffers
        <5>2. QED
          BY <2>5, <3>1, <4>1, <5>1, BranchTyped DEF NextBranch, Typed, CondTyped
      <4>2. CASE ~InGroup
        BY <2>5, <4>2 DEF NextBranch, Typed, CondTyped
      <4>3. QED
        BY <4>1, <4>2
    <3>4. QED
      BY <2>5, <3>2, <3>3 DEF NextBranch, Typed, OnceTyped, TrackedTyped
  <2>6. CASE CloseGroup
    <3>1. StackTyped' /\ HistoryTyped'
      BY <2>6, AdvanceTyped, AdvanceIs DEF CloseGroup, Reads, HistoryTyped, Typed
    <3>2. CondTyped'
      <4>1. CASE InGroup
        <5>1. Len(cond) - 1 \in 0..Len(cond)
          BY <4>1, TopTyped, LenProperties DEF InGroup, Buffers, Typed, CondTyped
        <5>2. cond' = SubSeq(cond, 1, Len(cond) - 1)
          BY <2>6, <4>1 DEF CloseGroup
        <5>3. cond' \in Seq(Group) /\ Len(cond') = Len(cond) - 1
          BY <5>1, <5>2, Prefix DEF Typed, CondTyped
        <5>4. QED
          BY <5>1, <5>3, LimitsAssumption DEF Typed, CondTyped
      <4>2. CASE ~InGroup
        BY <2>6, <4>2 DEF CloseGroup, Typed, CondTyped
      <4>3. QED
        BY <4>1, <4>2
    <3>3. QED
      BY <2>6, <3>1, <3>2 DEF CloseGroup, Typed, OnceTyped, TrackedTyped
  <2>7. CASE Skip
    BY <2>7, ReadTyped DEF Skip, Reads, Typed
  <2>8. CASE Define
    <3>1. ~AtEnd /\ Item.kind = "define"
      BY <2>8 DEF Define, Acts, Reads
    <3>2. Item.name \in Names /\ Item.def \in Bodies
      BY <3>1, TopTyped, TextsAssumption
    <3>3. defs' \in Seq(Entries(Bodies))
      BY <2>8, <3>2, WithMacroIs DEF Define, Typed
    <3>4. QED
      BY <2>8, <3>1, <3>3, ReadTyped DEF Define
  <2>9. CASE Undefine
    <3>1. defs' \in Seq(Entries(Bodies))
      BY <2>9, WithoutMacroIs DEF Undefine, Typed
    <3>2. QED
      BY <2>9, <3>1, ReadTyped DEF Undefine, Acts, Reads
  <2>10. CASE ErrorDirective
    BY <2>10, ReadTyped DEF ErrorDirective, Acts, Reads, Typed
  <2>11. CASE PragmaOnce
    <3>1. StackTyped' /\ HistoryTyped'
      BY <2>11, AdvanceTyped, AdvanceIs DEF PragmaOnce, Acts, Reads, HistoryTyped, Typed
    <3>2. Top.file \in Paths
      BY TopTyped DEF Buffers
    <3>3. OnceTyped'
      BY <2>11, <3>2, AppendProperties, LenProperties, LimitsAssumption DEF PragmaOnce, WithOnce, OnceTyped, Typed
    <3>4. QED
      BY <2>11, <3>1, <3>3 DEF PragmaOnce, Typed, CondTyped, TrackedTyped
  <2>12. CASE IncludeNotFound
    BY <2>12, ReadTyped DEF IncludeNotFound, Acts, Reads, Typed
  <2>13. CASE IncludeAgain
    <3>1. StackTyped' /\ HistoryTyped'
      BY <2>13, AdvanceTyped, AdvanceIs DEF IncludeAgain, Acts, Reads, HistoryTyped, Typed
    <3>2. TrackedTyped'
      BY <2>13, ResolvedTyped, TrackedIs DEF IncludeAgain, Typed, TrackedTyped
    <3>3. QED
      BY <2>13, <3>1, <3>2 DEF IncludeAgain, Typed, CondTyped, OnceTyped
  <2>14. CASE IncludeTooDeep
    <3>1. TrackedTyped'
      BY <2>14, ResolvedTyped, TrackedIs DEF IncludeTooDeep, Opens, Typed, TrackedTyped
    <3>2. QED
      BY <2>14, <3>1 DEF IncludeTooDeep, Typed, StackTyped, HistoryTyped, CondTyped, OnceTyped
  <2>15. CASE IncludeFails
    <3>1. StackTyped' /\ HistoryTyped'
      BY <2>15, AdvanceTyped, AdvanceIs DEF IncludeFails, Opens, Acts, Reads, HistoryTyped, Typed
    <3>2. TrackedTyped'
      BY <2>15, ResolvedTyped, TrackedIs DEF IncludeFails, Opens, Typed, TrackedTyped
    <3>3. QED
      BY <2>15, <3>1, <3>2 DEF IncludeFails, Typed, CondTyped, OnceTyped
  <2>16. CASE Include
    <3> DEFINE f == Resolved(Item)
               b == Buffer(f, NoMacro, text[f])
    <3>1. ~AtEnd /\ f \in Files /\ Len(stack) < MaxDepth
      BY <2>16, ResolvedTyped, TopTyped, LimitsAssumption DEF Include, Opens, Acts, Reads, TooDeep
    <3>2. Len(cond) \in Nat /\ text[f] \in Bodies
      BY <3>1, LenProperties DEF Typed, CondTyped
    <3>3. b \in Buffers /\ b.pos = 1 /\ Entered(b, Advance)
      BY <2>16, <3>1, <3>2 DEF Include, Buffer, Buffers, NoMacro, Paths
    <3>4. StackTyped' /\ HistoryTyped'
      <4> HIDE DEF b, f
      <4>1. QED
        BY <3>1, <3>3, EnteredTyped
    <3>5. TrackedTyped' /\ OnceTyped'
      BY <2>16, <3>1, TrackedIs, LimitsAssumption DEF Include, Typed, TrackedTyped, OnceTyped
    <3>6. QED
      BY <2>16, <3>4, <3>5 DEF Include, Typed, CondTyped
  <2>17. CASE Emit
    BY <2>17, ReadTyped DEF Emit, Acts, Reads, Typed
  <2>18. CASE ExpandTooDeep
    BY <2>18 DEF ExpandTooDeep, Typed, StackTyped, HistoryTyped, CondTyped, OnceTyped, TrackedTyped
  <2>19. CASE Expand
    <3> DEFINE b == Buffer(Top.file, Item.name, Definition(defs, Item.name))
    <3>1. ~AtEnd /\ Len(stack) < MaxDepth
      BY <2>19, TopTyped, LimitsAssumption DEF Expand, Acts, Reads, TooDeep
    <3>2. b \in Buffers /\ b.pos = 1 /\ Entered(b, Advance)
      BY <2>19, ExpansionTyped DEF Expand, Buffer
    <3>3. StackTyped' /\ HistoryTyped'
      <4> HIDE DEF b
      <4>1. QED
        BY <3>1, <3>2, EnteredTyped
    <3>4. QED
      BY <2>19, <3>3 DEF Expand, Typed, CondTyped, OnceTyped, TrackedTyped
  <2>20. CASE Leave
    <3>1. CondTyped'
      <4>1. CASE InGroup
        <5>1. Top.entry \in 0..Len(cond)
          BY <4>1, TopTyped, LenProperties DEF InGroup, Buffers, Typed, CondTyped
        <5>2. cond' = SubSeq(cond, 1, Top.entry)
          BY <2>20, <4>1 DEF Leave
        <5>3. cond' \in Seq(Group) /\ Len(cond') = Top.entry
          BY <5>1, <5>2, Prefix DEF Typed, CondTyped
        <5>4. QED
          BY <5>1, <5>3, LimitsAssumption DEF Typed, CondTyped
      <4>2. CASE ~InGroup
        BY <2>20, <4>2 DEF Leave, Typed, CondTyped
      <4>3. QED
        BY <4>1, <4>2
    <3>2. StackTyped' /\ HistoryTyped'
      <4>1. CASE Len(stack) > 1
        <5>1. Len(stack) - 1 \in Nat \ {0} /\ Len(stack) \in 1..MaxDepth /\ stack \in Seq(Buffers)
              /\ history \in Seq(Records) /\ Len(history) = Len(stack)
          BY <4>1, TopTyped DEF Typed, StackTyped, HistoryTyped
        <5>2. stack' = SubSeq(stack, 1, Len(stack) - 1) /\ history' = SubSeq(history, 1, Len(history) - 1)
          BY <2>20, <4>1 DEF Leave
        <5>3. /\ stack' \in Seq(Buffers) /\ Len(stack') = Len(stack) - 1
              /\ \A d \in 1..(Len(stack) - 1) : stack'[d] = stack[d]
          BY <5>1, <5>2, Prefix
        <5>4. history' \in Seq(Records) /\ Len(history') = Len(stack) - 1
          BY <5>1, <5>2, Prefix
        <5>5. QED
          BY <5>1, <5>3, <5>4, LimitsAssumption DEF Typed, StackTyped, HistoryTyped
      <4>2. CASE ~(Len(stack) > 1)
        BY <2>20, <4>2 DEF Leave, Typed, StackTyped, HistoryTyped
      <4>3. QED
        BY <4>1, <4>2
    <3>3. phase' \in {"undefine", "define", "reading", "done", "fatal"}
      BY <2>20 DEF Leave, Typed
    <3>4. QED
      BY <2>20, <3>1, <3>2, <3>3 DEF Leave, Typed, OnceTyped, TrackedTyped
  <2>21. CASE UNCHANGED vars
    BY <2>21 DEF vars, Typed, StackTyped, HistoryTyped, CondTyped, OnceTyped, TrackedTyped
  <2>22. QED
    BY <2>1, <2>2, <2>3, <2>4, <2>5, <2>6, <2>7, <2>8, <2>9, <2>10, <2>11, <2>12, <2>13, <2>14,
       <2>15, <2>16, <2>17, <2>18, <2>19, <2>20, <2>21 DEF Next
<1>3. QED
  BY <1>1, <1>2, PTL DEF Spec
(* The type invariant the runs check.                                      *)
THEOREM PreTyping == Spec => []PreTypeOK
<1>1. ASSUME Typed PROVE PreTypeOK
  <2> USE <1>1
  <2>1. DOMAIN stack = 1..Len(stack) /\ DOMAIN defs = 1..Len(defs) /\ Len(once) \in Nat
    BY LenProperties DEF Typed, StackTyped, OnceTyped
  <2>2. \A i \in 1..Len(defs) : defs[i] \in Entries(Bodies)
    BY ElementOfSeq DEF Typed
  <2>3. QED
    BY <2>1, <2>2 DEF PreTypeOK, Typed, StackTyped, CondTyped, HistoryTyped, OnceTyped, TrackedTyped, Group, Entries
<1>2. QED
  BY <1>1, PreprocessorTyping, PTL

-----------------------------------------------------------------------------
(***************************************************************************)
(* GROUPS OF INCLUDERS                                                     *)
(*                                                                         *)
(* What a buffer had open when it was entered is a prefix of what is open  *)
(* now: it stays one because nothing pops below the entry of the top       *)
(* buffer, and no buffer was entered with less open than those below it.   *)
(***************************************************************************)
PrefixKept ==
  \A d \in 1..Len(stack) :
    /\ stack[d].entry <= Len(cond)
    /\ Len(history[d].cond) = stack[d].entry
    /\ \A i \in 1..stack[d].entry : cond[i] = history[d].cond[i]
EntriesRise == \A d, e \in 1..Len(stack) : d <= e => stack[d].entry <= stack[e].entry
KeptInv == PrefixKept /\ EntriesRise

(* Entries are numbers, and what was open when a buffer was entered groups. *)
LEMMA EntriesTyped ==
  ASSUME Typed
  PROVE  \A d \in 1..Len(stack) : stack[d].entry \in Nat /\ history[d].cond \in Seq(Group)
<1>1. \A d \in 1..Len(stack) : stack[d] \in Buffers /\ history[d] \in Records
  BY ElementOfSeq DEF Typed, StackTyped, HistoryTyped
<1>2. QED
  BY <1>1 DEF Buffers, Records

(* A step that leaves the groups below the top buffer's own alone.         *)
LEMMA KeptByReading ==
  ASSUME Typed, KeptInv, ~AtEnd, stack' = Advance, Len(history') = Len(history),
         \A d \in 1..Len(history) : history'[d].cond = history[d].cond,
         Len(cond') \in Nat, Top.entry <= Len(cond'),
         \A i \in 1..Top.entry : cond'[i] = cond[i]
  PROVE  KeptInv'
<1>1. /\ Len(stack') = Len(stack) /\ Len(history) = Len(stack)
      /\ \A d \in 1..Len(stack) : stack'[d].entry = stack[d].entry
  BY AdvanceIs DEF Typed, HistoryTyped
<1>2. \A d \in 1..Len(stack) : stack[d].entry \in Nat /\ stack[d].entry <= Top.entry
  BY TopTyped, EntriesTyped DEF KeptInv, EntriesRise
<1>3. Top.entry \in Nat
  BY TopTyped DEF Buffers
<1>4. PrefixKept'
  <2>1. SUFFICES ASSUME NEW d \in 1..Len(stack)
                 PROVE  /\ stack[d].entry <= Len(cond')
                        /\ Len(history'[d].cond) = stack[d].entry
                        /\ \A i \in 1..stack[d].entry : cond'[i] = history'[d].cond[i]
    BY ZenonT(40), <1>1 DEF PrefixKept
  <2>2. /\ Len(history[d].cond) = stack[d].entry
        /\ \A i \in 1..stack[d].entry : cond[i] = history[d].cond[i]
    BY Zenon DEF KeptInv, PrefixKept
  <2>3. stack[d].entry \in Nat /\ stack[d].entry <= Top.entry /\ history'[d].cond = history[d].cond
    BY <1>1, <1>2
  <2>4. stack[d].entry <= Len(cond')
    BY <1>3, <2>3
  <2>5. \A i \in 1..stack[d].entry : i \in 1..Top.entry
    BY <1>3, <2>3
  <2>6. QED
    BY Zenon, <2>2, <2>3, <2>4, <2>5
<1>5. EntriesRise'
  BY <1>1 DEF KeptInv, EntriesRise
<1>6. QED
  BY <1>4, <1>5 DEF KeptInv

(* A buffer that is pushed was entered with all that is open.              *)
LEMMA KeptByEntering ==
  ASSUME Typed, KeptInv, ~AtEnd, Len(stack) < MaxDepth, NEW b, b \in Buffers, b.pos = 1,
         b.entry = Len(cond), Entered(b, Advance), cond' = cond
  PROVE  KeptInv'
<1>1. /\ Len(stack') = Len(stack) + 1 /\ stack'[Len(stack) + 1] = b /\ Len(stack) \in Nat
      /\ \A d \in 1..Len(stack) : stack'[d].entry = stack[d].entry /\ history'[d] = history[d]
      /\ history'[Len(stack) + 1].cond = cond
  BY EnteredTyped, AdvanceIs, TopTyped
<1>2. \A d \in 1..Len(stack) : stack[d].entry \in Nat /\ stack[d].entry <= Len(cond)
  BY EntriesTyped DEF KeptInv, PrefixKept
<1>3. Len(cond) \in Nat
  BY LenProperties DEF Typed, CondTyped
<1>4. PrefixKept'
  <2> SUFFICES ASSUME NEW d \in 1..(Len(stack) + 1)
               PROVE  /\ stack'[d].entry <= Len(cond)
                      /\ Len(history'[d].cond) = stack'[d].entry
                      /\ \A i \in 1..stack'[d].entry : cond[i] = history'[d].cond[i]
    BY <1>1 DEF PrefixKept
  <2>1. CASE d = Len(stack) + 1
    BY <2>1, <1>1, <1>3
  <2>2. CASE d \in 1..Len(stack)
    BY <2>2, <1>1 DEF KeptInv, PrefixKept
  <2>3. QED
    BY <2>1, <2>2, <1>1
<1>5. EntriesRise'
  <2> SUFFICES ASSUME NEW d \in 1..(Len(stack) + 1), NEW e \in 1..(Len(stack) + 1), d <= e
               PROVE  stack'[d].entry <= stack'[e].entry
    BY <1>1 DEF EntriesRise
  <2>1. CASE e = Len(stack) + 1
    BY <2>1, <1>1, <1>2, <1>3
  <2>2. CASE e \in 1..Len(stack)
    BY <2>2, <1>1 DEF KeptInv, EntriesRise
  <2>3. QED
    BY <2>1, <2>2, <1>1
<1>6. QED
  BY <1>4, <1>5 DEF KeptInv

(* No step pops below the entry of the top buffer.                         *)
LEMMA GroupsKept == Spec => []KeptInv
<1>1. ASSUME Init PROVE KeptInv
  BY <1>1, EmptySeq DEF Init, KeptInv, PrefixKept, EntriesRise
<1>2. ASSUME Typed, KeptInv, [Next]_vars PROVE KeptInv'
  <2> USE <1>2
  <2>0. /\ Top.entry \in Nat /\ Len(cond) \in Nat /\ Top.entry <= Len(cond) /\ cond \in Seq(Group)
        /\ Len(history) = Len(stack)
    BY TopTyped, LenProperties DEF KeptInv, PrefixKept, Buffers, Typed, CondTyped, HistoryTyped
  <2>1. CASE UndefineOption \/ DefineOption \/ OptionsApplied \/ UNCHANGED vars
    BY <2>1 DEF UndefineOption, DefineOption, OptionsApplied, vars, KeptInv, PrefixKept, EntriesRise
  <2>2. CASE OpenGroup
    <3>1. ~AtEnd /\ Verdict(Item) \in BOOLEAN /\ stack' = Advance /\ history' = Recorded
      BY <2>2, VerdictTyped DEF OpenGroup, Reads
    <3> DEFINE taken == ParentActive /\ Verdict(Item)
               new == [parent |-> ParentActive, taken |-> taken, active |-> taken]
    <3>2. new \in Group
      <4>1. ParentActive \in BOOLEAN
        <5>1. cond # <<>> => cond[Len(cond)] \in Group
          BY <2>0, EmptySeq, ElementOfSeq
        <5>2. QED
          BY <5>1 DEF ParentActive, Group
      <4>2. QED
        BY <4>1, <3>1 DEF Group
    <3>3. cond' = Append(cond, new) \/ cond' = cond
      BY <2>2 DEF OpenGroup
    <3> HIDE DEF new
    <3>4. Len(cond') \in Nat /\ Top.entry <= Len(cond') /\ \A i \in 1..Top.entry : cond'[i] = cond[i]
      BY <2>0, <3>2, <3>3, AppendProperties
    <3>5. QED
      BY <3>1, <3>4, RecordedTyped, KeptByReading
  <2>3. CASE NextBranch
    <3>1. ~AtEnd /\ Verdict(Item) \in BOOLEAN /\ stack' = Advance /\ history' = Recorded
      BY <2>3, VerdictTyped DEF NextBranch, Reads
    <3>2. Len(cond') \in Nat /\ Top.entry <= Len(cond') /\ \A i \in 1..Top.entry : cond'[i] = cond[i]
      <4>1. CASE InGroup
        <5>1. cond # <<>> /\ Top.entry <= Len(cond) - 1
          BY <4>1, <2>0, EmptySeq DEF InGroup
        <5>2. /\ cond' = [cond EXCEPT ![Len(cond)] = Branch(Verdict(Item))]
          BY <2>3, <4>1 DEF NextBranch
        <5>3. QED
          BY <2>0, <3>1, <5>1, <5>2, BranchTyped
      <4>2. CASE ~InGroup
        BY <2>0, <2>3, <4>2 DEF NextBranch
      <4>3. QED
        BY <4>1, <4>2
    <3>3. QED
      BY <3>1, <3>2, RecordedTyped, KeptByReading
  <2>4. CASE CloseGroup
    <3>1. ~AtEnd /\ stack' = Advance /\ history' = history
      BY <2>4 DEF CloseGroup, Reads
    <3>2. Len(cond') \in Nat /\ Top.entry <= Len(cond') /\ \A i \in 1..Top.entry : cond'[i] = cond[i]
      <4>1. CASE InGroup
        <5>1. Len(cond) - 1 \in 0..Len(cond) /\ Top.entry <= Len(cond) - 1
          BY <4>1, <2>0 DEF InGroup
        <5>2. cond' = SubSeq(cond, 1, Len(cond) - 1)
          BY <2>4, <4>1 DEF CloseGroup
        <5>3. Len(cond') = Len(cond) - 1 /\ \A i \in 1..(Len(cond) - 1) : cond'[i] = cond[i]
          BY <5>1, <5>2, <2>0, Prefix
        <5>4. QED
          BY <5>1, <5>3, <2>0
      <4>2. CASE ~InGroup
        BY <2>0, <2>4, <4>2 DEF CloseGroup
      <4>3. QED
        BY <4>1, <4>2
    <3>3. QED
      BY <3>1, <3>2, KeptByReading
  <2>5. CASE \/ Skip \/ Define \/ Undefine \/ ErrorDirective \/ PragmaOnce \/ IncludeNotFound
             \/ IncludeAgain \/ IncludeFails \/ Emit
    <3>1. ~AtEnd /\ stack' = Advance /\ history' = history /\ cond' = cond
      BY <2>5 DEF Skip, Define, Undefine, ErrorDirective, PragmaOnce, IncludeNotFound,
                  IncludeAgain, IncludeFails, Emit, Opens, Acts, Reads
    <3>2. QED
      BY <3>1, <2>0, KeptByReading
  <2>6. CASE IncludeTooDeep \/ ExpandTooDeep
    BY <2>6 DEF IncludeTooDeep, ExpandTooDeep, KeptInv, PrefixKept, EntriesRise
  <2>7. CASE Include
    <3> DEFINE f == Resolved(Item)
               b == Buffer(f, NoMacro, text[f])
    <3>1. ~AtEnd /\ f \in Files /\ Len(stack) < MaxDepth
      BY <2>7, ResolvedTyped, TopTyped, LimitsAssumption DEF Include, Opens, Acts, Reads, TooDeep
    <3>2. b \in Buffers /\ b.pos = 1 /\ b.entry = Len(cond) /\ Entered(b, Advance) /\ cond' = cond
      BY <2>0, <2>7, <3>1 DEF Include, Buffer, Buffers, NoMacro, Paths, Typed
    <3> HIDE DEF b
    <3>3. QED
      BY <3>1, <3>2, KeptByEntering
  <2>8. CASE Expand
    <3> DEFINE b == Buffer(Top.file, Item.name, Definition(defs, Item.name))
    <3>1. ~AtEnd /\ Len(stack) < MaxDepth
      BY <2>8, TopTyped, LimitsAssumption DEF Expand, Acts, Reads, TooDeep
    <3>2. b \in Buffers /\ b.pos = 1 /\ b.entry = Len(cond) /\ Entered(b, Advance) /\ cond' = cond
      BY <2>0, <2>8, ExpansionTyped DEF Expand, Buffer
    <3> HIDE DEF b
    <3>3. QED
      BY <3>1, <3>2, KeptByEntering
  <2>9. CASE Leave
    <3>1. /\ Len(cond') \in Nat /\ Top.entry <= Len(cond')
          /\ \A i \in 1..Top.entry : cond'[i] = cond[i]
      <4>1. CASE InGroup
        <5>1. cond' = SubSeq(cond, 1, Top.entry) /\ Top.entry \in 0..Len(cond)
          BY <2>0, <2>9, <4>1 DEF Leave
        <5>2. QED
          BY <5>1, <2>0, Prefix
      <4>2. CASE ~InGroup
        BY <2>0, <2>9, <4>2 DEF Leave
      <4>3. QED
        BY <4>1, <4>2
    <3>2. \A d \in 1..Len(stack) : stack[d].entry \in Nat /\ stack[d].entry <= Top.entry
      BY TopTyped, EntriesTyped DEF KeptInv, EntriesRise
    <3>3. /\ Len(stack') \in 1..Len(stack)
          /\ \A d \in 1..Len(stack') : stack'[d] = stack[d] /\ history'[d] = history[d]
      <4>1. CASE Len(stack) > 1
        <5>1. Len(stack) - 1 \in 0..Len(stack) /\ Len(stack) - 1 \in 1..Len(stack)
          BY <4>1, TopTyped
        <5>2. stack' = SubSeq(stack, 1, Len(stack) - 1) /\ history' = SubSeq(history, 1, Len(stack) - 1)
          BY <2>0, <2>9, <4>1 DEF Leave
        <5>3. QED
          BY <5>1, <5>2, <2>0, Prefix DEF Typed, StackTyped, HistoryTyped
      <4>2. CASE ~(Len(stack) > 1)
        BY <2>9, <4>2, TopTyped DEF Leave
      <4>3. QED
        BY <4>1, <4>2
    <3>4. PrefixKept'
      <4>1. SUFFICES ASSUME NEW d \in 1..Len(stack')
                     PROVE  /\ stack'[d].entry <= Len(cond')
                            /\ Len(history'[d].cond) = stack'[d].entry
                            /\ \A i \in 1..stack'[d].entry : cond'[i] = history'[d].cond[i]
        BY DEF PrefixKept
      <4>2. d \in 1..Len(stack) /\ stack'[d] = stack[d] /\ history'[d] = history[d]
        BY <3>3, <4>1
      <4>3. stack[d].entry \in Nat /\ stack[d].entry <= Top.entry
        BY <3>2, <4>2
      <4>4. /\ Len(history[d].cond) = stack[d].entry
            /\ \A i \in 1..stack[d].entry : cond[i] = history[d].cond[i]
        BY <4>2 DEF KeptInv, PrefixKept
      <4>5. stack[d].entry <= Len(cond') /\ \A i \in 1..stack[d].entry : cond'[i] = cond[i]
        BY <2>0, <3>1, <4>3
      <4>6. QED
        BY <4>2, <4>4, <4>5
    <3>5. EntriesRise'
      BY <3>3, TopTyped DEF KeptInv, EntriesRise
    <3>6. QED
      BY <3>4, <3>5 DEF KeptInv
  <2>10. QED
    BY <2>1, <2>2, <2>3, <2>4, <2>5, <2>6, <2>7, <2>8, <2>9 DEF Next
<1>3. QED
  BY <1>1, <1>2, PreprocessorTyping, PTL DEF Spec

(* Whatever a file opens, closes or leaves open, the groups of the files   *)
(* that include it are at its end what they were at its start              *)
(* (lexer.c:1337, 1376, 1817).                                             *)
THEOREM IncludersKeepTheirGroups == Spec => []GroupsOfIncludersKept
<1>1. ASSUME Typed, KeptInv PROVE GroupsOfIncludersKept
  <2>1. DOMAIN stack = 1..Len(stack) /\ cond \in Seq(Group) /\ Len(cond) \in Nat
    BY <1>1, LenProperties DEF Typed, StackTyped, CondTyped
  <2> SUFFICES ASSUME NEW d \in 1..Len(stack)
               PROVE  Len(cond) >= stack[d].entry /\ SubSeq(cond, 1, stack[d].entry) = history[d].cond
    BY <2>1 DEF GroupsOfIncludersKept
  <2>2. stack[d].entry \in 0..Len(cond) /\ history[d].cond \in Seq(Group)
    BY <1>1, <2>1, EntriesTyped DEF KeptInv, PrefixKept
  <2>3. /\ SubSeq(cond, 1, stack[d].entry) \in Seq(Group)
        /\ Len(SubSeq(cond, 1, stack[d].entry)) = stack[d].entry
        /\ \A i \in 1..stack[d].entry : SubSeq(cond, 1, stack[d].entry)[i] = cond[i]
    BY <2>1, <2>2, Prefix
  <2>4. QED
    BY <1>1, <2>1, <2>2, <2>3, SeqEqual DEF KeptInv, PrefixKept
<1>2. QED
  BY <1>1, GroupsKept, PreprocessorTyping, PTL
-----------------------------------------------------------------------------
(***************************************************************************)
(* MACROS                                                                  *)
(***************************************************************************)

(* The macros of the buffers are those of before, fewer, or one more.      *)
LEMMA MacrosOfBuffers ==
  ASSUME Typed, [Next]_vars
  PROVE  \/ /\ Len(stack') \in 1..Len(stack)
            /\ \A d \in 1..Len(stack') : stack'[d].macro = stack[d].macro
         \/ /\ Len(stack') = Len(stack) + 1
            /\ \A d \in 1..Len(stack) : stack'[d].macro = stack[d].macro
            /\ \/ stack'[Len(stack) + 1].macro = NoMacro
               \/ ~IsActive(stack'[Len(stack) + 1].macro)
<1>0. Len(stack) \in Nat \ {0} /\ stack \in Seq(Buffers)
  BY TopTyped DEF Typed, StackTyped
<1>1. CASE \/ OpenGroup \/ NextBranch \/ CloseGroup \/ Skip \/ Define \/ Undefine \/ ErrorDirective
           \/ PragmaOnce \/ IncludeNotFound \/ IncludeAgain \/ IncludeFails \/ Emit
  <2>1. ~AtEnd /\ stack' = Advance
    BY <1>1 DEF OpenGroup, NextBranch, CloseGroup, Skip, Define, Undefine, ErrorDirective, PragmaOnce,
                IncludeNotFound, IncludeAgain, IncludeFails, Emit, Opens, Acts, Reads
  <2>2. QED
    BY <1>0, <2>1, AdvanceIs
<1>2. CASE \/ UndefineOption \/ DefineOption \/ OptionsApplied \/ IncludeTooDeep \/ ExpandTooDeep
           \/ UNCHANGED vars
  BY <1>0, <1>2 DEF UndefineOption, DefineOption, OptionsApplied, IncludeTooDeep, ExpandTooDeep, vars
<1>3. CASE Include
  <2> DEFINE b == Buffer(Resolved(Item), NoMacro, text[Resolved(Item)])
  <2>1. ~AtEnd /\ Resolved(Item) \in Files /\ Len(stack) < MaxDepth
    BY <1>3, ResolvedTyped, TopTyped, LimitsAssumption DEF Include, Opens, Acts, Reads, TooDeep
  <2>2. b \in Buffers /\ b.pos = 1 /\ b.macro = NoMacro /\ Entered(b, Advance)
    BY <1>3, <2>1, LenProperties DEF Include, Buffer, Buffers, NoMacro, Paths, Typed, CondTyped
  <2> HIDE DEF b
  <2>3. QED
    BY <2>1, <2>2, EnteredTyped, AdvanceIs
<1>4. CASE Expand
  <2> DEFINE b == Buffer(Top.file, Item.name, Definition(defs, Item.name))
  <2>1. ~AtEnd /\ Len(stack) < MaxDepth
    BY <1>4, TopTyped, LimitsAssumption DEF Expand, Acts, Reads, TooDeep
  <2>2. b \in Buffers /\ b.pos = 1 /\ ~IsActive(b.macro) /\ Entered(b, Advance)
    BY <1>4, ExpansionTyped DEF Expand, Expands, Buffer
  <2> HIDE DEF b
  <2>3. QED
    BY <2>1, <2>2, EnteredTyped, AdvanceIs
<1>5. CASE Leave
  <2>1. CASE Len(stack) > 1
    <3>1. stack' = SubSeq(stack, 1, Len(stack) - 1) /\ Len(stack) - 1 \in 0..Len(stack)
      BY <1>0, <1>5, <2>1 DEF Leave
    <3>2. QED
      BY <1>0, <2>1, <3>1, Prefix
  <2>2. CASE ~(Len(stack) > 1)
    BY <1>0, <1>5, <2>2 DEF Leave
  <2>3. QED
    BY <2>1, <2>2
<1>6. QED
  BY <1>1, <1>2, <1>3, <1>4, <1>5 DEF Next

(* No macro is expanded inside its own expansion, however many others are  *)
(* between (is_macro_active, lexer.c:205-215).                             *)
THEOREM MacrosDoNotNest == Spec => []NoMacroInsideItself
<1>1. ASSUME Init PROVE NoMacroInsideItself
  BY <1>1 DEF Init, NoMacroInsideItself
<1>2. ASSUME Typed, NoMacroInsideItself, [Next]_vars PROVE NoMacroInsideItself'
  <2>0. Len(stack) \in Nat
    BY <1>2, TopTyped
  <2>1. CASE /\ Len(stack') \in 1..Len(stack)
             /\ \A d \in 1..Len(stack') : stack'[d].macro = stack[d].macro
    BY <1>2, <2>0, <2>1 DEF NoMacroInsideItself
  <2>2. CASE /\ Len(stack') = Len(stack) + 1
             /\ \A d \in 1..Len(stack) : stack'[d].macro = stack[d].macro
             /\ \/ stack'[Len(stack) + 1].macro = NoMacro
                \/ ~IsActive(stack'[Len(stack) + 1].macro)
    <3> DEFINE new == stack'[Len(stack) + 1].macro
    <3>1. new = NoMacro \/ \A d \in 2..Len(stack) : stack[d].macro # new
      BY <2>2 DEF IsActive
    <3> SUFFICES ASSUME NEW d \in 2..(Len(stack) + 1), NEW e \in 2..(Len(stack) + 1), d # e,
                        stack'[d].macro # NoMacro
                 PROVE  stack'[d].macro # stack'[e].macro
      BY <2>2 DEF NoMacroInsideItself
    <3>2. CASE d \in 2..Len(stack) /\ e \in 2..Len(stack)
      BY <1>2, <2>2, <3>2 DEF NoMacroInsideItself
    <3>3. CASE d = Len(stack) + 1 /\ e \in 2..Len(stack)
      BY <2>0, <2>2, <3>1, <3>3
    <3>4. CASE e = Len(stack) + 1 /\ d \in 2..Len(stack)
      BY <2>0, <2>2, <3>1, <3>4
    <3>5. QED
      BY <2>0, <3>2, <3>3, <3>4
  <2>3. QED
    BY <1>2, <2>1, <2>2, MacrosOfBuffers
<1>3. QED
  BY <1>1, <1>2, PreprocessorTyping, PTL DEF Spec

(* The table never has two entries of one name, whatever is defined,       *)
(* undefined and defined again, by options or by directives                *)
(* (lexer.c:157-198, 1566-1603).                                           *)
THEOREM OneMeaning == Spec => []OneMeaningEach
<1>1. ASSUME Init PROVE OneMeaningEach
  BY <1>1 DEF Init, OneMeaningEach, OneEntryEach
<1>2. ASSUME Typed, OneMeaningEach, [Next]_vars PROVE OneMeaningEach'
  <2> USE <1>2
  <2>1. CASE UndefineOption
    BY <2>1, WithoutMacroIs DEF UndefineOption, OneMeaningEach, Typed
  <2>2. CASE DefineOption
    <3>1. CASE options[option].kind = "define"
      <4>1. options[option].name \in Names /\ options[option].def \in Bodies
        BY <2>2, <3>1, OptionTyped DEF DefineOption
      <4>2. QED
        BY <2>2, <3>1, <4>1, WithMacroKeepsOne DEF DefineOption, OneMeaningEach, Typed
    <3>2. CASE options[option].kind # "define"
      BY <2>2, <3>2 DEF DefineOption, OneMeaningEach
    <3>3. QED
      BY <3>1, <3>2
  <2>3. CASE Define
    <3>1. Item.name \in Names /\ Item.def \in Bodies
      BY <2>3, TopTyped, TextsAssumption DEF Define, Acts, Reads
    <3>2. QED
      BY <2>3, <3>1, WithMacroKeepsOne DEF Define, OneMeaningEach, Typed
  <2>4. CASE Undefine
    BY <2>4, WithoutMacroIs DEF Undefine, OneMeaningEach, Typed
  <2>5. CASE defs' = defs
    BY <2>5 DEF OneMeaningEach
  <2>6. QED
    BY <2>1, <2>2, <2>3, <2>4, <2>5 DEF Next, vars, OptionsApplied, OpenGroup, NextBranch, CloseGroup, Skip,
       ErrorDirective, PragmaOnce, IncludeNotFound, IncludeAgain, IncludeTooDeep, IncludeFails, Include,
       Emit, ExpandTooDeep, Expand, Leave
<1>3. QED
  BY <1>1, <1>2, PreprocessorTyping, PTL DEF Spec

-----------------------------------------------------------------------------
(***************************************************************************)
(* FILES                                                                   *)
(***************************************************************************)
IsKept(f) == \E i \in 1..Len(once) : once[i] = f
KeptOrFull == \A f \in asked : IsKept(f) \/ Len(once) = MaxOnce

(* A header that said #pragma once is not read a second time, unless the   *)
(* list of such files was full (lexer.c:1611-1616, 1719-1727).             *)
THEOREM OnceHolds == Spec => OnceIsOnce
<1>1. ASSUME Init PROVE KeptOrFull
  BY <1>1 DEF Init, KeptOrFull
<1>2. ASSUME Typed, KeptOrFull, [Next]_vars PROVE KeptOrFull'
  <2>0. once \in Seq(Paths) /\ Len(once) \in Nat /\ Len(once) <= MaxOnce /\ Top.file \in Paths
    BY <1>2, LenProperties, TopTyped DEF Typed, OnceTyped, Buffers
  <2>1. CASE PragmaOnce
    <3>1. asked' = asked \cup {Top.file}
      BY <2>1 DEF PragmaOnce
    <3>2. CASE Len(once) < MaxOnce
      <4>1. once' = Append(once, Top.file)
        BY <2>1, <3>2 DEF PragmaOnce, WithOnce
      <4>2. Len(once') = Len(once) + 1 /\ once'[Len(once) + 1] = Top.file
            /\ \A i \in 1..Len(once) : once'[i] = once[i]
        BY <2>0, <4>1, AppendProperties
      <4>3. QED
        BY <1>2, <2>0, <3>1, <3>2, <4>2 DEF KeptOrFull, IsKept
    <3>3. CASE ~(Len(once) < MaxOnce)
      <4>1. once' = once /\ Len(once) = MaxOnce
        BY <2>0, <2>1, <3>3, LimitsAssumption DEF PragmaOnce, WithOnce
      <4>2. QED
        BY <4>1 DEF KeptOrFull, IsKept
    <3>4. QED
      BY <3>2, <3>3
  <2>2. CASE asked' = asked /\ once' = once
    BY <1>2, <2>2 DEF KeptOrFull, IsKept
  <2>3. QED
    BY <1>2, <2>1, <2>2 DEF Next, vars, UndefineOption, DefineOption, OptionsApplied, OpenGroup, NextBranch,
       CloseGroup, Skip, Define, Undefine, ErrorDirective, IncludeNotFound, IncludeAgain, IncludeTooDeep,
       IncludeFails, Include, Emit, ExpandTooDeep, Expand, Leave
<1>3. ASSUME Typed, KeptOrFull, [Next]_vars,
             NEW f \in asked, opened' > opened, stack'[Len(stack')].file = f
      PROVE  Len(once) = MaxOnce
  <2>0. once \in Seq(Paths) /\ Len(once) \in Nat /\ DOMAIN once = 1..Len(once) /\ opened \in Nat
    BY <1>3, LenProperties DEF Typed, OnceTyped, TrackedTyped
  <2>1. CASE Include
    <3> DEFINE b == Buffer(Resolved(Item), NoMacro, text[Resolved(Item)])
    <3>1. ~AtEnd /\ Resolved(Item) \in Files /\ Len(stack) < MaxDepth /\ ~ReadOnce(Resolved(Item))
      BY <1>3, <2>1, ResolvedTyped, TopTyped, LimitsAssumption DEF Include, Opens, Acts, Reads, TooDeep
    <3>2. b \in Buffers /\ b.pos = 1 /\ b.file = Resolved(Item) /\ Entered(b, Advance)
      BY <1>3, <2>1, <3>1, LenProperties DEF Include, Buffer, Buffers, NoMacro, Paths, Typed, CondTyped
    <3> HIDE DEF b
    <3>3. stack'[Len(stack')] = b
      BY <1>3, <3>1, <3>2, EnteredTyped
    <3>4. ~IsKept(f)
      BY <1>3, <2>0, <3>1, <3>2, <3>3 DEF ReadOnce, IsKept
    <3>5. QED
      BY <1>3, <3>4 DEF KeptOrFull
  <2>2. CASE opened' = opened
    BY <1>3, <2>0, <2>2
  <2>3. QED
    BY <1>3, <2>1, <2>2 DEF Next, vars, UndefineOption, DefineOption, OptionsApplied, OpenGroup, NextBranch,
       CloseGroup, Skip, Define, Undefine, ErrorDirective, PragmaOnce, IncludeNotFound, IncludeAgain,
       IncludeTooDeep, IncludeFails, Emit, ExpandTooDeep, Expand, Leave
<1>4. ASSUME Typed, KeptOrFull, [Next]_vars
      PROVE  [\A f \in asked : opened' > opened /\ stack'[Len(stack')].file = f => Len(once) = MaxOnce]_vars
  BY <1>3, <1>4
<1>5. QED
  BY <1>1, <1>2, <1>4, PreprocessorTyping, PTL DEF Spec, OnceIsOnce
-----------------------------------------------------------------------------
(***************************************************************************)
(* DEPENDENCIES                                                            *)
(*                                                                         *)
(* As long as nothing failed there is room to keep every file that is      *)
(* opened, because no more are kept than were opened, but for a main file  *)
(* that says #pragma once and includes itself.                             *)
(***************************************************************************)
Clean == ~FilesFailed /\ ~(MainKept /\ opened = MaxFiles)
MainTakesPlace == MainKept /\ Main \in tracked
Known == tracked \cup {Main}

FilesKnown ==
  /\ \A d \in 1..Len(stack) : stack[d].file \in Known
  /\ asked \subseteq Known
  /\ \A i \in 1..Len(once) : once[i] \in asked
  /\ read \ {Canonical[Main]} \subseteq tracked
RoomLeft == phase # "fatal" => Cardinality(tracked) <= opened + (IF MainTakesPlace THEN 1 ELSE 0)
FilesInv == Clean => FilesKnown /\ RoomLeft

(* What went wrong stays wrong.                                            *)
LEMMA CleanBefore ==
  ASSUME Typed, Next, Clean'
  PROVE  Clean
<1>1. errors \subseteq errors' /\ asked \subseteq asked' /\ (opened' = opened \/ opened < MaxFiles)
  BY DEF Next, UndefineOption, DefineOption, OptionsApplied, OpenGroup, NextBranch,
       CloseGroup, Skip, Define, Undefine, ErrorDirective, PragmaOnce, IncludeNotFound, IncludeAgain,
       IncludeTooDeep, IncludeFails, Include, Emit, ExpandTooDeep, Expand, Leave
<1>2. opened \in Nat /\ MaxFiles \in Nat
  BY LimitsAssumption DEF Typed, TrackedTyped
<1>3. FilesFailed => FilesFailed'
  BY <1>1 DEF FilesFailed
<1>4. MainKept => MainKept'
  BY <1>1 DEF MainKept
<1>5. MainKept /\ opened = MaxFiles => opened' = MaxFiles
  BY <1>1, <1>2
<1>6. QED
  BY <1>3, <1>4, <1>5 DEF Clean

(* Reading an item changes none of the buffers' files.                     *)
LEMMA FilesOfAdvance ==
  ASSUME Typed, ~AtEnd, stack' = Advance
  PROVE  Len(stack') = Len(stack) /\ \A d \in 1..Len(stack) : stack'[d].file = stack[d].file
  BY AdvanceIs

(* The dependencies -MMD writes are the files that were read               *)
(* (lexer.c:1707-1717 with 1727-1755).                                     *)
THEOREM DependenciesComplete == Spec => []EveryFileTracked
<1>1. ASSUME Init PROVE FilesInv
  <2>1. Cardinality(tracked) = 0 /\ opened = 0 /\ Len(stack) = 1 /\ stack[1].file = Main /\ Len(once) = 0
    BY <1>1, FS_EmptySet DEF Init
  <2>2. QED
    BY <1>1, <2>1 DEF Init, FilesInv, FilesKnown, RoomLeft, Known
<1>2. ASSUME Typed, FilesInv, [Next]_vars PROVE FilesInv'
  <2> USE <1>2
  <2> SUFFICES ASSUME Clean' PROVE FilesKnown' /\ RoomLeft'
    BY DEF FilesInv
  <2>1. CASE UNCHANGED vars
    BY <2>1 DEF vars, FilesInv, Clean, FilesFailed, MainKept, FilesKnown, RoomLeft, MainTakesPlace, Known
  <2> SUFFICES ASSUME Next PROVE FilesKnown' /\ RoomLeft'
    BY <2>1
  <2>2. FilesKnown /\ RoomLeft
    BY CleanBefore DEF FilesInv
  <2>3. /\ Len(stack) \in Nat \ {0} /\ Top \in Buffers /\ Top.file \in Known /\ Len(once) \in Nat
        /\ Cardinality(tracked) \in Nat /\ opened \in 0..MaxFiles /\ MaxFiles \in Nat
        /\ DOMAIN once = 1..Len(once)
    BY <2>2, TopTyped, LenProperties, FS_CardinalityType, LimitsAssumption
       DEF Typed, TrackedTyped, OnceTyped, FilesKnown, Top
  <2>4. CASE \/ OpenGroup \/ NextBranch \/ CloseGroup \/ Skip \/ Define \/ Undefine \/ ErrorDirective
             \/ IncludeNotFound \/ Emit
    <3>1. ~AtEnd /\ stack' = Advance /\ UNCHANGED <<inclusion, phase>>
      BY <2>4 DEF OpenGroup, NextBranch, CloseGroup, Skip, Define, Undefine, ErrorDirective,
                  IncludeNotFound, Emit, Acts, Reads
    <3>2. QED
      BY <2>2, <3>1, FilesOfAdvance DEF FilesKnown, RoomLeft, Known, MainTakesPlace, MainKept
  <2>5. CASE UndefineOption \/ DefineOption \/ OptionsApplied \/ ExpandTooDeep
    <3>1. UNCHANGED <<inclusion, stack>> /\ (phase' = "fatal" \/ phase # "fatal")
      BY <2>5 DEF UndefineOption, DefineOption, OptionsApplied, ExpandTooDeep
    <3>2. QED
      BY <2>2, <3>1 DEF FilesKnown, RoomLeft, Known, MainTakesPlace, MainKept
  <2>6. CASE PragmaOnce
    <3>1. ~AtEnd /\ stack' = Advance /\ UNCHANGED <<tracked, opened, read, phase>>
          /\ asked' = asked \cup {Top.file} /\ once' = WithOnce
      BY <2>6 DEF PragmaOnce, Acts, Reads
    <3>2. \A i \in 1..Len(once') : once'[i] \in asked'
      <4>1. once \in Seq(Paths) /\ Top.file \in Paths
        BY <2>3 DEF Typed, OnceTyped, Buffers
      <4>2. CASE Len(once) < MaxOnce
        <5>1. /\ Len(once') = Len(once) + 1 /\ once'[Len(once) + 1] = Top.file
              /\ \A i \in 1..Len(once) : once'[i] = once[i]
          BY <3>1, <4>1, <4>2, AppendProperties DEF WithOnce
        <5>2. QED
          BY <2>2, <2>3, <3>1, <5>1 DEF FilesKnown
      <4>3. CASE ~(Len(once) < MaxOnce)
        BY <2>2, <3>1, <4>3 DEF WithOnce, FilesKnown
      <4>4. QED
        BY <4>2, <4>3
    <3>3. FilesKnown'
      BY <2>2, <2>3, <3>1, <3>2, FilesOfAdvance DEF FilesKnown, Known
    <3>4. MainTakesPlace => MainTakesPlace'
      BY <3>1 DEF MainTakesPlace, MainKept
    <3>5. RoomLeft'
      BY <2>2, <2>3, <3>1, <3>4 DEF RoomLeft
    <3>6. QED
      BY <3>3, <3>5
  <2>7. CASE IncludeAgain
    <3> DEFINE f == Resolved(Item)
    <3>1. /\ ~AtEnd /\ stack' = Advance /\ UNCHANGED <<once, opened, read, phase, asked>>
          /\ tracked' = Tracked(f) /\ f \in Files /\ ReadOnce(f)
      BY <2>7, ResolvedTyped DEF IncludeAgain, Acts, Reads
    <3>2. f \in Known /\ f \in asked
      BY <2>2, <2>3, <3>1 DEF ReadOnce, FilesKnown
    <3> HIDE DEF f
    <3>3. tracked \subseteq tracked'
      BY <3>1, TrackedIs
    <3>4. FilesKnown'
      BY <2>2, <3>1, <3>3, FilesOfAdvance DEF FilesKnown, Known
    <3>5. RoomLeft'
      <4>1. CASE f \in tracked
        <5>1. Cardinality(tracked') = Cardinality(tracked)
          BY <3>1, <4>1, TrackedIs
        <5>2. MainTakesPlace => MainTakesPlace'
          BY <3>1, <3>3 DEF MainTakesPlace, MainKept
        <5>3. QED
          BY <2>2, <2>3, <3>1, <5>1, <5>2 DEF RoomLeft
      <4>2. CASE f \notin tracked
        <5>1. f = Main
          BY <3>2, <4>2 DEF Known
        <5>2. Canonical[Main] = Main
          BY <3>1, <5>1, TextsAssumption
        <5>3. MainKept'
          BY <3>1, <3>2, <5>1, <5>2 DEF MainKept
        <5>4. opened < MaxFiles
          BY <2>3, <3>1, <5>3 DEF Clean
        <5>5. ~MainTakesPlace
          BY <4>2, <5>1 DEF MainTakesPlace
        <5>6. phase # "fatal"
          BY <2>7 DEF IncludeAgain, Acts, Reads
        <5>7. Cardinality(tracked) <= opened
          BY <2>2, <2>3, <5>5, <5>6 DEF RoomLeft
        <5>8. f \in tracked' /\ Cardinality(tracked') <= Cardinality(tracked) + 1 /\ Cardinality(tracked') \in Nat
          BY <2>3, <3>1, <5>4, <5>7, TrackedIs, FS_CardinalityType
        <5>9. MainTakesPlace'
          BY <5>1, <5>3, <5>8 DEF MainTakesPlace
        <5>10. QED
          BY <2>3, <3>1, <5>7, <5>8, <5>9 DEF RoomLeft
      <4>3. QED
        BY <4>1, <4>2
    <3>6. QED
      BY <3>4, <3>5
  <2>8. CASE IncludeTooDeep
    <3>1. tracked \subseteq tracked' /\ UNCHANGED <<stack, once, opened, read, asked>> /\ phase' = "fatal"
      BY <2>8, ResolvedTyped, TrackedIs DEF IncludeTooDeep, Opens
    <3>2. QED
      BY <2>2, <3>1 DEF FilesKnown, Known, RoomLeft
  <2>9. CASE IncludeFails
    BY <2>9 DEF IncludeFails, Clean, FilesFailed
  <2>10. CASE Include
    <3> DEFINE f == Resolved(Item)
               b == Buffer(f, NoMacro, text[f])
    <3>1. /\ ~AtEnd /\ f \in Files /\ Len(stack) < MaxDepth /\ phase # "fatal"
          /\ opened < MaxFiles /\ opened' = opened + 1 /\ read' = read \cup {f}
          /\ tracked' = Tracked(f) /\ UNCHANGED <<once, phase, asked>>
      BY <2>10, ResolvedTyped, TopTyped, LimitsAssumption DEF Include, Opens, Acts, Reads, TooDeep
    <3>2. b \in Buffers /\ b.pos = 1 /\ b.file = f /\ Entered(b, Advance)
      BY <2>10, <3>1, LenProperties DEF Include, Buffer, Buffers, NoMacro, Paths, Typed, CondTyped
    <3> HIDE DEF f, b
    <3>3. tracked \subseteq tracked' /\ Cardinality(tracked') <= Cardinality(tracked) + 1
          /\ Cardinality(tracked') \in Nat
      BY <3>1, TrackedIs, FS_CardinalityType
    <3>4. MainTakesPlace => MainTakesPlace'
      BY <3>1, <3>3 DEF MainTakesPlace, MainKept
    <3>5. RoomLeft'
      BY <2>2, <2>3, <3>1, <3>3, <3>4 DEF RoomLeft
    <3>6. Cardinality(tracked) < MaxFiles
      <4>1. CASE MainTakesPlace
        <5>1. opened + 1 # MaxFiles
          BY <3>1, <4>1 DEF Clean, MainTakesPlace, MainKept
        <5>2. QED
          BY <2>2, <2>3, <3>1, <4>1, <5>1 DEF RoomLeft
      <4>2. CASE ~MainTakesPlace
        BY <2>2, <2>3, <3>1, <4>2 DEF RoomLeft
      <4>3. QED
        BY <4>1, <4>2
    <3>7. f \in tracked'
      BY <3>1, <3>6, TrackedIs
    <3>8. /\ Len(stack') = Len(stack) + 1 /\ stack'[Len(stack) + 1].file = f
          /\ \A d \in 1..Len(stack) : stack'[d].file = stack[d].file
      BY <3>1, <3>2, EnteredTyped, AdvanceIs
    <3>9. \A d \in 1..Len(stack') : stack'[d].file \in Known'
      BY <2>2, <2>3, <3>3, <3>7, <3>8 DEF FilesKnown, Known
    <3>10. FilesKnown'
      BY <2>2, <3>1, <3>3, <3>7, <3>9 DEF FilesKnown, Known
    <3>11. QED
      BY <3>5, <3>10
  <2>11. CASE Expand
    <3> DEFINE b == Buffer(Top.file, Item.name, Definition(defs, Item.name))
    <3>1. ~AtEnd /\ Len(stack) < MaxDepth /\ UNCHANGED <<once, tracked, opened, read, asked, phase>>
      BY <2>11, TopTyped, LimitsAssumption DEF Expand, Acts, Reads, TooDeep
    <3>2. b \in Buffers /\ b.pos = 1 /\ b.file = Top.file /\ Entered(b, Advance)
      BY <2>11, ExpansionTyped DEF Expand, Buffer
    <3> HIDE DEF b
    <3>3. /\ Len(stack') = Len(stack) + 1 /\ stack'[Len(stack) + 1].file = Top.file
          /\ \A d \in 1..Len(stack) : stack'[d].file = stack[d].file
      BY <3>1, <3>2, EnteredTyped, AdvanceIs
    <3>4. FilesKnown'
      BY <2>2, <2>3, <3>1, <3>3 DEF FilesKnown, Known
    <3>5. QED
      BY <2>2, <3>1, <3>4 DEF RoomLeft, MainTakesPlace, MainKept
  <2>12. CASE Leave
    <3>1. UNCHANGED inclusion /\ phase # "fatal"
      BY <2>12 DEF Leave
    <3>2. Len(stack') \in 1..Len(stack) /\ \A d \in 1..Len(stack') : stack'[d] = stack[d]
      <4>1. CASE Len(stack) > 1
        <5>1. stack' = SubSeq(stack, 1, Len(stack) - 1) /\ Len(stack) - 1 \in 0..Len(stack)
          BY <2>3, <2>12, <4>1 DEF Leave
        <5>2. QED
          BY <2>3, <4>1, <5>1, Prefix DEF Typed, StackTyped
      <4>2. CASE ~(Len(stack) > 1)
        BY <2>3, <2>12, <4>2 DEF Leave
      <4>3. QED
        BY <4>1, <4>2
    <3>3. QED
      BY <2>2, <2>3, <3>1, <3>2 DEF FilesKnown, Known, RoomLeft, MainTakesPlace, MainKept
  <2>13. QED
    BY <2>4, <2>5, <2>6, <2>7, <2>8, <2>9, <2>10, <2>11, <2>12 DEF Next
<1>3. ASSUME FilesInv PROVE EveryFileTracked
  BY <1>3 DEF FilesInv, Clean, FilesKnown, EveryFileTracked
<1>4. QED
  BY <1>1, <1>2, <1>3, PreprocessorTyping, PTL DEF Spec
-----------------------------------------------------------------------------
(***************************************************************************)
(* NESTING                                                                 *)
(*                                                                         *)
(* The text alone says which groups a position is in.  How that changes     *)
(* from one position to the next depends on the item between them.         *)
(***************************************************************************)
Depth(t, o, q) == Count(t, Openers, o, q) - Count(t, {"endif"}, o, q)

(* The count of the items of some kinds in a stretch of a text, which ends  *)
(* one item later or begins with its last.                                  *)
LEMMA CountNext ==
  ASSUME NEW t, NEW K, NEW p \in Nat \ {0}, NEW o \in 1..p
  PROVE  /\ Count(t, K, o, p - 1) \in Nat /\ Count(t, K, o, p) \in Nat
         /\ t[p].kind \in K => Count(t, K, o, p) = Count(t, K, o, p - 1) + 1
         /\ t[p].kind \notin K => Count(t, K, o, p) = Count(t, K, o, p - 1)
         /\ o = p => Count(t, K, o, p - 1) = 0
<1> DEFINE before == {q \in o..(p - 1) : t[q].kind \in K}
           now == {q \in o..p : t[q].kind \in K}
<1>1. IsFiniteSet(before) /\ Cardinality(before) \in Nat
  <2>1. IsFiniteSet(o..(p - 1)) /\ before \subseteq o..(p - 1)
    BY FS_Interval
  <2>2. QED
    BY <2>1, FS_Subset, FS_CardinalityType
<1>2. now = IF t[p].kind \in K THEN before \cup {p} ELSE before
  OBVIOUS
<1>3. p \notin before
  OBVIOUS
<1>4. o = p => before = {}
  OBVIOUS
<1>5. Count(t, K, o, p - 1) = Cardinality(before) /\ Count(t, K, o, p) = Cardinality(now)
  BY DEF Count
<1> HIDE DEF before, now
<1>6. Cardinality(before \cup {p}) = Cardinality(before) + 1
  BY <1>1, <1>3, FS_AddElement
<1>7. Cardinality({}) = 0
  BY FS_EmptySet
<1>8. /\ t[p].kind \in K => Cardinality(now) = Cardinality(before) + 1
      /\ t[p].kind \notin K => Cardinality(now) = Cardinality(before)
      /\ o = p => Cardinality(before) = 0
  BY <1>2, <1>4, <1>6, <1>7
<1>9. Cardinality(now) \in Nat
  BY <1>1, <1>8
<1>10. QED
  BY <1>1, <1>5, <1>8, <1>9

(* An opener goes one deeper, #endif comes one up.                          *)
LEMMA DepthNext ==
  ASSUME NEW t, NEW p \in Nat \ {0}, NEW o \in 1..p
  PROVE  /\ Depth(t, o, p - 1) \in Int /\ Depth(t, o, p) \in Int
         /\ t[p].kind \in Openers => Depth(t, o, p) = Depth(t, o, p - 1) + 1
         /\ t[p].kind = "endif" => Depth(t, o, p) = Depth(t, o, p - 1) - 1
         /\ t[p].kind \notin Openers \cup {"endif"} => Depth(t, o, p) = Depth(t, o, p - 1)
         /\ o = p => Depth(t, o, p - 1) = 0
         /\ Count(t, Openers, o, p) > Count(t, {"endif"}, o, p) <=> Depth(t, o, p) > 0
<1>1. /\ Count(t, Openers, o, p - 1) \in Nat /\ Count(t, Openers, o, p) \in Nat
      /\ t[p].kind \in Openers => Count(t, Openers, o, p) = Count(t, Openers, o, p - 1) + 1
      /\ t[p].kind \notin Openers => Count(t, Openers, o, p) = Count(t, Openers, o, p - 1)
      /\ o = p => Count(t, Openers, o, p - 1) = 0
  BY CountNext
<1>2. /\ Count(t, {"endif"}, o, p - 1) \in Nat /\ Count(t, {"endif"}, o, p) \in Nat
      /\ t[p].kind \in {"endif"} => Count(t, {"endif"}, o, p) = Count(t, {"endif"}, o, p - 1) + 1
      /\ t[p].kind \notin {"endif"} => Count(t, {"endif"}, o, p) = Count(t, {"endif"}, o, p - 1)
      /\ o = p => Count(t, {"endif"}, o, p - 1) = 0
  BY CountNext
<1>3. t[p].kind \in Openers => t[p].kind \notin {"endif"}
  BY DEF Openers
<1> DEFINE co == Count(t, Openers, o, p - 1)  cn == Count(t, Openers, o, p)
           eo == Count(t, {"endif"}, o, p - 1)  en == Count(t, {"endif"}, o, p)
<1>4. Depth(t, o, p - 1) = co - eo /\ Depth(t, o, p) = cn - en
  BY DEF Depth
<1> HIDE DEF co, cn, eo, en
<1>5. QED
  BY <1>1, <1>2, <1>3, <1>4 DEF co, cn, eo, en

(* The groups around the next position.                                     *)
LEMMA EnclosingNext ==
  ASSUME NEW t, NEW p \in Nat \ {0}
  PROVE  /\ t[p].kind \in Openers => Enclosing(t, p + 1) = Enclosing(t, p) \cup {p}
         /\ t[p].kind = "endif" => Enclosing(t, p + 1) = {o \in Enclosing(t, p) : Depth(t, o, p - 1) > 1}
         /\ t[p].kind \notin Openers \cup {"endif"} => Enclosing(t, p + 1) = Enclosing(t, p)
         /\ \A o \in Enclosing(t, p) : o \in 1..(p - 1) /\ t[o].kind \in Openers /\ Depth(t, o, p - 1) > 0
<1>1. (p + 1) - 1 = p
  OBVIOUS
<1>2. \A o : o \in Enclosing(t, p) <=>
               /\ o \in 1..(p - 1) /\ t[o].kind \in Openers
               /\ \A q \in o..(p - 1) : Count(t, Openers, o, q) > Count(t, {"endif"}, o, q)
  BY DEF Enclosing
<1>3. \A o : o \in Enclosing(t, p + 1) <=>
               /\ o \in 1..p /\ t[o].kind \in Openers
               /\ \A q \in o..p : Count(t, Openers, o, q) > Count(t, {"endif"}, o, q)
  BY <1>1 DEF Enclosing
<1>4. ASSUME NEW o \in 1..(p - 1)
      PROVE  o \in Enclosing(t, p + 1) <=> o \in Enclosing(t, p) /\ Depth(t, o, p) > 0
  <2>1. o \in 1..p /\ p \in o..p
    OBVIOUS
  <2>2. Count(t, Openers, o, p) > Count(t, {"endif"}, o, p) <=> Depth(t, o, p) > 0
    BY <2>1, DepthNext
  <2>3. \A q : q \in o..p <=> q \in o..(p - 1) \/ q = p
    BY <2>1
  <2>4. QED
    BY <1>2, <1>3, <2>1, <2>2, <2>3
<1>5. p \in Enclosing(t, p + 1) <=> t[p].kind \in Openers
  <2>0. p \in 1..p
    OBVIOUS
  <2>1. Count(t, Openers, p, p) > Count(t, {"endif"}, p, p) <=> Depth(t, p, p) > 0
    BY <2>0, DepthNext
  <2>2. t[p].kind \in Openers => Depth(t, p, p) > 0
    BY <2>0, DepthNext
  <2>3. \A q \in p..p : q = p
    OBVIOUS
  <2>4. QED
    BY <1>3, <2>1, <2>2, <2>3
<1>6. ASSUME NEW o \in Enclosing(t, p)
      PROVE  o \in 1..(p - 1) /\ t[o].kind \in Openers /\ Depth(t, o, p - 1) > 0
  <2>1. o \in 1..(p - 1) /\ p - 1 \in o..(p - 1)
    BY <1>2
  <2>2. Count(t, Openers, o, p - 1) > Count(t, {"endif"}, o, p - 1)
    BY <1>2, <2>1
  <2>3. o \in 1..(p - 1) /\ p - 1 \in Nat \ {0}
    BY <2>1
  <2>4. Depth(t, o, p - 1) > 0
    BY <2>2, <2>3, DepthNext
  <2>5. QED
    BY <1>2, <2>4
<1>7. \A o \in Enclosing(t, p + 1) : o \in 1..(p - 1) \/ o = p
  BY <1>3
<1>8. p \notin Enclosing(t, p)
  BY <1>2
<1>9. \A o \in 1..(p - 1) :
        /\ t[p].kind \in Openers => Depth(t, o, p) = Depth(t, o, p - 1) + 1
        /\ t[p].kind = "endif" => Depth(t, o, p) = Depth(t, o, p - 1) - 1
        /\ t[p].kind \notin Openers \cup {"endif"} => Depth(t, o, p) = Depth(t, o, p - 1)
        /\ Depth(t, o, p - 1) \in Int
  <2>1. \A o \in 1..(p - 1) : o \in 1..p
    OBVIOUS
  <2>2. QED
    BY <2>1, DepthNext
<1>10. CASE t[p].kind \in Openers
  <2>1. t[p].kind # "endif"
    BY <1>10 DEF Openers
  <2>2. \A o : o \in Enclosing(t, p + 1) <=> o \in Enclosing(t, p) \/ o = p
    BY <1>4, <1>5, <1>6, <1>7, <1>9, <1>10
  <2>3. Enclosing(t, p + 1) = Enclosing(t, p) \cup {p}
    BY <2>2
  <2>4. QED
    BY <1>6, <1>10, <2>1, <2>3
<1>11. CASE t[p].kind = "endif"
  <2>1. t[p].kind \notin Openers
    BY <1>11 DEF Openers
  <2>2. \A o : o \in Enclosing(t, p + 1) <=> o \in Enclosing(t, p) /\ Depth(t, o, p - 1) > 1
    BY <1>4, <1>5, <1>6, <1>7, <1>9, <1>11, <2>1
  <2>3. Enclosing(t, p + 1) = {o \in Enclosing(t, p) : Depth(t, o, p - 1) > 1}
    BY <2>2
  <2>4. QED
    BY <1>6, <1>11, <2>1, <2>3
<1>12. CASE t[p].kind \notin Openers \cup {"endif"}
  <2>1. \A o : o \in Enclosing(t, p + 1) <=> o \in Enclosing(t, p)
    BY <1>4, <1>5, <1>6, <1>7, <1>9, <1>12
  <2>2. Enclosing(t, p + 1) = Enclosing(t, p)
    BY <2>1
  <2>3. QED
    BY <1>6, <1>12, <2>2
<1>13. QED
  BY <1>10, <1>11, <1>12

(* The branches that begin before the next position: one more when the item *)
(* is an #elif or #else, in the innermost group alone.                      *)
LEMMA BranchesNext ==
  ASSUME NEW t, NEW p \in Nat \ {0}, NEW o \in 1..(p - 1)
  PROVE  /\ \A h \in BranchesBefore(t, o, p) :
              h \in o..(p - 1) /\ (h = o \/ t[h].kind \in {"elif", "else"})
         /\ o \in BranchesBefore(t, o, p)
         /\ BranchesBefore(t, o, p + 1) =
              IF t[p].kind \in {"elif", "else"} /\ o \in Enclosing(t, p) /\ \A i \in Enclosing(t, p) : i <= o
              THEN BranchesBefore(t, o, p) \cup {p} ELSE BranchesBefore(t, o, p)
<1> DEFINE Starts(h) == \/ h = o
                        \/ /\ t[h].kind \in {"elif", "else"}
                           /\ o \in Enclosing(t, h)
                           /\ \A i \in Enclosing(t, h) : i <= o
<1>1. (p + 1) - 1 = p
  OBVIOUS
<1>2. /\ BranchesBefore(t, o, p) = {h \in o..(p - 1) : Starts(h)}
      /\ BranchesBefore(t, o, p + 1) = {h \in o..p : Starts(h)}
  BY <1>1 DEF BranchesBefore
<1>3. Starts(o)
  OBVIOUS
<1>4. \A h : Starts(h) => h = o \/ t[h].kind \in {"elif", "else"}
  OBVIOUS
<1>5. Starts(p) <=> t[p].kind \in {"elif", "else"} /\ o \in Enclosing(t, p) /\ \A i \in Enclosing(t, p) : i <= o
  OBVIOUS
<1> HIDE DEF Starts
<1>6. {h \in o..p : Starts(h)} = IF Starts(p) THEN {h \in o..(p - 1) : Starts(h)} \cup {p}
                                              ELSE {h \in o..(p - 1) : Starts(h)}
  OBVIOUS
<1>7. /\ \A h \in BranchesBefore(t, o, p) : h \in o..(p - 1) /\ (h = o \/ t[h].kind \in {"elif", "else"})
      /\ o \in BranchesBefore(t, o, p)
  BY <1>2, <1>3, <1>4
<1>8. BranchesBefore(t, o, p + 1) =
        IF Starts(p) THEN BranchesBefore(t, o, p) \cup {p} ELSE BranchesBefore(t, o, p)
  BY <1>2, <1>6
<1>9. QED
  BY <1>5, <1>7, <1>8

(* A group in which the item begins no branch keeps its branches.           *)
LEMMA BranchesStay ==
  ASSUME NEW t, NEW p \in Nat \ {0}, NEW o \in 1..(p - 1),
         t[p].kind \in {"elif", "else"} => \E i \in Enclosing(t, p) : ~(i <= o)
  PROVE  BranchesBefore(t, o, p + 1) = BranchesBefore(t, o, p)
  BY BranchesNext

(* The group that begins with the item has one branch so far.               *)
LEMMA FirstBranch ==
  ASSUME NEW t, NEW p \in Nat \ {0}
  PROVE  BranchesBefore(t, p, p + 1) = {p}
<1>1. (p + 1) - 1 = p
  OBVIOUS
<1>2. QED
  BY <1>1 DEF BranchesBefore
-----------------------------------------------------------------------------
(***************************************************************************)
(* g are the openers of the groups around p, the outermost first; v the     *)
(* verdicts on the heads before p; and the entries of c behind base say of  *)
(* each of these groups what the text says of it.                           *)
(***************************************************************************)
LiveGroup(t, v, o, p) ==
  \A h \in BranchesBefore(t, o, p) : v[h] = (\A i \in BranchesBefore(t, o, p) : i <= h)

Around(g, t, p) ==
  /\ g \in Seq(Nat)
  /\ Enclosing(t, p) = {g[i] : i \in 1..Len(g)}
  /\ \A i, j \in 1..Len(g) : i < j => g[i] < g[j]
  /\ \A i \in 1..Len(g) : Depth(t, g[i], p - 1) = Len(g) + 1 - i

Judged(t, p, v) == \A h \in 1..(p - 1) : t[h].kind \in Heads => h \in DOMAIN v /\ v[h] \in BOOLEAN

ShowsGroup(entry, g, i, t, p, v) ==
  /\ entry.parent <=> \A j \in 1..(i - 1) : LiveGroup(t, v, g[j], p)
  /\ entry.active <=> \A j \in 1..i : LiveGroup(t, v, g[j], p)
  /\ entry.taken <=> entry.parent /\ \E h \in BranchesBefore(t, g[i], p) : v[h]

Shown(g, t, p, v, c, base) == \A i \in 1..Len(g) : ShowsGroup(c[base + i], g, i, t, p, v)

Mirrors(g, t, p, v, c, base) == Around(g, t, p) /\ Judged(t, p, v) /\ Shown(g, t, p, v, c, base)

(* Openers lie before p, and the last is the innermost group.               *)
LEMMA AroundBefore ==
  ASSUME NEW t, NEW p \in Nat \ {0}, NEW g, Around(g, t, p)
  PROVE  /\ Len(g) \in Nat
         /\ \A i \in 1..Len(g) : g[i] \in 1..(p - 1) /\ g[i] \in Enclosing(t, p) /\ t[g[i]].kind \in Openers
         /\ \A i \in 1..Len(g) : (\A o \in Enclosing(t, p) : o <= g[i]) <=> i = Len(g)
<1>1. g \in Seq(Nat) /\ Len(g) \in Nat
  BY LenProperties DEF Around
<1>2. \A i \in 1..Len(g) : g[i] \in Enclosing(t, p)
  BY DEF Around
<1>3. \A i \in 1..Len(g) : g[i] \in 1..(p - 1) /\ t[g[i]].kind \in Openers
  BY <1>2, EnclosingNext
<1>4. ASSUME NEW i \in 1..Len(g) PROVE (\A o \in Enclosing(t, p) : o <= g[i]) <=> i = Len(g)
  <2>1. CASE i = Len(g)
    <3>1. \A j \in 1..Len(g) : g[j] <= g[i]
      BY <1>1, <1>3, <2>1 DEF Around
    <3>2. QED
      BY <2>1, <3>1 DEF Around
  <2>2. CASE i # Len(g)
    <3>1. i < Len(g) /\ Len(g) \in 1..Len(g)
      BY <1>1, <2>2
    <3>2. g[i] < g[Len(g)]
      BY <3>1 DEF Around
    <3>3. g[Len(g)] \in Enclosing(t, p) /\ g[i] \in 1..(p - 1) /\ g[Len(g)] \in 1..(p - 1)
      BY <1>2, <1>3, <3>1
    <3>4. ~(g[Len(g)] <= g[i])
      BY <3>2, <3>3
    <3>5. QED
      BY Zenon, <2>2, <3>3, <3>4
  <2>3. QED
    BY <2>1, <2>2
<1>5. QED
  BY <1>1, <1>2, <1>3, <1>4

(* Nothing is around the first position.                                    *)
LEMMA MirrorsStart ==
  ASSUME NEW t, NEW v, NEW c, NEW base
  PROVE  Mirrors(<< >>, t, 1, v, c, base)
<1>1. Enclosing(t, 1) = {}
  BY DEF Enclosing
<1>2. << >> \in Seq(Nat) /\ Len(<< >>) = 0
  BY EmptySeq
<1>3. Around(<< >>, t, 1)
  BY <1>1, <1>2 DEF Around
<1>4. Judged(t, 1, v)
  BY DEF Judged
<1>5. Shown(<< >>, t, 1, v, c, base)
  BY <1>2 DEF Shown
<1>6. QED
  BY <1>3, <1>4, <1>5 DEF Mirrors

(* The verdicts on the branches so far are known.                           *)
LEMMA BranchesJudged ==
  ASSUME NEW t, NEW p \in Nat \ {0}, NEW v, Judged(t, p, v), NEW o \in 1..(p - 1), t[o].kind \in Openers
  PROVE  \A h \in BranchesBefore(t, o, p) : h \in 1..(p - 1) /\ h \in DOMAIN v /\ v[h] \in BOOLEAN
<1>1. \A h \in BranchesBefore(t, o, p) : h \in o..(p - 1) /\ (h = o \/ t[h].kind \in {"elif", "else"})
  BY BranchesNext
<1>2. \A k : k \in Openers \/ k \in {"elif", "else"} => k \in Heads
  BY DEF Openers, Heads
<1>3. \A h \in BranchesBefore(t, o, p) : t[h].kind \in Heads /\ h \in 1..(p - 1)
  BY <1>1, <1>2
<1>4. QED
  BY <1>3 DEF Judged

(* A group in which no branch begins at p, and whose verdicts are kept, is  *)
(* as live behind p as before.                                              *)
LEMMA LiveGroupNext ==
  ASSUME NEW t, NEW p \in Nat \ {0}, NEW v, NEW w, NEW o \in 1..(p - 1),
         BranchesBefore(t, o, p + 1) = BranchesBefore(t, o, p),
         \A h \in BranchesBefore(t, o, p) : w[h] = v[h]
  PROVE  /\ LiveGroup(t, w, o, p + 1) <=> LiveGroup(t, v, o, p)
         /\ (\E h \in BranchesBefore(t, o, p + 1) : w[h]) <=> \E h \in BranchesBefore(t, o, p) : v[h]
<1> DEFINE B == BranchesBefore(t, o, p)
<1>1. LiveGroup(t, w, o, p + 1) <=> \A h \in B : w[h] = (\A i \in B : i <= h)
  BY Zenon DEF LiveGroup
<1>2. LiveGroup(t, v, o, p) <=> \A h \in B : v[h] = (\A i \in B : i <= h)
  BY Zenon DEF LiveGroup
<1>3. \A h \in B : w[h] = v[h]
  OBVIOUS
<1> HIDE DEF B
<1>4. (\A h \in B : w[h] = (\A i \in B : i <= h)) <=> \A h \in B : v[h] = (\A i \in B : i <= h)
  BY Zenon, <1>3
<1>5. (\E h \in B : w[h]) <=> \E h \in B : v[h]
  BY Zenon, <1>3
<1>6. QED
  BY <1>1, <1>2, <1>4, <1>5 DEF B

(* An item that is no head and ends no group.                               *)
LEMMA MirrorsPass ==
  ASSUME NEW t, NEW p \in Nat \ {0}, NEW g, NEW v, NEW c, NEW base, Mirrors(g, t, p, v, c, base),
         t[p].kind \notin Heads \cup {"endif"}
  PROVE  Mirrors(g, t, p + 1, v, c, base)
<1>1. t[p].kind \notin Openers \cup {"endif"} /\ t[p].kind \notin {"elif", "else"}
  BY DEF Openers, Heads
<1>2. /\ Len(g) \in Nat
      /\ \A i \in 1..Len(g) : g[i] \in 1..(p - 1)
  BY AroundBefore DEF Mirrors
<1>3. (p + 1) - 1 = p
  OBVIOUS
<1>4. Around(g, t, p + 1)
  <2>1. Enclosing(t, p + 1) = Enclosing(t, p)
    BY <1>1, EnclosingNext
  <2>2. \A i \in 1..Len(g) : Depth(t, g[i], p) = Depth(t, g[i], p - 1)
    BY <1>1, <1>2, DepthNext
  <2>3. QED
    BY <1>3, <2>1, <2>2 DEF Mirrors, Around
<1>5. Judged(t, p + 1, v)
  <2>1. \A h \in 1..p : h \in 1..(p - 1) \/ h = p
    OBVIOUS
  <2>2. QED
    BY <1>3, <2>1 DEF Mirrors, Judged
<1>6. Shown(g, t, p + 1, v, c, base)
  <2>1. ASSUME NEW i \in 1..Len(g)
        PROVE  /\ LiveGroup(t, v, g[i], p + 1) <=> LiveGroup(t, v, g[i], p)
               /\ (\E h \in BranchesBefore(t, g[i], p + 1) : v[h]) <=> \E h \in BranchesBefore(t, g[i], p) : v[h]
    <3>1. BranchesBefore(t, g[i], p + 1) = BranchesBefore(t, g[i], p)
      BY <1>1, <1>2, BranchesNext
    <3>2. QED
      BY <1>2, <3>1, LiveGroupNext
  <2>2. ASSUME NEW i \in 1..Len(g) PROVE ShowsGroup(c[base + i], g, i, t, p + 1, v)
    <3>1. \A j \in 1..i : j \in 1..Len(g)
      BY <1>2
    <3>2. \A j \in 1..(i - 1) : j \in 1..Len(g)
      BY <1>2
    <3>3. ShowsGroup(c[base + i], g, i, t, p, v)
      BY DEF Mirrors, Shown
    <3>4. QED
      BY Zenon, <2>1, <3>1, <3>2, <3>3 DEF ShowsGroup
  <2>3. QED
    BY <2>2 DEF Shown
<1>7. QED
  BY <1>4, <1>5, <1>6 DEF Mirrors

(* A closer or a branch of no group.                                        *)
LEMMA MirrorsUnmatched ==
  ASSUME NEW t, NEW p \in Nat \ {0}, NEW g, NEW v, NEW w, NEW c, NEW base, Mirrors(g, t, p, v, c, base),
         Len(g) = 0, t[p].kind \in {"elif", "else", "endif"}, Judged(t, p + 1, w)
  PROVE  Mirrors(g, t, p + 1, w, c, base) /\ Enclosing(t, p) = {}
<1>1. Enclosing(t, p) = {}
  BY DEF Mirrors, Around
<1>2. Enclosing(t, p + 1) = {}
  <2>1. t[p].kind \in {"elif", "else"} => t[p].kind \notin Openers \cup {"endif"}
    BY DEF Openers
  <2>2. QED
    BY <1>1, <2>1, EnclosingNext
<1>3. Around(g, t, p + 1)
  BY <1>2 DEF Mirrors, Around
<1>4. Shown(g, t, p + 1, w, c, base)
  BY DEF Shown
<1>5. QED
  BY <1>1, <1>3, <1>4 DEF Mirrors

(* #if: one more group, live when it and all around it are.                 *)
Opened(g, t, p, v, w, c, d, base) ==
  /\ t[p].kind \in Openers /\ Judged(t, p + 1, w)
  /\ \A h \in 1..(p - 1) : h \in DOMAIN v => w[h] = v[h]
  /\ \A i \in 1..Len(g) : d[base + i] = c[base + i]
  /\ d[base + Len(g) + 1].parent <=> \A j \in 1..Len(g) : LiveGroup(t, v, g[j], p)
  /\ d[base + Len(g) + 1].active <=> d[base + Len(g) + 1].parent /\ w[p]
  /\ d[base + Len(g) + 1].taken <=> d[base + Len(g) + 1].parent /\ w[p]

(* What stands for the groups open in a text does so after one more is      *)
(* opened.                                                                  *)
LEMMA MirrorsOpen ==
  ASSUME NEW t, NEW p \in Nat \ {0}, NEW g, NEW v, NEW w, NEW c, NEW d, NEW base \in Nat,
         Mirrors(g, t, p, v, c, base), Opened(g, t, p, v, w, c, d, base)
  PROVE  Mirrors(Append(g, p), t, p + 1, w, d, base) /\ Len(Append(g, p)) = Len(g) + 1
<1> DEFINE n == Len(g)  f == Append(g, p)
<1>0. Around(g, t, p)
  BY DEF Mirrors
<1>kind. t[p].kind \in Openers
  BY DEF Opened
<1>verdicts. Judged(t, p + 1, w) /\ \A h \in 1..(p - 1) : h \in DOMAIN v => w[h] = v[h]
  BY Zenon DEF Opened
<1>kept. \A i \in 1..n : d[base + i] = c[base + i]
  BY Zenon DEF Opened
<1>entry. /\ d[base + n + 1].parent <=> \A j \in 1..n : LiveGroup(t, v, g[j], p)
          /\ d[base + n + 1].active <=> d[base + n + 1].parent /\ w[p]
          /\ d[base + n + 1].taken <=> d[base + n + 1].parent /\ w[p]
  BY Zenon DEF Opened
<1>1. /\ n \in Nat /\ g \in Seq(Nat)
      /\ \A i \in 1..n : g[i] \in 1..(p - 1) /\ t[g[i]].kind \in Openers
  <2>1. n \in Nat /\ \A i \in 1..n : g[i] \in 1..(p - 1) /\ t[g[i]].kind \in Openers
    BY <1>0, AroundBefore
  <2>2. QED
    BY <1>0, <2>1 DEF Around
<1>2. f \in Seq(Nat) /\ Len(f) = n + 1 /\ f[n + 1] = p /\ \A i \in 1..n : f[i] = g[i]
  BY <1>1, AppendProperties
<1>3. (p + 1) - 1 = p /\ \A i \in 1..(n + 1) : i \in 1..n \/ i = n + 1
  BY <1>1
<1> HIDE DEF n, f
<1>4. Around(f, t, p + 1)
  <2>1. Enclosing(t, p + 1) = {f[i] : i \in 1..(n + 1)}
    <3>1. Enclosing(t, p + 1) = Enclosing(t, p) \cup {p}
      BY <1>kind, EnclosingNext
    <3>2. Enclosing(t, p) = {g[i] : i \in 1..n}
      BY DEF Mirrors, Around, n
    <3>3. \A o : o \in {g[i] : i \in 1..n} \cup {p} <=> o \in {f[i] : i \in 1..(n + 1)}
      <4>1. n + 1 \in 1..(n + 1) /\ \A i \in 1..n : i \in 1..(n + 1)
        BY <1>1
      <4>2. QED
        BY Zenon, <1>2, <1>3, <4>1
    <3>4. QED
      BY <3>1, <3>2, <3>3
  <2>2. ASSUME NEW i \in 1..(n + 1), NEW j \in 1..(n + 1), i < j PROVE f[i] < f[j]
    <3>1. i \in 1..n
      BY <1>1, <2>2
    <3>2. CASE j \in 1..n
      <4>1. g[i] < g[j]
        BY <1>0, <2>2, <3>1, <3>2 DEF Around, n
      <4>2. QED
        BY <1>2, <3>1, <3>2, <4>1
    <3>3. CASE j = n + 1
      <4>1. f[j] = p /\ f[i] = g[i] /\ g[i] \in 1..(p - 1)
        BY <1>1, <1>2, <3>1, <3>3
      <4>2. QED
        BY <4>1
    <3>4. QED
      BY <1>3, <3>2, <3>3
  <2>3. ASSUME NEW i \in 1..(n + 1) PROVE Depth(t, f[i], p) = n + 2 - i
    <3>1. CASE i \in 1..n
      <4>1. Depth(t, g[i], p - 1) = n + 1 - i
        BY <3>1 DEF Mirrors, Around, n
      <4>2. Depth(t, g[i], p) = Depth(t, g[i], p - 1) + 1
        <5>1. g[i] \in 1..p
          BY <1>1, <3>1
        <5>2. QED
          BY <1>kind, <5>1, DepthNext
      <4>3. QED
        BY <1>1, <1>2, <3>1, <4>1, <4>2
    <3>2. CASE i = n + 1
      <4>1. p \in 1..p
        OBVIOUS
      <4>2. Depth(t, p, p) = Depth(t, p, p - 1) + 1 /\ Depth(t, p, p - 1) = 0
        BY <1>kind, <4>1, DepthNext
      <4>3. QED
        BY <1>1, <1>2, <3>2, <4>2
    <3>3. QED
      BY <1>3, <3>1, <3>2
  <2>4. QED
    BY <1>1, <1>2, <1>3, <2>1, <2>2, <2>3 DEF Around
<1>5. t[p].kind \notin {"elif", "else"}
  BY <1>kind DEF Openers
<1>6. ASSUME NEW i \in 1..n
      PROVE  /\ LiveGroup(t, w, f[i], p + 1) <=> LiveGroup(t, v, g[i], p)
             /\ (\E h \in BranchesBefore(t, f[i], p + 1) : w[h]) <=> \E h \in BranchesBefore(t, g[i], p) : v[h]
  <2>1. BranchesBefore(t, g[i], p + 1) = BranchesBefore(t, g[i], p)
    BY <1>1, <1>5, BranchesStay
  <2>2. \A h \in BranchesBefore(t, g[i], p) : w[h] = v[h]
    BY <1>1, <1>verdicts, BranchesJudged DEF Mirrors
  <2>3. g[i] \in 1..(p - 1) /\ f[i] = g[i]
    BY <1>1, <1>2
  <2>4. QED
    BY <2>1, <2>2, <2>3, LiveGroupNext
<1>7. LiveGroup(t, w, p, p + 1) <=> w[p]
  <2>1. BranchesBefore(t, p, p + 1) = {p} /\ p <= p
    BY FirstBranch
  <2>2. w[p] \in BOOLEAN
    <3>1. p \in 1..((p + 1) - 1) /\ t[p].kind \in Heads
      BY <1>kind DEF Openers, Heads
    <3>2. QED
      BY <1>verdicts, <3>1 DEF Judged
  <2>3. QED
    BY <2>1, <2>2 DEF LiveGroup
<1>8. ASSUME NEW i \in 1..(n + 1) PROVE ShowsGroup(d[base + i], f, i, t, p + 1, w)
  <2>1. CASE i \in 1..n
    <3>0. d[base + i] = c[base + i]
      BY <1>kept, <2>1
    <3>1. (\A j \in 1..i : j \in 1..n) /\ (\A j \in 1..(i - 1) : j \in 1..n)
      BY <1>1, <2>1
    <3>2. ShowsGroup(c[base + i], g, i, t, p, v)
      BY <2>1 DEF Mirrors, Shown, n
    <3>3. QED
      BY Zenon, <1>6, <2>1, <3>0, <3>1, <3>2 DEF ShowsGroup
  <2>2. CASE i = n + 1
    <3> DEFINE e == d[base + i]
    <3>1. e = d[base + n + 1] /\ i - 1 = n
      BY <1>1, <2>2
    <3>2. e.parent <=> \A j \in 1..(i - 1) : LiveGroup(t, w, f[j], p + 1)
      <4>1. e.parent <=> \A j \in 1..n : LiveGroup(t, v, g[j], p)
        BY Zenon, <1>entry, <3>1
      <4>2. QED
        BY Zenon, <1>6, <3>1, <4>1
    <3>3. e.active <=> e.parent /\ w[p]
      BY Zenon, <1>entry, <3>1
    <3>4. e.taken <=> e.parent /\ w[p]
      BY Zenon, <1>entry, <3>1
    <3>5. LiveGroup(t, w, f[i], p + 1) <=> w[p]
      BY <1>2, <1>7, <2>2
    <3>6. (\A j \in 1..i : LiveGroup(t, w, f[j], p + 1))
            <=> (\A j \in 1..(i - 1) : LiveGroup(t, w, f[j], p + 1)) /\ LiveGroup(t, w, f[i], p + 1)
      <4>1. \A j : j \in 1..i <=> j \in 1..(i - 1) \/ j = i
        BY <1>1
      <4>2. QED
        BY Zenon, <4>1
    <3>7. (\E h \in BranchesBefore(t, f[i], p + 1) : w[h]) <=> w[p]
      <4>1. BranchesBefore(t, f[i], p + 1) = {p}
        BY <1>2, <2>2, FirstBranch
      <4>2. QED
        BY Zenon, <4>1
    <3> HIDE DEF e
    <3>8. ShowsGroup(e, f, i, t, p + 1, w)
      BY Zenon, <3>2, <3>3, <3>4, <3>5, <3>6, <3>7 DEF ShowsGroup
    <3>9. QED
      BY <3>8 DEF e
  <2>3. QED
    BY <1>3, <2>1, <2>2
<1>9. Shown(f, t, p + 1, w, d, base)
  BY <1>2, <1>8 DEF Shown
<1>10. QED
  BY <1>2, <1>4, <1>9, <1>verdicts DEF Mirrors, f, n

(* #elif, #else: the innermost group is live if none of its branches was,   *)
(* the item's condition holds, and all around it are.                       *)
Branched(g, t, p, v, w, c, d, base, last, new) ==
  /\ t[p].kind \in {"elif", "else"} /\ Judged(t, p + 1, w)
  /\ \A h \in 1..(p - 1) : h \in DOMAIN v => w[h] = v[h]
  /\ \A i \in 1..(Len(g) - 1) : d[base + i] = c[base + i]
  /\ last = c[base + Len(g)] /\ new = d[base + Len(g)]
  /\ new.parent <=> last.parent
  /\ new.active <=> last.parent /\ ~last.taken /\ w[p]
  /\ new.taken <=> last.taken \/ new.active

(* And after the innermost group goes on with another branch.               *)
LEMMA MirrorsBranch ==
  ASSUME NEW t, NEW p \in Nat \ {0}, NEW g, NEW v, NEW w, NEW c, NEW d, NEW base \in Nat,
         Mirrors(g, t, p, v, c, base), Len(g) > 0,
         NEW last, NEW new, Branched(g, t, p, v, w, c, d, base, last, new)
  PROVE  Mirrors(g, t, p + 1, w, d, base)
<1> DEFINE n == Len(g)  B == BranchesBefore(t, g[n], p)
<1>1. Around(g, t, p) /\ Judged(t, p, v)
  BY DEF Mirrors
<1>kind. t[p].kind \in {"elif", "else"}
  BY Zenon DEF Branched
<1>verdicts. Judged(t, p + 1, w) /\ \A h \in 1..(p - 1) : h \in DOMAIN v => w[h] = v[h]
  BY Zenon DEF Branched
<1>kept. \A i \in 1..(n - 1) : d[base + i] = c[base + i]
  BY Zenon DEF Branched
<1>entry. /\ last = c[base + n] /\ new = d[base + n]
          /\ new.parent <=> last.parent
          /\ new.active <=> last.parent /\ ~last.taken /\ w[p]
          /\ new.taken <=> last.taken \/ new.active
  BY Zenon DEF Branched
<1>2. /\ n \in Nat /\ n \in 1..n
      /\ \A i \in 1..n : g[i] \in 1..(p - 1) /\ g[i] \in Enclosing(t, p) /\ t[g[i]].kind \in Openers
      /\ \A i \in 1..n : (\A o \in Enclosing(t, p) : o <= g[i]) <=> i = n
  <2>1. /\ n \in Nat
        /\ \A i \in 1..n : g[i] \in 1..(p - 1) /\ g[i] \in Enclosing(t, p) /\ t[g[i]].kind \in Openers
        /\ \A i \in 1..n : (\A o \in Enclosing(t, p) : o <= g[i]) <=> i = n
    BY <1>1, AroundBefore
  <2>2. QED
    BY <2>1
<1>3. (p + 1) - 1 = p
  OBVIOUS
<1>4. t[p].kind \notin Openers \cup {"endif"} /\ t[p].kind \in Heads
  BY <1>kind DEF Openers, Heads
<1>5. \A i \in 1..n : i = n \/ i \in 1..(n - 1)
  BY <1>2
<1>6. Around(g, t, p + 1)
  <2>1. Enclosing(t, p + 1) = Enclosing(t, p)
    BY <1>4, EnclosingNext
  <2>2. \A i \in 1..n : Depth(t, g[i], p) = Depth(t, g[i], p - 1)
    BY <1>2, <1>4, DepthNext
  <2>3. QED
    BY <1>1, <1>3, <2>1, <2>2 DEF Around
<1>7. \A i \in 1..n : \A h \in BranchesBefore(t, g[i], p) : h \in 1..(p - 1) /\ w[h] = v[h] /\ v[h] \in BOOLEAN
  BY <1>1, <1>2, <1>verdicts, BranchesJudged
<1>8. ASSUME NEW i \in 1..(n - 1)
      PROVE  /\ LiveGroup(t, w, g[i], p + 1) <=> LiveGroup(t, v, g[i], p)
             /\ (\E h \in BranchesBefore(t, g[i], p + 1) : w[h]) <=> \E h \in BranchesBefore(t, g[i], p) : v[h]
  <2>1. i \in 1..n /\ i # n
    BY <1>2
  <2>2. BranchesBefore(t, g[i], p + 1) = BranchesBefore(t, g[i], p)
    <3>1. \E o \in Enclosing(t, p) : ~(o <= g[i])
      BY <1>2, <2>1
    <3>2. g[i] \in 1..(p - 1)
      BY <1>2, <2>1
    <3>3. QED
      BY Zenon, <3>1, <3>2, BranchesStay
  <2>3. g[i] \in 1..(p - 1) /\ \A h \in BranchesBefore(t, g[i], p) : w[h] = v[h]
    BY <1>2, <1>7, <2>1
  <2>4. QED
    BY Zenon, <2>2, <2>3, LiveGroupNext
<1>9. BranchesBefore(t, g[n], p + 1) = B \cup {p}
  <2>1. g[n] \in 1..(p - 1) /\ g[n] \in Enclosing(t, p) /\ \A o \in Enclosing(t, p) : o <= g[n]
    BY <1>2
  <2>2. QED
    BY <1>kind, <2>1, BranchesNext
<1>10. w[p] \in BOOLEAN
  <2>1. p \in 1..((p + 1) - 1)
    OBVIOUS
  <2>2. QED
    BY <1>4, <1>verdicts, <2>1 DEF Judged
<1>11. \A h \in B : h \in 1..(p - 1) /\ w[h] = v[h] /\ v[h] \in BOOLEAN
  BY <1>2, <1>7
<1>12. LiveGroup(t, w, g[n], p + 1) <=> w[p] /\ ~\E h \in B : v[h]
  <2>1. LiveGroup(t, w, g[n], p + 1)
          <=> \A h \in B \cup {p} : w[h] = (\A i \in B \cup {p} : i <= h)
    BY Zenon, <1>9 DEF LiveGroup
  <2> HIDE DEF B
  <2>2. \A i \in B \cup {p} : i <= p
    BY <1>11
  <2>3. \A h \in B : ~(p <= h)
    BY <1>11
  <2>4. \A h \in B : ~\A i \in B \cup {p} : i <= h
    BY <2>3
  <2>5. (\A h \in B \cup {p} : w[h] = (\A i \in B \cup {p} : i <= h))
          <=> w[p] = TRUE /\ \A h \in B : w[h] = FALSE
    BY Zenon, <2>2, <2>4
  <2>6. (\A h \in B : w[h] = FALSE) <=> ~\E h \in B : v[h]
    BY <1>11
  <2>7. QED
    BY <1>10, <2>1, <2>5, <2>6
<1>13. (\E h \in B \cup {p} : w[h]) <=> (\E h \in B : v[h]) \/ w[p]
  <2> HIDE DEF B
  <2>1. QED
    BY Zenon, <1>11
<1>14. ShowsGroup(last, g, n, t, p, v)
  BY <1>2, <1>entry DEF Mirrors, Shown
<1>15. ShowsGroup(new, g, n, t, p + 1, w)
  <2>1. (\A j \in 1..(n - 1) : LiveGroup(t, w, g[j], p + 1)) <=> \A j \in 1..(n - 1) : LiveGroup(t, v, g[j], p)
    BY Zenon, <1>8
  <2>2. (\A j \in 1..n : LiveGroup(t, w, g[j], p + 1))
          <=> (\A j \in 1..(n - 1) : LiveGroup(t, w, g[j], p + 1)) /\ LiveGroup(t, w, g[n], p + 1)
    <3>1. \A j : j \in 1..n <=> j \in 1..(n - 1) \/ j = n
      BY <1>2
    <3> HIDE DEF n
    <3>2. QED
      BY Zenon, <3>1
  <2>3. /\ last.parent <=> \A j \in 1..(n - 1) : LiveGroup(t, v, g[j], p)
        /\ last.taken <=> last.parent /\ \E h \in B : v[h]
    BY Zenon, <1>14 DEF ShowsGroup
  <2>4. new.parent <=> \A j \in 1..(n - 1) : LiveGroup(t, w, g[j], p + 1)
    BY Zenon, <1>entry, <2>1, <2>3
  <2>5. new.active <=> last.parent /\ w[p] /\ ~\E h \in B : v[h]
    BY Zenon, <1>entry, <2>3
  <2>6. new.active <=> \A j \in 1..n : LiveGroup(t, w, g[j], p + 1)
    BY Zenon, <1>12, <2>1, <2>2, <2>3, <2>5
  <2>7. new.taken <=> new.parent /\ \E h \in B \cup {p} : w[h]
    BY Zenon, <1>13, <1>entry, <2>3, <2>5
  <2>8. new.taken <=> new.parent /\ \E h \in BranchesBefore(t, g[n], p + 1) : w[h]
    BY Zenon, <1>9, <2>7
  <2> HIDE DEF n, B
  <2>9. QED
    BY Zenon, <2>4, <2>6, <2>8 DEF ShowsGroup
<1>16. ASSUME NEW i \in 1..n PROVE ShowsGroup(d[base + i], g, i, t, p + 1, w)
  <2>1. CASE i = n
    BY <1>15, <1>entry, <2>1
  <2>2. CASE i \in 1..(n - 1)
    <3>1. d[base + i] = c[base + i]
      BY <1>kept, <2>2
    <3>2. (\A j \in 1..i : j \in 1..(n - 1)) /\ (\A j \in 1..(i - 1) : j \in 1..(n - 1))
      BY <1>2, <2>2
    <3>3. ShowsGroup(c[base + i], g, i, t, p, v)
      BY DEF Mirrors, Shown
    <3>4. QED
      BY Zenon, <1>8, <2>2, <3>1, <3>2, <3>3 DEF ShowsGroup
  <2>3. QED
    BY <1>5, <2>1, <2>2
<1>17. QED
  BY <1>6, <1>16, <1>verdicts DEF Mirrors, Shown

(* #endif: the innermost group is no more.                                  *)
LEMMA MirrorsClose ==
  ASSUME NEW t, NEW p \in Nat \ {0}, NEW g, NEW v, NEW c, NEW d, NEW base \in Nat,
         Mirrors(g, t, p, v, c, base), Len(g) > 0, t[p].kind = "endif",
         \A i \in 1..(Len(g) - 1) : d[base + i] = c[base + i]
  PROVE  /\ Mirrors(SubSeq(g, 1, Len(g) - 1), t, p + 1, v, d, base)
         /\ Len(SubSeq(g, 1, Len(g) - 1)) = Len(g) - 1
<1> DEFINE n == Len(g)  f == SubSeq(g, 1, Len(g) - 1)
<1>1. Around(g, t, p) /\ Judged(t, p, v)
  BY DEF Mirrors
<1>2. /\ n \in Nat \ {0} /\ g \in Seq(Nat)
      /\ \A i \in 1..n : g[i] \in 1..(p - 1)
  <2>1. n \in Nat /\ \A i \in 1..n : g[i] \in 1..(p - 1)
    BY <1>1, AroundBefore
  <2>2. QED
    BY <1>1, <2>1 DEF Around
<1>3. f \in Seq(Nat) /\ Len(f) = n - 1 /\ \A i \in 1..(n - 1) : f[i] = g[i]
  <2>1. n - 1 \in 0..n
    BY <1>2
  <2>2. QED
    BY <1>2, <2>1, Prefix
<1>4. (p + 1) - 1 = p
  OBVIOUS
<1>5. t[p].kind \notin Openers /\ t[p].kind \notin Heads /\ t[p].kind \notin {"elif", "else"}
  BY DEF Openers, Heads
<1>6. \A i \in 1..n : Depth(t, g[i], p - 1) = n + 1 - i /\ Depth(t, g[i], p) = n - i
  <2>1. ASSUME NEW i \in 1..n PROVE Depth(t, g[i], p - 1) = n + 1 - i /\ Depth(t, g[i], p) = n - i
    <3>1. Depth(t, g[i], p - 1) = n + 1 - i
      BY <1>1 DEF Around
    <3>2. g[i] \in 1..p
      BY <1>2
    <3>3. Depth(t, g[i], p) = Depth(t, g[i], p - 1) - 1
      BY <3>2, DepthNext
    <3>4. QED
      BY <1>2, <3>1, <3>3
  <2>2. QED
    BY <2>1
<1> HIDE DEF f, n
<1>7. Around(f, t, p + 1)
  <2>1. Enclosing(t, p + 1) = {o \in Enclosing(t, p) : Depth(t, o, p - 1) > 1}
    BY EnclosingNext
  <2>2. Enclosing(t, p) = {g[i] : i \in 1..n}
    BY <1>1 DEF Around, n
  <2>3. \A i \in 1..n : Depth(t, g[i], p - 1) > 1 <=> i \in 1..(n - 1)
    BY <1>2, <1>6
  <2>4. \A o : o \in Enclosing(t, p + 1) <=> \E i \in 1..(n - 1) : o = f[i]
    <3>1. \A i \in 1..(n - 1) : i \in 1..n
      BY <1>2
    <3>2. QED
      BY <1>3, <2>1, <2>2, <2>3, <3>1
  <2>5. Enclosing(t, p + 1) = {f[i] : i \in 1..(n - 1)}
    BY <2>4
  <2>6. \A i, j \in 1..(n - 1) : i < j => f[i] < f[j]
    <3>1. \A i, j \in 1..n : i < j => g[i] < g[j]
      BY <1>1 DEF Around, n
    <3>2. QED
      BY <1>2, <1>3, <3>1
  <2>7. \A i \in 1..(n - 1) : Depth(t, f[i], p) = (n - 1) + 1 - i
    <3>1. \A i \in 1..(n - 1) : i \in 1..n /\ n - i = (n - 1) + 1 - i
      BY <1>2
    <3>2. QED
      BY Zenon, <1>3, <1>6, <3>1
  <2>8. Len(f) = n - 1 /\ f \in Seq(Nat)
    BY <1>3
  <2>9. Enclosing(t, p + 1) = {f[i] : i \in 1..Len(f)}
    BY Zenon, <2>5, <2>8
  <2>10. \A i, j \in 1..Len(f) : i < j => f[i] < f[j]
    BY Zenon, <2>6, <2>8
  <2>11. \A i \in 1..Len(f) : Depth(t, f[i], (p + 1) - 1) = Len(f) + 1 - i
    BY Zenon, <1>4, <2>7, <2>8
  <2>12. QED
    BY Zenon, <2>8, <2>9, <2>10, <2>11 DEF Around
<1>8. Judged(t, p + 1, v)
  <2>1. \A h \in 1..p : h \in 1..(p - 1) \/ h = p
    OBVIOUS
  <2>2. QED
    BY <1>1, <1>4, <1>5, <2>1 DEF Judged
<1>9. ASSUME NEW i \in 1..(n - 1)
      PROVE  /\ LiveGroup(t, v, f[i], p + 1) <=> LiveGroup(t, v, g[i], p)
             /\ (\E h \in BranchesBefore(t, f[i], p + 1) : v[h]) <=> \E h \in BranchesBefore(t, g[i], p) : v[h]
  <2>1. f[i] = g[i] /\ g[i] \in 1..(p - 1)
    <3>1. i \in 1..n
      BY <1>2
    <3>2. QED
      BY Zenon, <1>2, <1>3, <3>1
  <2>2. BranchesBefore(t, g[i], p + 1) = BranchesBefore(t, g[i], p)
    BY Zenon, <1>5, <2>1, BranchesStay
  <2>3. QED
    BY <2>1, <2>2, LiveGroupNext
<1>10. ASSUME NEW i \in 1..(n - 1) PROVE ShowsGroup(d[base + i], f, i, t, p + 1, v)
  <2>1. d[base + i] = c[base + i]
    BY DEF n
  <2>2. (\A j \in 1..i : j \in 1..(n - 1)) /\ (\A j \in 1..(i - 1) : j \in 1..(n - 1)) /\ i \in 1..n
    BY <1>2
  <2>3. ShowsGroup(c[base + i], g, i, t, p, v)
    BY <2>2 DEF Mirrors, Shown, n
  <2>4. QED
    BY Zenon, <1>9, <2>1, <2>2, <2>3 DEF ShowsGroup
<1>11. QED
  BY <1>3, <1>7, <1>8, <1>10 DEF Mirrors, Shown, f, n

(* What is pushed on top of the groups of a text changes nothing of them.   *)
LEMMA MirrorsKept ==
  ASSUME NEW t, NEW p, NEW g, NEW v, NEW c, NEW d, NEW base, Mirrors(g, t, p, v, c, base),
         \A i \in 1..Len(g) : d[base + i] = c[base + i]
  PROVE  Mirrors(g, t, p, v, d, base)
  BY DEF Mirrors, Shown

(* A position is live by the text when all groups around it are.            *)
LEMMA LiveIs ==
  ASSUME NEW t, NEW p, NEW g, NEW v, Around(g, t, p)
  PROVE  Live(t, v, p) <=> \A j \in 1..Len(g) : LiveGroup(t, v, g[j], p)
<1>1. Live(t, v, p) <=> \A o \in Enclosing(t, p) : LiveGroup(t, v, o, p)
  BY Zenon DEF Live, LiveGroup
<1>2. (\A o \in {g[i] : i \in 1..Len(g)} : LiveGroup(t, v, o, p)) <=> \A j \in 1..Len(g) : LiveGroup(t, v, g[j], p)
  BY Zenon
<1>3. QED
  BY <1>1, <1>2 DEF Around
-----------------------------------------------------------------------------
(***************************************************************************)
(* The entries of cond that a buffer opened mirror the groups its text has  *)
(* around its position: those of the top buffer up to the end, those of a   *)
(* buffer below up to where the next was entered.                           *)
(***************************************************************************)
GroupsEnd(d) == IF d = Len(stack) THEN Len(cond) ELSE stack[d + 1].entry
Mirrored(d) ==
  \E g \in Seq(Nat) :
    /\ Mirrors(g, stack[d].text, stack[d].pos, history[d].verdict, cond, stack[d].entry)
    /\ stack[d].entry + Len(g) = GroupsEnd(d)
EnteredLive(d) == stack[d].entry = 0 \/ cond[stack[d].entry].active
GroupsMirrored == \A d \in 1..Len(stack) : Mirrored(d) /\ EnteredLive(d)

(* A text that is not balanced was reported, or is still being read and has *)
(* matched so far.                                                          *)
Wrong == errors \cap {"unmatched", "unterminated"} # {}
Closers == {"elif", "else", "endif"}
MatchedBefore(t, p) == \A q \in 1..(p - 1) : t[q].kind \in Closers => Enclosing(t, q) # {}
BeingRead(t) == \E d \in 1..Len(stack) : stack[d].text = t
Reported ==
  /\ Wrong => \E t \in TextsRead : ~Balanced(t)
  /\ ~Wrong /\ phase = "done" => \A t \in TextsRead : Balanced(t)
  /\ ~Wrong /\ phase # "done" =>
       /\ \A t \in TextsRead : Balanced(t) \/ BeingRead(t)
       /\ \A d \in 1..Len(stack) : MatchedBefore(stack[d].text, stack[d].pos)

NestingInv ==
  /\ \A d \in 1..Len(stack) : stack[d].text \in TextsRead
  /\ phase = "done" => AtEnd
  /\ "nesting" \notin errors => (phase # "done" => GroupsMirrored) /\ Reported

(* What is read moves the top buffer by one and leaves the others alone.    *)
LEMMA AdvanceMoves ==
  ASSUME Typed, ~AtEnd
  PROVE  /\ Advance[Len(stack)].pos = Top.pos + 1 /\ Advance[Len(stack)].text = Top.text
         /\ Advance[Len(stack)].entry = Top.entry
         /\ \A d \in 1..(Len(stack) - 1) : Advance[d] = stack[d]
         /\ Top.pos \in Nat \ {0} /\ Top.pos \in DOMAIN Top.text /\ Item = Top.text[Top.pos]
         /\ DOMAIN Top.text = 1..Len(Top.text)
<1> DEFINE top == [stack[Len(stack)] EXCEPT !.pos = @ + 1]
<1>1. /\ Len(stack) \in 1..Len(stack) /\ stack \in Seq(Buffers) /\ stack[Len(stack)] \in Buffers
      /\ Len(Top.text) \in Nat /\ Top.pos \in 1..(Len(Top.text) + 1) /\ Top = stack[Len(stack)]
  BY TopTyped DEF Typed, StackTyped
<1>2. top \in Buffers /\ top.pos = Top.pos + 1 /\ top.text = Top.text /\ top.entry = Top.entry
  <2>1. Top \in Buffers /\ top = [Top EXCEPT !.pos = @ + 1]
    BY <1>1
  <2> HIDE DEF top
  <2>2. QED
    BY <2>1, MovedOn DEF Buffers
<1>3. Advance = [stack EXCEPT ![Len(stack)] = top]
  BY DEF Advance
<1> HIDE DEF top
<1>4. \A d \in 1..Len(stack) : Advance[d] = IF d = Len(stack) THEN top ELSE stack[d]
  BY <1>1, <1>2, <1>3, ExceptSeq
<1>5. Top.text \in Seq(Items)
  BY <1>1 DEF Buffers, Bodies
<1>6. DOMAIN Top.text = 1..Len(Top.text)
  BY <1>5, LenProperties
<1>7. Top.pos \in 1..Len(Top.text)
  BY <1>1 DEF AtEnd
<1>8. QED
  BY <1>1, <1>2, <1>4, <1>6, <1>7 DEF Item

(* The verdict on the item read is added to those of the top buffer.        *)
LEMMA RecordedJudged ==
  ASSUME Typed, ~AtEnd, Verdict(Item) \in BOOLEAN, Judged(Top.text, Top.pos, history[Len(stack)].verdict)
  PROVE  /\ Judged(Top.text, Top.pos + 1, Recorded[Len(stack)].verdict)
         /\ \A h \in 1..(Top.pos - 1) : h \in DOMAIN history[Len(stack)].verdict =>
              Recorded[Len(stack)].verdict[h] = history[Len(stack)].verdict[h]
         /\ Recorded[Len(stack)].verdict[Top.pos] = Verdict(Item)
         /\ \A d \in 1..(Len(stack) - 1) : Recorded[d] = history[d]
         /\ Len(Recorded) = Len(history)
<1> DEFINE last == history[Len(history)]
           verdict == [p \in DOMAIN last.verdict \cup {Top.pos} |->
                         IF p = Top.pos THEN Verdict(Item) ELSE last.verdict[p]]
           new == [last EXCEPT !.verdict = verdict]
<1>1. Len(history) \in 1..Len(history) /\ history \in Seq(Records) /\ Len(history) = Len(stack)
      /\ Top.pos \in Nat \ {0}
  BY TopTyped, AdvanceMoves DEF Typed, HistoryTyped
<1>2. last \in Records
  BY <1>1, ElementOfSeq
<1>3. new.verdict = verdict
  <2> HIDE DEF verdict
  <2>1. QED
    BY <1>2 DEF Records
<1>4. Recorded = [history EXCEPT ![Len(history)] = new]
  BY DEF Recorded
<1>5. DOMAIN history = 1..Len(history)
  BY <1>1, LenProperties
<1>6. /\ Recorded[Len(stack)] = new /\ \A d \in 1..(Len(stack) - 1) : Recorded[d] = history[d]
      /\ Len(Recorded) = Len(history)
  <2>1. /\ DOMAIN Recorded = 1..Len(history)
        /\ \A d \in 1..Len(history) : Recorded[d] = IF d = Len(history) THEN new ELSE history[d]
    <3> HIDE DEF new, last
    <3>1. QED
      BY <1>4, <1>5
  <2>2. Len(Recorded) = Len(history)
    <3>1. Recorded \in Seq(Records)
      BY RecordedTyped
    <3>2. QED
      BY RecordedTyped
  <2> HIDE DEF new, last
  <2>3. Len(stack) = Len(history) /\ Len(stack) \in 1..Len(history)
        /\ \A d \in 1..(Len(stack) - 1) : d \in 1..Len(history) /\ d # Len(history)
    BY <1>1
  <2>4. QED
    BY Zenon, <2>1, <2>2, <2>3
<1>7. /\ DOMAIN verdict = DOMAIN last.verdict \cup {Top.pos} /\ verdict[Top.pos] = Verdict(Item)
      /\ \A h \in 1..(Top.pos - 1) : h \in DOMAIN last.verdict => verdict[h] = last.verdict[h]
  BY <1>1
<1>8. (Top.pos + 1) - 1 = Top.pos /\ \A h \in 1..Top.pos : h \in 1..(Top.pos - 1) \/ h = Top.pos
  BY <1>1
<1>9. Judged(Top.text, Top.pos + 1, verdict)
  <2>1. \A h \in 1..(Top.pos - 1) : Top.text[h].kind \in Heads => h \in DOMAIN last.verdict /\ last.verdict[h] \in BOOLEAN
    BY <1>1 DEF Judged
  <2>2. \A h \in 1..Top.pos : Top.text[h].kind \in Heads => h \in DOMAIN verdict /\ verdict[h] \in BOOLEAN
    <3> HIDE DEF verdict, last
    <3>1. QED
      BY <1>7, <1>8, <2>1
  <2> HIDE DEF verdict
  <2>3. QED
    BY <1>8, <2>2 DEF Judged
<1> HIDE DEF verdict, new
<1>10. QED
  BY <1>1, <1>3, <1>6, <1>7, <1>9

(* The groups of the top buffer.                                            *)
LEMMA TopMirrored ==
  ASSUME Typed, KeptInv, GroupsMirrored
  PROVE  \E g \in Seq(Nat) :
           /\ Mirrors(g, Top.text, Top.pos, history[Len(stack)].verdict, cond, Top.entry)
           /\ Top.entry + Len(g) = Len(cond)
           /\ Len(g) \in Nat /\ Top.entry \in Nat /\ Len(cond) \in Nat /\ cond \in Seq(Group)
           /\ ~Skipping <=> \A j \in 1..Len(g) : LiveGroup(Top.text, history[Len(stack)].verdict, g[j], Top.pos)
           /\ ~Skipping <=> ParentActive
           /\ InGroup <=> Len(g) > 0
<1>1. Len(stack) \in 1..Len(stack) /\ Top = stack[Len(stack)] /\ Top.entry \in Nat
  BY TopTyped DEF Buffers
<1>2. cond \in Seq(Group) /\ Len(cond) \in Nat
  BY LenProperties DEF Typed, CondTyped
<1>3. PICK g \in Seq(Nat) :
        /\ Mirrors(g, Top.text, Top.pos, history[Len(stack)].verdict, cond, Top.entry)
        /\ Top.entry + Len(g) = Len(cond)
  BY <1>1 DEF GroupsMirrored, Mirrored, GroupsEnd
<1>4. Len(g) \in Nat
  BY <1>3, LenProperties
<1>5. Top.entry = 0 \/ cond[Top.entry].active
  BY <1>1 DEF GroupsMirrored, EnteredLive
<1>6. InGroup <=> Len(g) > 0
  BY <1>1, <1>2, <1>3, <1>4 DEF InGroup
<1>7. cond = << >> <=> Len(cond) = 0
  BY <1>2, EmptySeq
<1>8. ~Skipping <=> ParentActive
  BY DEF Skipping, ParentActive
<1>9. ParentActive <=> \A j \in 1..Len(g) : LiveGroup(Top.text, history[Len(stack)].verdict, g[j], Top.pos)
  <2>1. CASE Len(g) = 0
    <3>1. Len(cond) = Top.entry
      BY <1>1, <1>2, <1>3, <2>1
    <3>2. ParentActive
      BY <1>1, <1>5, <1>7, <3>1 DEF ParentActive
    <3>3. 1..Len(g) = {}
      BY <2>1
    <3>4. QED
      BY <3>2, <3>3
  <2>2. CASE Len(g) > 0
    <3>1. Len(cond) = Top.entry + Len(g) /\ Len(g) \in 1..Len(g) /\ Len(cond) # 0
      BY <1>1, <1>2, <1>3, <1>4, <2>2
    <3>2. cond[Len(cond)].active
            <=> \A j \in 1..Len(g) : LiveGroup(Top.text, history[Len(stack)].verdict, g[j], Top.pos)
      <4>1. ShowsGroup(cond[Top.entry + Len(g)], g, Len(g), Top.text, Top.pos, history[Len(stack)].verdict)
        BY <1>3, <3>1 DEF Mirrors, Shown
      <4>2. QED
        BY <3>1, <4>1 DEF ShowsGroup
    <3>3. ParentActive <=> cond[Len(cond)].active
      BY <1>7, <3>1 DEF ParentActive
    <3>4. QED
      BY <3>2, <3>3
  <2>3. QED
    BY <1>4, <2>1, <2>2
<1>10. QED
  BY <1>1, <1>2, <1>3, <1>4, <1>6, <1>8, <1>9

(* The entries of the buffers below the top are below its own.              *)
LEMMA EntriesBelow ==
  ASSUME Typed, KeptInv, NEW d \in 1..Len(stack)
  PROVE  /\ stack[d].entry \in Nat /\ stack[d].entry <= Top.entry
         /\ d < Len(stack) => /\ d + 1 \in 1..Len(stack) /\ stack[d + 1].entry \in Nat
                              /\ stack[d + 1].entry <= Top.entry
<1>1. Len(stack) \in 1..Len(stack) /\ Top = stack[Len(stack)]
  BY TopTyped
<1>2. \A e \in 1..Len(stack) : stack[e].entry \in Nat /\ stack[e].entry <= Top.entry
  BY <1>1, EntriesTyped DEF KeptInv, EntriesRise
<1>3. d < Len(stack) => d + 1 \in 1..Len(stack)
  BY <1>1
<1>4. QED
  BY <1>2, <1>3

(* A buffer below the top keeps its groups while what is on top of them     *)
(* changes.                                                                 *)
LEMMA BelowMirrored ==
  ASSUME Typed, KeptInv, GroupsMirrored, NEW d \in 1..Len(stack), NEW c,
         \A i \in 1..Top.entry : c[i] = cond[i]
  PROVE  /\ d < Len(stack) =>
              \E g \in Seq(Nat) :
                /\ Mirrors(g, stack[d].text, stack[d].pos, history[d].verdict, c, stack[d].entry)
                /\ stack[d].entry + Len(g) = stack[d + 1].entry
         /\ stack[d].entry = 0 \/ c[stack[d].entry].active
<1>1. stack[d].entry \in Nat /\ stack[d].entry <= Top.entry /\ Top.entry \in Nat
  BY EntriesBelow, TopTyped DEF Buffers
<1>2. stack[d].entry = 0 \/ cond[stack[d].entry].active
  BY DEF GroupsMirrored, EnteredLive
<1>3. stack[d].entry = 0 \/ c[stack[d].entry].active
  BY <1>1, <1>2
<1>4. ASSUME d < Len(stack)
      PROVE  \E g \in Seq(Nat) :
               /\ Mirrors(g, stack[d].text, stack[d].pos, history[d].verdict, c, stack[d].entry)
               /\ stack[d].entry + Len(g) = stack[d + 1].entry
  <2>1. d # Len(stack) /\ stack[d + 1].entry \in Nat /\ stack[d + 1].entry <= Top.entry
    BY <1>4, EntriesBelow, TopTyped
  <2>2. PICK g \in Seq(Nat) :
          /\ Mirrors(g, stack[d].text, stack[d].pos, history[d].verdict, cond, stack[d].entry)
          /\ stack[d].entry + Len(g) = stack[d + 1].entry
    BY <2>1 DEF GroupsMirrored, Mirrored, GroupsEnd
  <2>3. Len(g) \in Nat
    BY <2>2, LenProperties
  <2>4. \A i \in 1..Len(g) : stack[d].entry + i \in 1..Top.entry
    BY <1>1, <2>1, <2>2, <2>3
  <2>5. \A i \in 1..Len(g) : c[stack[d].entry + i] = cond[stack[d].entry + i]
    BY <2>4
  <2>6. Mirrors(g, stack[d].text, stack[d].pos, history[d].verdict, c, stack[d].entry)
    BY <2>2, <2>5, MirrorsKept
  <2>7. QED
    BY <2>2, <2>6
<1>5. QED
  BY <1>3, <1>4

(* Reading an item that touches the groups of the top buffer alone.         *)
LEMMA MirroredByReading ==
  ASSUME Typed, KeptInv, GroupsMirrored, ~AtEnd, stack' = Advance,
         \A d \in 1..(Len(stack) - 1) : history'[d] = history[d],
         \A i \in 1..Top.entry : cond'[i] = cond[i],
         NEW g \in Seq(Nat), Top.entry + Len(g) = Len(cond'),
         Mirrors(g, Top.text, Top.pos + 1, history'[Len(stack)].verdict, cond', Top.entry)
  PROVE  GroupsMirrored'
<1>1. /\ Len(stack') = Len(stack) /\ Len(stack) \in Nat \ {0}
      /\ stack'[Len(stack)].pos = Top.pos + 1 /\ stack'[Len(stack)].text = Top.text
      /\ stack'[Len(stack)].entry = Top.entry
      /\ \A d \in 1..(Len(stack) - 1) : stack'[d] = stack[d]
      /\ \A d \in 1..Len(stack) : stack'[d].entry = stack[d].entry
      /\ stack[Len(stack)] = Top
  BY AdvanceMoves, AdvanceIs, TopTyped
<1>2. SUFFICES ASSUME NEW d \in 1..Len(stack) PROVE Mirrored(d)' /\ EnteredLive(d)'
  BY <1>1 DEF GroupsMirrored
<1>3. EnteredLive(d)'
  BY <1>1, BelowMirrored DEF EnteredLive
<1>4. CASE d = Len(stack)
  <2>1. Mirrored(d)'
    BY <1>1, <1>4 DEF Mirrored, GroupsEnd
  <2>2. QED
    BY <1>3, <2>1
<1>5. CASE d # Len(stack)
  <2>1. d < Len(stack) /\ d \in 1..(Len(stack) - 1) /\ d + 1 \in 1..Len(stack)
    BY <1>1, <1>5
  <2>2. PICK f \in Seq(Nat) :
          /\ Mirrors(f, stack[d].text, stack[d].pos, history[d].verdict, cond', stack[d].entry)
          /\ stack[d].entry + Len(f) = stack[d + 1].entry
    BY <2>1, BelowMirrored
  <2>3. GroupsEnd(d)' = stack[d + 1].entry
    BY <1>1, <1>5, <2>1 DEF GroupsEnd
  <2>4. Mirrored(d)'
    BY <1>1, <2>1, <2>2, <2>3 DEF Mirrored
  <2>5. QED
    BY <1>3, <2>4
<1>6. QED
  BY <1>4, <1>5

(* Reading an item that is no head and ends no group.                       *)
LEMMA MirroredByPassing ==
  ASSUME Typed, KeptInv, GroupsMirrored, ~AtEnd, Item.kind \notin Heads \cup {"endif"}
  PROVE  \E g \in Seq(Nat) :
           /\ Top.entry + Len(g) = Len(cond)
           /\ Mirrors(g, Top.text, Top.pos + 1, history[Len(stack)].verdict, cond, Top.entry)
<1>1. PICK g \in Seq(Nat) :
        /\ Mirrors(g, Top.text, Top.pos, history[Len(stack)].verdict, cond, Top.entry)
        /\ Top.entry + Len(g) = Len(cond)
  BY TopMirrored
<1>2. Top.pos \in Nat \ {0} /\ Item = Top.text[Top.pos]
  BY AdvanceMoves
<1>3. Mirrors(g, Top.text, Top.pos + 1, history[Len(stack)].verdict, cond, Top.entry)
  BY <1>1, <1>2, MirrorsPass
<1>4. QED
  BY <1>1, <1>3

(* A buffer that is pushed has read nothing, and is only pushed where       *)
(* nothing is skipped.                                                      *)
LEMMA MirroredByEntering ==
  ASSUME Typed, KeptInv, GroupsMirrored, ~AtEnd, Item.kind \notin Heads \cup {"endif"}, ~Skipping,
         Len(stack) < MaxDepth, NEW b, b \in Buffers, b.pos = 1,
         b.entry = Len(cond), Entered(b, Advance), cond' = cond
  PROVE  GroupsMirrored'
<1>1. /\ Len(stack') = Len(stack) + 1 /\ stack'[Len(stack) + 1] = b /\ Len(stack) \in Nat \ {0}
      /\ \A d \in 1..Len(stack) : stack'[d] = Advance[d] /\ history'[d] = history[d]
      /\ stack[Len(stack)] = Top /\ Top.entry \in Nat /\ Top \in Buffers
  BY EnteredTyped, TopTyped DEF Buffers
<1>2. /\ Advance[Len(stack)].pos = Top.pos + 1 /\ Advance[Len(stack)].text = Top.text
      /\ Advance[Len(stack)].entry = Top.entry
      /\ \A d \in 1..(Len(stack) - 1) : Advance[d] = stack[d]
      /\ \A d \in 1..Len(stack) : Advance[d].entry = stack[d].entry
  BY AdvanceMoves, AdvanceIs
<1>3. Len(cond) \in Nat /\ Top.entry <= Len(cond) /\ cond \in Seq(Group)
  BY <1>1, LenProperties DEF Typed, CondTyped, KeptInv, PrefixKept
<1>4. SUFFICES ASSUME NEW d \in 1..(Len(stack) + 1) PROVE Mirrored(d)' /\ EnteredLive(d)'
  BY <1>1 DEF GroupsMirrored
<1>5. CASE d = Len(stack) + 1
  <2>1. << >> \in Seq(Nat) /\ Len(<< >>) = 0
    BY EmptySeq
  <2>2. Mirrors(<< >>, b.text, 1, history'[d].verdict, cond, b.entry)
    BY MirrorsStart
  <2>3. GroupsEnd(d)' = Len(cond) /\ stack'[d] = b
    BY <1>1, <1>5 DEF GroupsEnd
  <2>4. Mirrored(d)'
    <3>1. Mirrors(<< >>, stack'[d].text, stack'[d].pos, history'[d].verdict, cond', stack'[d].entry)
      BY Zenon, <2>2, <2>3
    <3>2. stack'[d].entry + Len(<< >>) = GroupsEnd(d)'
      BY <1>3, <2>1, <2>3
    <3>3. QED
      BY Zenon, <2>1, <3>1, <3>2 DEF Mirrored
  <2>5. b.entry = 0 \/ cond[b.entry].active
    BY <1>3, EmptySeq DEF Skipping
  <2>6. QED
    BY <2>3, <2>4, <2>5 DEF EnteredLive
<1>6. CASE d = Len(stack)
  <2>1. PICK g \in Seq(Nat) :
          /\ Top.entry + Len(g) = Len(cond)
          /\ Mirrors(g, Top.text, Top.pos + 1, history[Len(stack)].verdict, cond, Top.entry)
    BY MirroredByPassing
  <2>2. GroupsEnd(d)' = Len(cond)
    BY <1>1, <1>6 DEF GroupsEnd
  <2>3. stack'[d].pos = Top.pos + 1 /\ stack'[d].text = Top.text /\ stack'[d].entry = Top.entry /\ history'[d] = history[d]
    BY <1>1, <1>2, <1>6
  <2>4. Mirrored(d)'
    BY <1>6, <2>1, <2>2, <2>3 DEF Mirrored
  <2>5. EnteredLive(d)'
    <3>1. d \in 1..Len(stack) /\ stack[d].entry = Top.entry
      BY <1>1, <1>6
    <3>2. stack[d].entry = 0 \/ cond[stack[d].entry].active
      BY Zenon, <3>1, BelowMirrored
    <3>3. QED
      BY Zenon, <2>3, <3>1, <3>2 DEF EnteredLive
  <2>6. QED
    BY <2>4, <2>5
<1>7. CASE d \in 1..(Len(stack) - 1)
  <2>1. d < Len(stack) /\ d \in 1..Len(stack) /\ d + 1 \in 1..Len(stack) /\ d + 1 # Len(stack) + 1
    BY <1>1, <1>7
  <2>2. stack'[d] = stack[d] /\ history'[d] = history[d] /\ stack'[d + 1].entry = stack[d + 1].entry
    BY <1>1, <1>2, <1>7, <2>1
  <2>3. PICK f \in Seq(Nat) :
          /\ Mirrors(f, stack[d].text, stack[d].pos, history[d].verdict, cond, stack[d].entry)
          /\ stack[d].entry + Len(f) = stack[d + 1].entry
    BY <2>1, BelowMirrored
  <2>4. GroupsEnd(d)' = stack[d + 1].entry
    BY <1>1, <1>7, <2>2 DEF GroupsEnd
  <2>5. Mirrored(d)'
    BY <2>2, <2>3, <2>4 DEF Mirrored
  <2>6. EnteredLive(d)'
    BY <2>1, <2>2, BelowMirrored DEF EnteredLive
  <2>7. QED
    BY <2>5, <2>6
<1>8. QED
  BY <1>1, <1>5, <1>6, <1>7

(* What a buffer leaves open is closed when it is left.                     *)
LEMMA MirroredByLeaving ==
  ASSUME Typed, KeptInv, GroupsMirrored, Leave, Len(stack) > 1
  PROVE  /\ GroupsMirrored' /\ Len(stack') = Len(stack) - 1
         /\ \A d \in 1..(Len(stack) - 1) : stack'[d] = stack[d] /\ history'[d] = history[d]
<1>1. /\ Len(stack) \in Nat \ {0} /\ Len(stack) - 1 \in 1..Len(stack) /\ Top = stack[Len(stack)]
      /\ Len(stack) - 1 \in 0..Len(stack) /\ Len(history) = Len(stack)
  BY TopTyped DEF Typed, HistoryTyped
<1>2. /\ Len(stack') = Len(stack) - 1
      /\ \A d \in 1..(Len(stack) - 1) : stack'[d] = stack[d] /\ history'[d] = history[d]
  <2>1. stack' = SubSeq(stack, 1, Len(stack) - 1) /\ history' = SubSeq(history, 1, Len(stack) - 1)
    BY <1>1 DEF Leave
  <2>2. QED
    BY <1>1, <2>1, Prefix DEF Typed, StackTyped, HistoryTyped
<1>3. Top.entry \in Nat /\ Len(cond) \in Nat /\ Top.entry <= Len(cond) /\ cond \in Seq(Group)
  BY <1>1, TopTyped, LenProperties DEF KeptInv, PrefixKept, Buffers, Typed, CondTyped
<1>4. Len(cond') = Top.entry /\ \A i \in 1..Top.entry : cond'[i] = cond[i]
  <2>1. CASE InGroup
    <3>1. cond' = SubSeq(cond, 1, Top.entry) /\ Top.entry \in 0..Len(cond)
      BY <1>3, <2>1 DEF Leave
    <3>2. QED
      BY <1>3, <3>1, Prefix
  <2>2. CASE ~InGroup
    BY <1>3, <2>2 DEF Leave, InGroup
  <2>3. QED
    BY <2>1, <2>2
<1>5. SUFFICES ASSUME NEW d \in 1..(Len(stack) - 1) PROVE Mirrored(d)' /\ EnteredLive(d)'
  BY <1>2 DEF GroupsMirrored
<1>6. d < Len(stack) /\ d \in 1..Len(stack) /\ stack'[d] = stack[d] /\ history'[d] = history[d]
  BY <1>1, <1>2
<1>7. PICK f \in Seq(Nat) :
        /\ Mirrors(f, stack[d].text, stack[d].pos, history[d].verdict, cond', stack[d].entry)
        /\ stack[d].entry + Len(f) = stack[d + 1].entry
  BY <1>4, <1>6, BelowMirrored
<1>8. EnteredLive(d)'
  BY <1>4, <1>6, BelowMirrored DEF EnteredLive
<1>9. GroupsEnd(d)' = stack[d + 1].entry
  <2>1. CASE d = Len(stack) - 1
    BY <1>1, <1>2, <1>4, <2>1 DEF GroupsEnd
  <2>2. CASE d # Len(stack) - 1
    <3>1. d + 1 \in 1..(Len(stack) - 1)
      BY <1>1, <2>2
    <3>2. QED
      BY <1>2, <2>2, <3>1 DEF GroupsEnd
  <2>3. QED
    BY <2>1, <2>2
<1>10. Mirrored(d)'
  BY <1>6, <1>7, <1>9 DEF Mirrored
<1>11. QED
  BY <1>8, <1>10

(* #if: as long as there is room.                                           *)
LEMMA MirroredByOpening ==
  ASSUME Typed, KeptInv, GroupsMirrored, OpenGroup, "nesting" \notin errors'
  PROVE  GroupsMirrored'
<1> DEFINE taken == ParentActive /\ Verdict(Item)
           new == [parent |-> ParentActive, taken |-> taken, active |-> taken]
<1>1. PICK g \in Seq(Nat) :
        /\ Mirrors(g, Top.text, Top.pos, history[Len(stack)].verdict, cond, Top.entry)
        /\ Top.entry + Len(g) = Len(cond)
        /\ Len(g) \in Nat /\ Top.entry \in Nat /\ Len(cond) \in Nat /\ cond \in Seq(Group)
        /\ ~Skipping <=> \A j \in 1..Len(g) : LiveGroup(Top.text, history[Len(stack)].verdict, g[j], Top.pos)
        /\ ~Skipping <=> ParentActive
  BY TopMirrored
<1>2. /\ ~AtEnd /\ Item.kind \in Openers /\ Verdict(Item) \in BOOLEAN /\ stack' = Advance /\ history' = Recorded
      /\ Top.pos \in Nat \ {0} /\ Item = Top.text[Top.pos]
  BY VerdictTyped, AdvanceMoves DEF OpenGroup, Reads, Openers
<1>3. cond' = Append(cond, new)
  BY DEF OpenGroup
<1>4. /\ Judged(Top.text, Top.pos + 1, history'[Len(stack)].verdict)
      /\ \A h \in 1..(Top.pos - 1) : h \in DOMAIN history[Len(stack)].verdict =>
           history'[Len(stack)].verdict[h] = history[Len(stack)].verdict[h]
      /\ history'[Len(stack)].verdict[Top.pos] = Verdict(Item)
      /\ \A d \in 1..(Len(stack) - 1) : history'[d] = history[d]
  <2>1. Judged(Top.text, Top.pos, history[Len(stack)].verdict)
    BY <1>1 DEF Mirrors
  <2>2. QED
    BY <1>2, <2>1, RecordedJudged
<1>5. new \in Group
  <2>1. ParentActive \in BOOLEAN
    <3>1. cond # << >> => Len(cond) \in 1..Len(cond) /\ cond[Len(cond)] \in Group
      BY EmptySeq, ElementOfSeq DEF Typed, CondTyped
    <3>2. QED
      BY <3>1 DEF ParentActive, Group
  <2>2. QED
    BY <1>2, <2>1 DEF Group
<1>6. /\ new.parent <=> ParentActive
      /\ new.active <=> new.parent /\ Verdict(Item)
      /\ new.taken <=> new.parent /\ Verdict(Item)
  OBVIOUS
<1> HIDE DEF new
<1>7. /\ Len(cond') = Len(cond) + 1 /\ cond'[Len(cond) + 1] = new
      /\ \A i \in 1..Len(cond) : cond'[i] = cond[i]
  BY <1>1, <1>3, <1>5, AppendProperties
<1>8. /\ \A i \in 1..Len(g) : cond'[Top.entry + i] = cond[Top.entry + i]
      /\ \A i \in 1..Top.entry : cond'[i] = cond[i]
      /\ cond'[Top.entry + Len(g) + 1] = new
  <2>1. /\ \A i \in 1..Len(g) : Top.entry + i \in 1..Len(cond)
        /\ \A i \in 1..Top.entry : i \in 1..Len(cond)
        /\ Top.entry + Len(g) + 1 = Len(cond) + 1
    <3>1. \A a, n, m \in Nat : a + n = m => /\ \A i \in 1..n : a + i \in 1..m
                                           /\ \A i \in 1..a : i \in 1..m
                                           /\ a + n + 1 = m + 1
      OBVIOUS
    <3>2. QED
      BY Zenon, <1>1, <3>1
  <2>2. QED
    BY Zenon, <1>7, <2>1
<1>9. Mirrors(Append(g, Top.pos), Top.text, Top.pos + 1, history'[Len(stack)].verdict, cond', Top.entry)
      /\ Len(Append(g, Top.pos)) = Len(g) + 1
  <2>1. new.parent <=> \A j \in 1..Len(g) : LiveGroup(Top.text, history[Len(stack)].verdict, g[j], Top.pos)
    BY <1>1, <1>6
  <2>2. /\ new.active <=> new.parent /\ history'[Len(stack)].verdict[Top.pos]
        /\ new.taken <=> new.parent /\ history'[Len(stack)].verdict[Top.pos]
    BY <1>4, <1>6
  <2> DEFINE v == history[Len(stack)].verdict
             w == history'[Len(stack)].verdict
             e == cond'[Top.entry + Len(g) + 1]
  <2>3. /\ Mirrors(g, Top.text, Top.pos, v, cond, Top.entry) /\ Judged(Top.text, Top.pos + 1, w)
        /\ \A h \in 1..(Top.pos - 1) : h \in DOMAIN v => w[h] = v[h]
        /\ \A i \in 1..Len(g) : cond'[Top.entry + i] = cond[Top.entry + i]
    BY Zenon, <1>1, <1>4, <1>8
  <2>4. /\ e.parent <=> \A j \in 1..Len(g) : LiveGroup(Top.text, v, g[j], Top.pos)
        /\ e.active <=> e.parent /\ w[Top.pos]
        /\ e.taken <=> e.parent /\ w[Top.pos]
    BY Zenon, <1>8, <2>1, <2>2
  <2>5. Top.text[Top.pos].kind \in Openers /\ Top.pos \in Nat \ {0} /\ Top.entry \in Nat
    BY Zenon, <1>1, <1>2
  <2> HIDE DEF v, w
  <2>6. Mirrors(Append(g, Top.pos), Top.text, Top.pos + 1, w, cond', Top.entry) /\ Len(Append(g, Top.pos)) = Len(g) + 1
    <3>1. Opened(g, Top.text, Top.pos, v, w, cond, cond', Top.entry)
      BY Zenon, <2>3, <2>4, <2>5 DEF Opened
    <3>2. QED
      BY Zenon, <2>3, <2>5, <3>1, MirrorsOpen
  <2>7. QED
    BY Zenon, <2>6 DEF w
<1>10. Append(g, Top.pos) \in Seq(Nat) /\ Top.entry + (Len(g) + 1) = Len(cond')
  BY <1>1, <1>2, <1>7, AppendProperties
<1>11. QED
  BY <1>2, <1>4, <1>8, <1>9, <1>10, MirroredByReading

(* #elif, #else.                                                            *)
LEMMA MirroredByBranch ==
  ASSUME Typed, KeptInv, GroupsMirrored, NextBranch
  PROVE  /\ GroupsMirrored'
         /\ InGroup <=> Enclosing(Top.text, Top.pos) # {}
<1>1. PICK g \in Seq(Nat) :
        /\ Mirrors(g, Top.text, Top.pos, history[Len(stack)].verdict, cond, Top.entry)
        /\ Top.entry + Len(g) = Len(cond)
        /\ Len(g) \in Nat /\ Top.entry \in Nat /\ Len(cond) \in Nat /\ cond \in Seq(Group)
        /\ InGroup <=> Len(g) > 0
  BY TopMirrored
<1>2. /\ ~AtEnd /\ Item.kind \in {"elif", "else"} /\ Verdict(Item) \in BOOLEAN /\ stack' = Advance /\ history' = Recorded
      /\ Top.pos \in Nat \ {0} /\ Item = Top.text[Top.pos]
  BY VerdictTyped, AdvanceMoves DEF NextBranch, Reads
<1>3. /\ Judged(Top.text, Top.pos + 1, history'[Len(stack)].verdict)
      /\ \A h \in 1..(Top.pos - 1) : h \in DOMAIN history[Len(stack)].verdict =>
           history'[Len(stack)].verdict[h] = history[Len(stack)].verdict[h]
      /\ history'[Len(stack)].verdict[Top.pos] = Verdict(Item)
      /\ \A d \in 1..(Len(stack) - 1) : history'[d] = history[d]
  <2>1. Judged(Top.text, Top.pos, history[Len(stack)].verdict)
    BY <1>1 DEF Mirrors
  <2>2. QED
    BY <1>2, <2>1, RecordedJudged
<1>4. CASE InGroup
  <2>1. Len(g) > 0 /\ Len(cond) \in 1..Len(cond) /\ cond # << >>
    BY <1>1, <1>4, EmptySeq
  <2>2. cond' = [cond EXCEPT ![Len(cond)] = Branch(Verdict(Item))]
    BY <1>4 DEF NextBranch
  <2>3. /\ Len(cond') = Len(cond) /\ \A i \in 1..(Len(cond) - 1) : cond'[i] = cond[i]
    BY <1>2, <2>1, <2>2, BranchTyped
  <2>4. cond'[Len(cond)] = Branch(Verdict(Item))
    <3>1. DOMAIN cond = 1..Len(cond)
      BY <1>1, LenProperties
    <3>2. QED
      BY <2>1, <2>2, <3>1
  <2>5. cond[Len(cond)] \in Group
    BY <1>1, <2>1, ElementOfSeq
  <2> DEFINE last == cond[Len(cond)]
             new == Branch(Verdict(Item))
  <2>6. /\ new.parent = last.parent
        /\ new.active = (last.parent /\ ~last.taken /\ Verdict(Item))
        /\ new.taken = (last.taken \/ (last.parent /\ ~last.taken /\ Verdict(Item)))
    BY <2>5 DEF Branch, Group
  <2>7. /\ new.parent <=> last.parent
        /\ new.active <=> last.parent /\ ~last.taken /\ Verdict(Item)
        /\ new.taken <=> last.taken \/ new.active
    BY <2>6
  <2> HIDE DEF last, new
  <2>8. /\ \A i \in 1..(Len(g) - 1) : cond'[Top.entry + i] = cond[Top.entry + i]
        /\ \A i \in 1..Top.entry : cond'[i] = cond[i]
        /\ cond'[Top.entry + Len(g)] = new /\ cond[Top.entry + Len(g)] = last
    <3>1. \A i \in 1..(Len(g) - 1) : Top.entry + i \in 1..(Len(cond) - 1)
      BY <1>1
    <3>2. \A i \in 1..Top.entry : i \in 1..(Len(cond) - 1)
      BY <1>1, <2>1
    <3>3. QED
      BY <1>1, <2>3, <2>4, <3>1, <3>2 DEF last, new
  <2>9. Mirrors(g, Top.text, Top.pos + 1, history'[Len(stack)].verdict, cond', Top.entry)
    <3> DEFINE v == history[Len(stack)].verdict
               w == history'[Len(stack)].verdict
    <3>1. /\ new.parent <=> last.parent
          /\ new.active <=> last.parent /\ ~last.taken /\ w[Top.pos]
          /\ new.taken <=> last.taken \/ new.active
      BY <1>3, <2>7
    <3>2. /\ Mirrors(g, Top.text, Top.pos, v, cond, Top.entry) /\ Judged(Top.text, Top.pos + 1, w)
          /\ \A h \in 1..(Top.pos - 1) : h \in DOMAIN v => w[h] = v[h]
      BY Zenon, <1>1, <1>3
    <3>3. /\ Top.text[Top.pos].kind \in {"elif", "else"} /\ Top.pos \in Nat \ {0} /\ Top.entry \in Nat /\ Len(g) > 0
          /\ \A i \in 1..(Len(g) - 1) : cond'[Top.entry + i] = cond[Top.entry + i]
          /\ last = cond[Top.entry + Len(g)] /\ new = cond'[Top.entry + Len(g)]
      BY Zenon, <1>1, <1>2, <2>1, <2>8
    <3> HIDE DEF v, w
    <3>4. Mirrors(g, Top.text, Top.pos + 1, w, cond', Top.entry)
      <4>1. Branched(g, Top.text, Top.pos, v, w, cond, cond', Top.entry, last, new)
        BY Zenon, <3>1, <3>2, <3>3 DEF Branched
      <4>2. QED
        BY Zenon, <3>2, <3>3, <4>1, MirrorsBranch
    <3>5. QED
      BY Zenon, <3>4 DEF w
  <2>10. GroupsMirrored'
    BY <1>1, <1>2, <1>3, <2>3, <2>8, <2>9, MirroredByReading
  <2>11. Enclosing(Top.text, Top.pos) # {}
    <3>1. 1 \in 1..Len(g) /\ Enclosing(Top.text, Top.pos) = {g[i] : i \in 1..Len(g)}
      BY <1>1, <2>1 DEF Mirrors, Around
    <3>2. QED
      BY <3>1
  <2>12. QED
    BY <1>4, <2>10, <2>11
<1>5. CASE ~InGroup
  <2>1. Len(g) = 0 /\ cond' = cond
    BY <1>1, <1>5 DEF NextBranch
  <2>2. Mirrors(g, Top.text, Top.pos + 1, history'[Len(stack)].verdict, cond', Top.entry)
        /\ Enclosing(Top.text, Top.pos) = {}
    BY <1>1, <1>2, <1>3, <2>1, MirrorsUnmatched
  <2>3. GroupsMirrored'
    BY <1>1, <1>2, <1>3, <2>1, <2>2, MirroredByReading
  <2>4. QED
    BY <1>5, <2>2, <2>3
<1>6. QED
  BY <1>4, <1>5

(* #endif.                                                                  *)
LEMMA MirroredByClosing ==
  ASSUME Typed, KeptInv, GroupsMirrored, CloseGroup
  PROVE  /\ GroupsMirrored'
         /\ InGroup <=> Enclosing(Top.text, Top.pos) # {}
<1>1. PICK g \in Seq(Nat) :
        /\ Mirrors(g, Top.text, Top.pos, history[Len(stack)].verdict, cond, Top.entry)
        /\ Top.entry + Len(g) = Len(cond)
        /\ Len(g) \in Nat /\ Top.entry \in Nat /\ Len(cond) \in Nat /\ cond \in Seq(Group)
        /\ InGroup <=> Len(g) > 0
  BY TopMirrored
<1>2. /\ ~AtEnd /\ Item.kind = "endif" /\ stack' = Advance /\ history' = history
      /\ Top.pos \in Nat \ {0} /\ Item = Top.text[Top.pos]
  BY AdvanceMoves DEF CloseGroup, Reads
<1>3. CASE InGroup
  <2>1. Len(g) > 0 /\ Len(cond) - 1 \in 0..Len(cond)
    BY <1>1, <1>3
  <2>2. cond' = SubSeq(cond, 1, Len(cond) - 1)
    BY <1>3 DEF CloseGroup
  <2>3. Len(cond') = Len(cond) - 1 /\ \A i \in 1..(Len(cond) - 1) : cond'[i] = cond[i]
    BY <1>1, <2>1, <2>2, Prefix
  <2>4. /\ \A i \in 1..(Len(g) - 1) : cond'[Top.entry + i] = cond[Top.entry + i]
        /\ \A i \in 1..Top.entry : cond'[i] = cond[i]
    <3>1. \A i \in 1..(Len(g) - 1) : Top.entry + i \in 1..(Len(cond) - 1)
      BY <1>1
    <3>2. \A i \in 1..Top.entry : i \in 1..(Len(cond) - 1)
      BY <1>1, <2>1
    <3>3. QED
      BY <2>3, <3>1, <3>2
  <2> DEFINE f == SubSeq(g, 1, Len(g) - 1)
  <2>5. Mirrors(f, Top.text, Top.pos + 1, history'[Len(stack)].verdict, cond', Top.entry) /\ Len(f) = Len(g) - 1
    <3>1. Top.text[Top.pos].kind = "endif" /\ history'[Len(stack)] = history[Len(stack)]
      BY <1>2
    <3>2. QED
      BY ZenonT(40), <1>1, <1>2, <2>1, <2>4, <3>1, MirrorsClose
  <2>6. f \in Seq(Nat) /\ Top.entry + (Len(g) - 1) = Len(cond')
    <3>1. Len(g) - 1 \in 0..Len(g)
      BY <1>1, <2>1
    <3>2. QED
      BY <1>1, <2>3, <3>1, Prefix
  <2> HIDE DEF f
  <2>7. GroupsMirrored'
    BY <1>2, <2>4, <2>5, <2>6, MirroredByReading
  <2>8. Enclosing(Top.text, Top.pos) # {}
    <3>1. 1 \in 1..Len(g) /\ Enclosing(Top.text, Top.pos) = {g[i] : i \in 1..Len(g)}
      BY <1>1, <2>1 DEF Mirrors, Around
    <3>2. QED
      BY <3>1
  <2>9. QED
    BY <1>3, <2>7, <2>8
<1>4. CASE ~InGroup
  <2>1. Len(g) = 0 /\ cond' = cond
    BY <1>1, <1>4 DEF CloseGroup
  <2>2. Judged(Top.text, Top.pos + 1, history[Len(stack)].verdict)
    <3>1. Item.kind \notin Heads /\ (Top.pos + 1) - 1 = Top.pos
          /\ \A h \in 1..Top.pos : h \in 1..(Top.pos - 1) \/ h = Top.pos
      BY <1>2 DEF Heads
    <3>2. QED
      BY <1>1, <1>2, <3>1 DEF Mirrors, Judged
  <2>3. Mirrors(g, Top.text, Top.pos + 1, history'[Len(stack)].verdict, cond', Top.entry)
        /\ Enclosing(Top.text, Top.pos) = {}
    BY <1>1, <1>2, <2>1, <2>2, MirrorsUnmatched
  <2>4. GroupsMirrored'
    BY <1>1, <1>2, <2>1, <2>3, MirroredByReading
  <2>5. QED
    BY <1>4, <2>3, <2>4
<1>5. QED
  BY <1>3, <1>4

(* What is reported is wrong with the text,                                 *)
LEMMA UnmatchedIsUnbalanced ==
  ASSUME Typed, ~AtEnd, Item.kind \in Closers, Enclosing(Top.text, Top.pos) = {}
  PROVE  ~Balanced(Top.text)
<1>1. Top.pos \in DOMAIN Top.text /\ Top.text[Top.pos].kind \in {"elif", "else", "endif"}
  BY AdvanceMoves DEF Closers
<1>2. QED
  BY <1>1 DEF Balanced

(* and a text that was read to its end is balanced if nothing was reported. *)
LEMMA BalancedAtEnd ==
  ASSUME Typed, KeptInv, GroupsMirrored, AtEnd, MatchedBefore(Top.text, Top.pos) \/ InGroup
  PROVE  Balanced(Top.text) <=> ~InGroup
<1>1. PICK g \in Seq(Nat) :
        /\ Mirrors(g, Top.text, Top.pos, history[Len(stack)].verdict, cond, Top.entry)
        /\ Len(g) \in Nat /\ InGroup <=> Len(g) > 0
  BY TopMirrored
<1>2. Top \in Buffers /\ Len(Top.text) \in Nat /\ Top.pos = Len(Top.text) + 1
  BY TopTyped DEF AtEnd
<1>3. DOMAIN Top.text = 1..Len(Top.text)
  <2>1. Top.text \in Seq(Items)
    BY <1>2 DEF Buffers, Bodies
  <2>2. QED
    BY <2>1, LenProperties
<1>4. Enclosing(Top.text, Len(Top.text) + 1) = {g[i] : i \in 1..Len(g)}
  BY <1>1, <1>2 DEF Mirrors, Around
<1>5. CASE InGroup
  <2>1. g[1] \in Enclosing(Top.text, Len(Top.text) + 1)
    BY <1>1, <1>4, <1>5
  <2>2. QED
    BY <1>5, <2>1 DEF Balanced
<1>6. CASE ~InGroup
  <2>1. Enclosing(Top.text, Len(Top.text) + 1) = {}
    BY <1>1, <1>4, <1>6
  <2>2. \A q \in DOMAIN Top.text : q \in 1..(Top.pos - 1)
    BY <1>2, <1>3
  <2>3. \A q \in DOMAIN Top.text : Top.text[q].kind \in {"elif", "else", "endif"} => Enclosing(Top.text, q) # {}
    BY <1>6, <2>2 DEF MatchedBefore, Closers
  <2>4. QED
    BY <1>6, <2>1, <2>3 DEF Balanced
<1>7. QED
  BY <1>5, <1>6

(* Reading an item that is matched, if it needs to be.                      *)
LEMMA ReportedByReading ==
  ASSUME Typed, Reported, ~AtEnd, phase = "reading", phase' = "reading", stack' = Advance,
         TextsRead' = TextsRead, Wrong' <=> Wrong,
         Item.kind \in Closers => Enclosing(Top.text, Top.pos) # {}
  PROVE  Reported'
<1>1. /\ Len(stack') = Len(stack) /\ Len(stack) \in Nat \ {0}
      /\ stack'[Len(stack)].pos = Top.pos + 1 /\ stack'[Len(stack)].text = Top.text
      /\ \A d \in 1..(Len(stack) - 1) : stack'[d] = stack[d]
      /\ \A d \in 1..Len(stack) : stack'[d].text = stack[d].text
      /\ stack[Len(stack)] = Top /\ Top.pos \in Nat \ {0} /\ Item = Top.text[Top.pos]
  BY AdvanceMoves, AdvanceIs, TopTyped
<1>2. Wrong' => (\E t \in TextsRead : ~Balanced(t))'
  BY DEF Reported
<1>3. ASSUME ~Wrong
      PROVE  /\ (\A t \in TextsRead : Balanced(t) \/ BeingRead(t))'
             /\ \A d \in 1..Len(stack) : MatchedBefore(stack'[d].text, stack'[d].pos)
  <2>1. /\ \A t \in TextsRead : Balanced(t) \/ BeingRead(t)
        /\ \A d \in 1..Len(stack) : MatchedBefore(stack[d].text, stack[d].pos)
    BY <1>3 DEF Reported
  <2>2. \A t : BeingRead(t) => \E d \in 1..Len(stack') : stack'[d].text = t
    BY <1>1 DEF BeingRead
  <2>3. (\A t \in TextsRead : Balanced(t) \/ BeingRead(t))'
    BY <2>1, <2>2 DEF BeingRead
  <2>4. MatchedBefore(Top.text, Top.pos + 1)
    <3>1. (Top.pos + 1) - 1 = Top.pos /\ \A q \in 1..Top.pos : q \in 1..(Top.pos - 1) \/ q = Top.pos
      BY <1>1
    <3>2. MatchedBefore(Top.text, Top.pos)
      BY <1>1, <2>1
    <3>3. QED
      BY <1>1, <3>1, <3>2 DEF MatchedBefore
  <2>5. ASSUME NEW d \in 1..Len(stack) PROVE MatchedBefore(stack'[d].text, stack'[d].pos)
    <3>1. CASE d = Len(stack)
      BY <1>1, <2>4, <3>1
    <3>2. CASE d \in 1..(Len(stack) - 1)
      BY <1>1, <2>1, <3>2
    <3>3. QED
      BY <1>1, <3>1, <3>2
  <2>6. QED
    BY <2>3, <2>5
<1>4. QED
  BY <1>1, <1>2, <1>3 DEF Reported

(* A text that is pushed is being read.                                     *)
LEMMA ReportedByEntering ==
  ASSUME Typed, Reported, ~AtEnd, phase = "reading", phase' = "reading", Item.kind \notin Closers,
         Len(stack) < MaxDepth, NEW b, b \in Buffers, b.pos = 1, Entered(b, Advance),
         TextsRead' = TextsRead \cup {b.text}, Wrong' <=> Wrong
  PROVE  Reported'
<1>1. /\ Len(stack') = Len(stack) + 1 /\ stack'[Len(stack) + 1] = b /\ Len(stack) \in Nat \ {0}
      /\ \A d \in 1..Len(stack) : stack'[d] = Advance[d] /\ Advance[d].text = stack[d].text
      /\ stack[Len(stack)] = Top
      /\ Advance[Len(stack)].pos = Top.pos + 1 /\ Advance[Len(stack)].text = Top.text
      /\ \A d \in 1..(Len(stack) - 1) : Advance[d] = stack[d]
      /\ Top.pos \in Nat \ {0} /\ Item = Top.text[Top.pos]
  BY EnteredTyped, TopTyped, AdvanceIs, AdvanceMoves
<1>2. Wrong' => (\E t \in TextsRead : ~Balanced(t))'
  BY DEF Reported
<1>3. ASSUME ~Wrong
      PROVE  /\ (\A t \in TextsRead : Balanced(t) \/ BeingRead(t))'
             /\ \A d \in 1..(Len(stack) + 1) : MatchedBefore(stack'[d].text, stack'[d].pos)
  <2>1. /\ \A t \in TextsRead : Balanced(t) \/ BeingRead(t)
        /\ \A d \in 1..Len(stack) : MatchedBefore(stack[d].text, stack[d].pos)
    BY <1>3 DEF Reported
  <2>2. \A t : BeingRead(t) \/ t = b.text => \E d \in 1..Len(stack') : stack'[d].text = t
    BY <1>1 DEF BeingRead
  <2>3. (\A t \in TextsRead : Balanced(t) \/ BeingRead(t))'
    BY <2>1, <2>2 DEF BeingRead
  <2>4. MatchedBefore(Top.text, Top.pos + 1)
    <3>1. (Top.pos + 1) - 1 = Top.pos /\ \A q \in 1..Top.pos : q \in 1..(Top.pos - 1) \/ q = Top.pos
      BY <1>1
    <3>2. MatchedBefore(Top.text, Top.pos)
      BY <1>1, <2>1
    <3>3. QED
      BY <1>1, <3>1, <3>2 DEF MatchedBefore
  <2>5. ASSUME NEW d \in 1..(Len(stack) + 1) PROVE MatchedBefore(stack'[d].text, stack'[d].pos)
    <3>1. CASE d = Len(stack)
      BY <1>1, <2>4, <3>1
    <3>2. CASE d \in 1..(Len(stack) - 1)
      <4>1. stack'[d] = stack[d] /\ d \in 1..Len(stack)
        BY <1>1, <3>2
      <4>2. QED
        BY <2>1, <4>1
    <3>3. CASE d = Len(stack) + 1
      BY <1>1, <3>3 DEF MatchedBefore
    <3>4. QED
      BY <1>1, <3>1, <3>2, <3>3
  <2>6. QED
    BY <2>3, <2>5
<1>4. QED
  BY <1>1, <1>2, <1>3 DEF Reported

(* At the end of a text it is known whether it is balanced.                 *)
LEMMA ReportedByLeaving ==
  ASSUME Typed, KeptInv, NestingInv, "nesting" \notin errors, Leave
  PROVE  Reported'
<1>1. /\ Len(stack) \in Nat \ {0} /\ Top = stack[Len(stack)] /\ phase = "reading" /\ AtEnd
      /\ GroupsMirrored /\ Reported /\ TextsRead' = TextsRead /\ Top.text \in TextsRead
  <2>1. Len(stack) \in Nat \ {0} /\ Len(stack) \in 1..Len(stack) /\ Top = stack[Len(stack)]
    BY TopTyped
  <2>2. QED
    BY <2>1 DEF Leave, NestingInv, TextsRead
<1>2. CASE InGroup
  <2>1. Wrong'
    BY <1>2 DEF Leave, Wrong
  <2>2. ~Balanced(Top.text)
    BY <1>1, <1>2, BalancedAtEnd
  <2>3. QED
    BY <1>1, <2>1, <2>2 DEF Reported
<1>3. CASE ~InGroup
  <2>1. Wrong' <=> Wrong
    BY <1>3 DEF Leave, Wrong
  <2>2. CASE Wrong
    BY <1>1, <2>1, <2>2 DEF Reported
  <2>3. CASE ~Wrong
    <3>1. /\ \A t \in TextsRead : Balanced(t) \/ BeingRead(t)
          /\ \A d \in 1..Len(stack) : MatchedBefore(stack[d].text, stack[d].pos)
      BY <1>1, <2>3 DEF Reported
    <3>2. MatchedBefore(Top.text, Top.pos)
      BY <1>1, <3>1
    <3>3. Balanced(Top.text)
      BY <1>1, <1>3, <3>2, BalancedAtEnd
    <3>4. CASE Len(stack) > 1
      <4>1. /\ Len(stack') = Len(stack) - 1 /\ phase' = "reading"
            /\ \A d \in 1..(Len(stack) - 1) : stack'[d] = stack[d]
        BY <1>1, <3>4, MirroredByLeaving DEF Leave
      <4>2. ASSUME NEW t \in TextsRead PROVE Balanced(t) \/ \E d \in 1..Len(stack') : stack'[d].text = t
        <5>1. CASE BeingRead(t)
          <6>1. PICK d \in 1..Len(stack) : stack[d].text = t
            BY <5>1 DEF BeingRead
          <6>2. CASE d = Len(stack)
            BY <1>1, <3>3, <6>1, <6>2
          <6>3. CASE d # Len(stack)
            <7>1. d \in 1..Len(stack')
              BY <1>1, <4>1, <6>3
            <7>2. QED
              BY <4>1, <6>1, <7>1
          <6>4. QED
            BY <6>2, <6>3
        <5>2. QED
          BY <3>1, <5>1
      <4>3. \A d \in 1..Len(stack') : MatchedBefore(stack'[d].text, stack'[d].pos)
        <5>1. \A d \in 1..Len(stack') : d \in 1..Len(stack) /\ stack'[d] = stack[d]
          BY <1>1, <4>1
        <5>2. QED
          BY <3>1, <5>1
      <4>4. (\A t \in TextsRead : Balanced(t) \/ BeingRead(t))'
        BY <1>1, <4>2 DEF BeingRead
      <4>5. QED
        BY <2>1, <2>3, <4>1, <4>3, <4>4 DEF Reported
    <3>5. CASE ~(Len(stack) > 1)
      <4>1. phase' = "done" /\ Len(stack) = 1
        <5>1. phase' = "done"
          BY <3>5 DEF Leave
        <5>2. \A n \in Nat \ {0} : ~(n > 1) => n = 1
          OBVIOUS
        <5>3. QED
          BY Zenon, <1>1, <3>5, <5>1, <5>2
      <4>2. \A t : BeingRead(t) => t = Top.text
        BY <1>1, <4>1 DEF BeingRead
      <4>3. \A t \in TextsRead : Balanced(t)
        BY <3>1, <3>3, <4>2
      <4>4. QED
        BY <1>1, <2>1, <2>3, <4>1, <4>3 DEF Reported
    <3>6. QED
      BY <3>4, <3>5
  <2>4. QED
    BY <2>2, <2>3
<1>4. QED
  BY <1>2, <1>3

(* Whether lexer_next skips is what the text says of the position, and what *)
(* is not well nested is reported and nothing else (lexer.c:1247-1250 with  *)
(* 1270-1382, 1818, 1864-1876), as long as the groups fit into the stack.   *)
THEOREM DeadTextIsSkipped == Spec => []SkipsExactlyDeadText
<1>1. ASSUME Init PROVE NestingInv
  <2>1. /\ Len(stack) = 1 /\ stack[1].text = text[Canonical[Main]] /\ stack[1].pos = 1 /\ stack[1].entry = 0
        /\ cond = << >> /\ errors = {} /\ phase = "undefine" /\ TextsRead = {text[Canonical[Main]]}
    BY <1>1 DEF Init, TextsRead
  <2>2. << >> \in Seq(Nat) /\ Len(<< >>) = 0
    BY EmptySeq
  <2>3. Mirrors(<< >>, stack[1].text, 1, history[1].verdict, cond, 0)
    BY MirrorsStart
  <2>4. GroupsEnd(1) = 0
    BY <2>1, <2>2 DEF GroupsEnd
  <2>5. Mirrored(1) /\ EnteredLive(1)
    <3>1. Mirrors(<< >>, stack[1].text, stack[1].pos, history[1].verdict, cond, stack[1].entry)
      BY Zenon, <2>1, <2>3
    <3>2. stack[1].entry + Len(<< >>) = GroupsEnd(1)
      BY <2>1, <2>2, <2>4
    <3>3. Mirrored(1)
      BY Zenon, <2>2, <3>1, <3>2 DEF Mirrored
    <3>4. QED
      BY Zenon, <2>1, <3>3 DEF EnteredLive
  <2>6. GroupsMirrored
    BY <2>1, <2>5 DEF GroupsMirrored
  <2>7. BeingRead(text[Canonical[Main]]) /\ MatchedBefore(stack[1].text, stack[1].pos)
    BY <2>1 DEF BeingRead, MatchedBefore
  <2>8. Reported
    BY <2>1, <2>7 DEF Reported, Wrong
  <2>9. QED
    BY <2>1, <2>6, <2>8 DEF NestingInv
<1>2. ASSUME Typed, KeptInv, NestingInv, [Next]_vars PROVE NestingInv'
  <2> USE <1>2
  <2>1. CASE UNCHANGED vars
    BY <2>1 DEF vars, NestingInv, GroupsMirrored, Mirrored, GroupsEnd, EnteredLive, Reported, Wrong,
                BeingRead, TextsRead, AtEnd, Top
  <2> SUFFICES ASSUME Next PROVE NestingInv'
    BY <2>1
  <2>2. "nesting" \notin errors' => "nesting" \notin errors /\ Reported
    BY DEF NestingInv, Next, UndefineOption, DefineOption, OptionsApplied, OpenGroup, NextBranch,
         CloseGroup, Skip, Define, Undefine, ErrorDirective, PragmaOnce, IncludeNotFound, IncludeAgain,
         IncludeTooDeep, IncludeFails, Include, Emit, ExpandTooDeep, Expand, Leave
  <2>3. Len(stack) \in Nat \ {0} /\ Len(stack) \in 1..Len(stack) /\ Top = stack[Len(stack)]
    BY TopTyped
  <2>4. \A d \in 1..Len(stack) : stack[d].text \in TextsRead
    BY DEF NestingInv
  <2>5. CASE UndefineOption \/ DefineOption \/ OptionsApplied \/ IncludeTooDeep \/ ExpandTooDeep
    <3>1. /\ UNCHANGED <<text, stack, cond, history, read, expanded>>
          /\ phase # "done" /\ phase' # "done"
          /\ errors' = errors \/ errors' = errors \cup {"depth"}
      BY <2>5 DEF UndefineOption, DefineOption, OptionsApplied, IncludeTooDeep, ExpandTooDeep, Opens, Acts, Reads
    <3>2. Wrong' <=> Wrong
      BY <3>1 DEF Wrong
    <3>3. TextsRead' = TextsRead
      BY <3>1 DEF TextsRead
    <3>4. "nesting" \notin errors' => GroupsMirrored' /\ Reported'
      <4> SUFFICES ASSUME "nesting" \notin errors' PROVE GroupsMirrored' /\ Reported'
        OBVIOUS
      <4>1. GroupsMirrored /\ Reported
        BY <2>2, <3>1 DEF NestingInv
      <4>2. GroupsMirrored'
        BY <3>1, <4>1 DEF GroupsMirrored, Mirrored, GroupsEnd, EnteredLive
      <4>3. Reported'
        BY <3>1, <3>2, <3>3, <4>1 DEF Reported, BeingRead
      <4>4. QED
        BY <4>2, <4>3
    <3>5. QED
      BY <2>4, <3>1, <3>3, <3>4 DEF NestingInv
  <2>6. ASSUME ~AtEnd, phase = "reading", stack' = Advance, UNCHANGED <<text, read, expanded, phase>>,
               "nesting" \notin errors' => GroupsMirrored' /\ Reported'
        PROVE  NestingInv'
    <3>1. TextsRead' = TextsRead
      BY <2>6 DEF TextsRead
    <3>2. \A d \in 1..Len(stack') : stack'[d].text \in TextsRead
      BY <2>4, <2>6, AdvanceIs
    <3>3. QED
      BY <2>6, <3>1, <3>2 DEF NestingInv
  <2>7. CASE OpenGroup
    <3>1. /\ ~AtEnd /\ phase = "reading" /\ stack' = Advance /\ UNCHANGED <<text, read, expanded, phase>>
          /\ Item.kind \in {"if", "ifdef", "ifndef"}
          /\ errors' = errors \/ errors' = errors \cup {"nesting"}
      BY <2>7 DEF OpenGroup, Reads
    <3>2. TextsRead' = TextsRead /\ (Wrong' <=> Wrong) /\ Item.kind \notin Closers
      BY <3>1 DEF TextsRead, Wrong, Closers
    <3>3. ASSUME "nesting" \notin errors' PROVE GroupsMirrored' /\ Reported'
      <4>1. GroupsMirrored /\ Reported
        BY <2>2, <3>1, <3>3 DEF NestingInv
      <4>2. GroupsMirrored'
        BY <2>7, <3>3, <4>1, MirroredByOpening
      <4>3. Reported'
        BY <3>1, <3>2, <4>1, ReportedByReading
      <4>4. QED
        BY <4>2, <4>3
    <3>4. QED
      BY <2>6, <3>1, <3>3
  <2>8. CASE NextBranch \/ CloseGroup
    <3>1. /\ ~AtEnd /\ phase = "reading" /\ stack' = Advance /\ UNCHANGED <<text, read, expanded, phase>>
          /\ Item.kind \in Closers
          /\ InGroup => errors' = errors
          /\ ~InGroup => errors' = errors \cup {"unmatched"}
      BY <2>8 DEF NextBranch, CloseGroup, Reads, Closers
    <3>2. TextsRead' = TextsRead
      BY <3>1 DEF TextsRead
    <3>3. ASSUME "nesting" \notin errors' PROVE GroupsMirrored' /\ Reported'
      <4>1. GroupsMirrored /\ Reported
        BY <2>2, <3>1, <3>3 DEF NestingInv
      <4>2. GroupsMirrored' /\ (InGroup <=> Enclosing(Top.text, Top.pos) # {})
        BY <2>8, <4>1, MirroredByBranch, MirroredByClosing
      <4>3. CASE InGroup
        <5>1. Wrong' <=> Wrong
          BY <3>1, <4>3 DEF Wrong
        <5>2. Reported'
          BY <3>1, <3>2, <4>1, <4>2, <4>3, <5>1, ReportedByReading
        <5>3. QED
          BY <4>2, <5>2
      <4>4. CASE ~InGroup
        <5>1. Wrong'
          BY <3>1, <4>4 DEF Wrong
        <5>2. ~Balanced(Top.text) /\ Top.text \in TextsRead
          BY <2>3, <2>4, <3>1, <4>2, <4>4, UnmatchedIsUnbalanced
        <5>3. Reported'
          BY <3>2, <5>1, <5>2 DEF Reported
        <5>4. QED
          BY <4>2, <5>3
      <4>5. QED
        BY <4>3, <4>4
    <3>4. QED
      BY <2>6, <3>1, <3>3
  <2>9. CASE \/ Skip \/ Define \/ Undefine \/ ErrorDirective \/ PragmaOnce \/ IncludeNotFound
             \/ IncludeAgain \/ IncludeFails \/ Emit
    <3>1. /\ ~AtEnd /\ phase = "reading" /\ stack' = Advance
          /\ UNCHANGED <<text, read, expanded, phase, cond, history>>
          /\ Item.kind \in OutsideGroups
          /\ errors \subseteq errors' /\ errors' \subseteq errors \cup {"#error", "no such header", "unreadable", "too many files"}
      BY <2>9 DEF Skip, Define, Undefine, ErrorDirective, PragmaOnce, IncludeNotFound, IncludeAgain,
                  IncludeFails, Emit, Opens, Acts, Reads, OutsideGroups
    <3>2. TextsRead' = TextsRead /\ (Wrong' <=> Wrong)
      BY <3>1 DEF TextsRead, Wrong
    <3>3. Item.kind \notin Closers /\ Item.kind \notin Heads \cup {"endif"}
      BY <3>1 DEF OutsideGroups, Closers, Heads
    <3>4. ASSUME "nesting" \notin errors' PROVE GroupsMirrored' /\ Reported'
      <4>1. GroupsMirrored /\ Reported
        BY <2>2, <3>1, <3>4 DEF NestingInv
      <4>2. PICK g \in Seq(Nat) :
              /\ Top.entry + Len(g) = Len(cond)
              /\ Mirrors(g, Top.text, Top.pos + 1, history[Len(stack)].verdict, cond, Top.entry)
        BY <3>1, <3>3, <4>1, MirroredByPassing
      <4>3. GroupsMirrored'
        BY <3>1, <4>1, <4>2, MirroredByReading
      <4>4. Reported'
        BY <3>1, <3>2, <3>3, <4>1, ReportedByReading
      <4>5. QED
        BY <4>3, <4>4
    <3>5. QED
      BY <2>6, <3>1, <3>4
  <2>10. ASSUME ~AtEnd, phase = "reading", Item.kind \in OutsideGroups, ~Skipping, Len(stack) < MaxDepth,
                NEW b, b \in Buffers, b.pos = 1, b.entry = Len(cond), Entered(b, Advance),
                TextsRead' = TextsRead \cup {b.text}, UNCHANGED <<cond, phase, errors>>
         PROVE  NestingInv'
    <3>1. Item.kind \notin Closers /\ Item.kind \notin Heads \cup {"endif"}
      BY <2>10 DEF OutsideGroups, Closers, Heads
    <3>2. /\ Len(stack') = Len(stack) + 1 /\ stack'[Len(stack) + 1] = b
          /\ \A d \in 1..Len(stack) : stack'[d].text = stack[d].text
      BY <2>10, EnteredTyped, AdvanceIs
    <3>3. \A d \in 1..Len(stack') : stack'[d].text \in TextsRead'
      BY <2>3, <2>4, <2>10, <3>2
    <3>4. ASSUME "nesting" \notin errors' PROVE GroupsMirrored' /\ Reported'
      <4>1. GroupsMirrored /\ Reported
        BY <2>2, <2>10, <3>4 DEF NestingInv
      <4>2. GroupsMirrored'
        BY <2>10, <3>1, <4>1, MirroredByEntering
      <4>3. Wrong' <=> Wrong
        BY <2>10 DEF Wrong
      <4>4. Reported'
        BY <2>10, <3>1, <4>1, <4>3, ReportedByEntering
      <4>5. QED
        BY <4>2, <4>4
    <3>5. QED
      BY <2>10, <3>3, <3>4 DEF NestingInv
  <2>11. CASE Include
    <3> DEFINE f == Resolved(Item)
               b == Buffer(f, NoMacro, text[f])
    <3>1. /\ ~AtEnd /\ f \in Files /\ Len(stack) < MaxDepth /\ phase = "reading" /\ ~Skipping
          /\ Item.kind \in OutsideGroups
      BY <2>11, ResolvedTyped, TopTyped, LimitsAssumption DEF Include, Opens, Acts, Reads, TooDeep, OutsideGroups
    <3>2. /\ b \in Buffers /\ b.pos = 1 /\ b.entry = Len(cond) /\ b.text = text[f] /\ Entered(b, Advance)
      BY <2>11, <3>1, LenProperties DEF Include, Buffer, Buffers, NoMacro, Paths, Typed, CondTyped
    <3>3. UNCHANGED <<cond, phase, errors, text, expanded>> /\ read' = read \cup {f}
      BY <2>11 DEF Include
    <3> HIDE DEF f, b
    <3>4. TextsRead' = TextsRead \cup {b.text}
      BY <3>2, <3>3 DEF TextsRead
    <3>5. QED
      BY <2>10, <3>1, <3>2, <3>3, <3>4
  <2>12. CASE Expand
    <3> DEFINE b == Buffer(Top.file, Item.name, Definition(defs, Item.name))
    <3>1. /\ ~AtEnd /\ Len(stack) < MaxDepth /\ phase = "reading" /\ ~Skipping /\ Item.kind \in OutsideGroups
      BY <2>12, TopTyped, LimitsAssumption DEF Expand, Acts, Reads, TooDeep, OutsideGroups
    <3>2. /\ b \in Buffers /\ b.pos = 1 /\ b.entry = Len(cond) /\ b.text = Definition(defs, Item.name)
          /\ Entered(b, Advance)
      BY <2>12, ExpansionTyped DEF Expand, Buffer
    <3>3. UNCHANGED <<cond, phase, errors, text, read>> /\ expanded' = expanded \cup {Definition(defs, Item.name)}
      BY <2>12 DEF Expand
    <3> HIDE DEF b
    <3>4. TextsRead' = TextsRead \cup {b.text}
      BY <3>2, <3>3 DEF TextsRead
    <3>5. QED
      BY <2>10, <3>1, <3>2, <3>3, <3>4
  <2>13. CASE Leave
    <3>1. TextsRead' = TextsRead /\ AtEnd /\ phase = "reading" /\ errors \subseteq errors'
      BY <2>13 DEF Leave, TextsRead
    <3>2. "nesting" \notin errors' => Reported'
      BY <2>13, <2>2, ReportedByLeaving
    <3>3. CASE Len(stack) > 1
      <4>1. phase' = "reading"
        BY <2>13, <3>1, <3>3 DEF Leave
      <4>2. /\ Len(stack') \in 1..Len(stack) /\ \A d \in 1..Len(stack') : stack'[d] = stack[d]
        <5>1. Len(stack) - 1 \in 0..Len(stack) /\ stack' = SubSeq(stack, 1, Len(stack) - 1)
          BY <2>3, <2>13, <3>3 DEF Leave
        <5>2. QED
          BY <2>3, <3>3, <5>1, Prefix DEF Typed, StackTyped
      <4>3. "nesting" \notin errors' => GroupsMirrored'
        <5>1. "nesting" \notin errors' => GroupsMirrored
          BY <2>2, <3>1 DEF NestingInv
        <5>2. QED
          BY <2>13, <3>3, <5>1, MirroredByLeaving
      <4>4. \A d \in 1..Len(stack') : stack'[d].text \in TextsRead'
        BY <2>4, <3>1, <4>2
      <4>5. QED
        BY <3>2, <4>1, <4>3, <4>4 DEF NestingInv
    <3>4. CASE ~(Len(stack) > 1)
      <4>1. phase' = "done" /\ stack' = stack
        BY <2>13, <3>4 DEF Leave
      <4>2. AtEnd'
        BY <3>1, <4>1 DEF AtEnd, Top
      <4>3. QED
        BY <2>4, <3>1, <3>2, <4>1, <4>2 DEF NestingInv
    <3>5. QED
      BY <3>3, <3>4
  <2>14. QED
    BY <2>5, <2>7, <2>8, <2>9, <2>11, <2>12, <2>13 DEF Next
<1>3. ASSUME Typed, KeptInv, NestingInv PROVE SkipsExactlyDeadText
  <2> SUFFICES ASSUME "nesting" \notin errors
               PROVE  /\ ~AtEnd => (Skipping <=> ~LiveHere)
                      /\ phase = "done" =>
                           (errors \cap {"unmatched", "unterminated"} = {} <=> \A t \in TextsRead : Balanced(t))
    BY Zenon DEF SkipsExactlyDeadText
  <2>1. Reported
    BY <1>3 DEF NestingInv
  <2>2. phase = "done" => (errors \cap {"unmatched", "unterminated"} = {} <=> \A t \in TextsRead : Balanced(t))
    BY <2>1 DEF Reported, Wrong
  <2>3. ASSUME ~AtEnd PROVE Skipping <=> ~LiveHere
    <3>1. GroupsMirrored
      BY <1>3, <2>3 DEF NestingInv
    <3>2. PICK g \in Seq(Nat) :
            /\ Mirrors(g, Top.text, Top.pos, history[Len(stack)].verdict, cond, Top.entry)
            /\ ~Skipping <=> \A j \in 1..Len(g) : LiveGroup(Top.text, history[Len(stack)].verdict, g[j], Top.pos)
      BY <1>3, <3>1, TopMirrored
    <3>3. Len(history) = Len(stack)
      BY <1>3 DEF Typed, HistoryTyped
    <3>4. Live(Top.text, history[Len(stack)].verdict, Top.pos)
            <=> \A j \in 1..Len(g) : LiveGroup(Top.text, history[Len(stack)].verdict, g[j], Top.pos)
      BY <3>2, LiveIs DEF Mirrors
    <3>5. LiveHere <=> ~Skipping
      BY <3>2, <3>3, <3>4 DEF LiveHere
    <3>6. QED
      BY <3>5
  <2>4. QED
    BY <2>2, <2>3
<1>4. QED
  BY <1>1, <1>2, <1>3, GroupsKept, PreprocessorTyping, PTL DEF Spec
=============================================================================
