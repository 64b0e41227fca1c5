-------------------------- MODULE RegisterAllocation --------------------------
(***************************************************************************)
(* What the back end may rely on after regalloc_run: the contract of        *)
(* RegAllocResult (include/regalloc.h), stated over the text of the         *)
(* function alone and silent on how the allocator finds it.                 *)
(***************************************************************************)
EXTENDS IR

CONSTANTS
  Functions,   \* the functions the allocator may be given
  Saveable,    \* the registers a callee keeps
  NoReg        \* PHYS_REG_NONE

VARIABLES
  fn,          \* the function to allocate
  allocation   \* empty until it is done, then the one result

VRegs(f) == 1..f.vregs
Text(f) == 1..Len(f.code)

(***************************************************************************)
(* The live range of a register is the least stretch of the text that holds *)
(* every mention of it and is not left by a backward jump that starts at or *)
(* after its beginning and aims at or before its end.                       *)
(***************************************************************************)
LiveRange(f, v) ==
  LET mentions == MentionsOf(f, v)
      loops == Loops(f)
  IN  {i \in Text(f) :
         /\ mentions # {}
         /\ \A first, last \in Text(f) :
              Covers(mentions, loops, first, last) => first <= i /\ i <= last}

(***************************************************************************)
(* A sound result: registers live together are kept apart, what lives over  *)
(* a call survives it, and whatever has no register has eight bytes of the  *)
(* frame, below the locals and shared with nothing else.                    *)
(***************************************************************************)
KeptApart(f, a) ==
  \A v, w \in VRegs(f) :
    v # w /\ a.reg[v] # NoReg /\ a.reg[v] = a.reg[w] => LiveRange(f, v) \cap LiveRange(f, w) = {}

SurvivesCalls(f, a) ==
  \A v \in VRegs(f) : a.reg[v] \notin Saveable \cup {NoReg} =>
    \A i \in LiveRange(f, v) : f.code[i].op # "CALL"

Areas(f, a) ==
  {<<"save", r, a.save[r]>> : r \in {q \in Saveable : \E v \in VRegs(f) : a.reg[v] = q}} \cup
  {<<"spill", v, a.slot[v]>> : v \in {w \in VRegs(f) : MentionsOf(f, w) # {} /\ a.reg[w] = NoReg}}
FrameLaidOut(f, a) ==
  /\ \A s \in Areas(f, a) : s[3] + 8 <= -f.stack /\ s[3] >= -a.size
  /\ \A s, t \in Areas(f, a) : s # t => s[3] + 8 <= t[3] \/ t[3] + 8 <= s[3]

Sound(f, a) == KeptApart(f, a) /\ SurvivesCalls(f, a) /\ FrameLaidOut(f, a)
Sounds(f, as) == \A a \in as : Sound(f, a)

(***************************************************************************)
(* A function with nothing to allocate is done at once.                     *)
(***************************************************************************)
Init == fn \in Functions /\ Sounds(fn, allocation)

Allocate ==
  /\ allocation = {}
  /\ Sounds(fn, allocation')
  /\ UNCHANGED fn

Spec == Init /\ [][Allocate]_<<fn, allocation>>
=============================================================================
