----------------------------- MODULE WellFormedCode -----------------------------
(***************************************************************************)
(* What the code of a function must be like for its allocation to be right. *)
(* The compiler neither computes nor checks any of this: it is what the     *)
(* lowering and the optimizer see to, and what the allocator and the code   *)
(* generator take for granted.                                              *)
(***************************************************************************)
EXTENDS AllocatedCode

(* Where control may go from position i.                                    *)
GoesTo(f, i) ==
  {j \in {i + 1} : f.code[i].op \notin {"RET", "JMP"}} \cup
  {j \in {LabelPos(f.code, f.code[i].label)} : f.code[i].op \in Jump}

(* It stays in the text: a function ends in a return or in a jump, and      *)
(* every label a jump names is there (ir.c:1694-1699).                      *)
ControlStays(f) ==
  /\ f.code # << >>
  /\ \A i \in 1..Len(f.code) : GoesTo(f, i) \subseteq 1..Len(f.code)

(* The positions at which the value of a register is still wanted, as far   *)
(* as n steps ahead tell; no path to a read is longer than the text.        *)
Wanted(f) ==
  LET text == 1..Len(f.code)
      steps == UNION {{<<i, j>> : j \in GoesTo(f, i)} : i \in text}
      read == UNION {{<<i, v>> : v \in Reads(f.code[i])} : i \in text}
      Ahead[n \in 0..Len(f.code)] ==
        IF n = 0 THEN read
        ELSE LET after == Ahead[n - 1]
                 Still(s) == {p \in after : p[1] = s[2] /\ p[2] \notin Writes(f.code[s[1]])}
             IN  read \cup UNION {{<<s[1], p[2]>> : p \in Still(s)} : s \in steps}
  IN  Ahead[Len(f.code)]

(* No path reaches a read of a register without setting it first.           *)
SetBeforeRead(f, wanted) ==
  \A i \in 1..Len(f.code) :
    LET next == GoesTo(f, i)
    IN  \A v \in 1..f.vregs :
          /\ v \in Reads(f.code[i]) => <<i, v>> \in wanted
          /\ <<i, v>> \in wanted => i # 1
          /\ \A j \in next :
               <<j, v>> \in wanted => <<i, v>> \in wanted \/ v \in Writes(f.code[i])

(* No value is wanted outside the live range the allocator goes by: a range *)
(* starts at the first mention in the text, so that a value carried around  *)
(* a loop into code above the first mention would be missed.                *)
WantedInRange(f, wanted) ==
  LET text == 1..Len(f.code)
      loops == Loops(f)
  IN  \A v \in 1..f.vregs :
        LET places == {i \in text : <<i, v>> \in wanted}
            mentions == MentionsOf(f, v)
        IN  places # {} =>
              /\ mentions # {}
              /\ \A first, last \in text :
                   Covers(mentions, loops, first, last) => places \subseteq first..last

(* A register that is set and read right behind that, and nowhere else, is  *)
(* wanted nowhere else.                                                     *)
OnlyRead(f, v, k) == \A i \in 1..Len(f.code) : v \in Reads(f.code[i]) => i = k
BriefValuesEnd(f, wanted) ==
  \A i \in 1..(Len(f.code) - 1) : \A v \in Writes(f.code[i]) :
    OnlyRead(f, v, i + 1) /\ f.code[i + 1].op \in Jump =>
      \A j \in 1..Len(f.code) : <<j, v>> \in wanted => j = i + 1

(* Operands are registers of the function, and what computes nothing sets   *)
(* none (ir.c:70-74); locals lie eight bytes or more apart in its stack;    *)
(* parameters are taken from the argument registers before anything jumps   *)
(* or calls (ir.c:1642-1688).                                               *)
OperandsExist(f) ==
  \A i \in 1..Len(f.code) :
    /\ Mentions(f.code[i]) \subseteq Int /\ \A v \in Mentions(f.code[i]) : v <= f.vregs
    /\ Len(f.code[i].args) \in Nat /\ DOMAIN f.code[i].args = 1..Len(f.code[i].args)
    /\ f.code[i].op \notin Computes \cup {"STORE", "CALL"} => f.code[i].dest <= 0
LocalsApart(f) ==
  \A i \in 1..Len(f.code) : IsLocal(f.code[i]) =>
    /\ f.code[i].offset \in Int /\ f.code[i].offset >= -f.stack
    /\ \A j \in 1..Len(f.code) : IsLocal(f.code[j]) =>
         \/ f.code[i].offset = f.code[j].offset
         \/ f.code[i].offset + 8 <= f.code[j].offset
         \/ f.code[j].offset + 8 <= f.code[i].offset
ParametersFirst(f) ==
  \A i \in 1..Len(f.code) : f.code[i].op = "STORE_STACK" /\ f.code[i].src1.vreg = -1 =>
    /\ f.code[i].src1.imm + 1 \in DOMAIN ArgRegs
    /\ \A k \in 1..i : f.code[k].op \notin {"LABEL", "CALL"}

WellFormed(f) ==
  LET wanted == Wanted(f)
  IN  /\ ControlStays(f) /\ OperandsExist(f) /\ LocalsApart(f) /\ ParametersFirst(f)
      /\ SetBeforeRead(f, wanted) /\ WantedInRange(f, wanted) /\ BriefValuesEnd(f, wanted)

ASSUME TextAssumption == \A f \in Functions : WellFormed(f)
=============================================================================
