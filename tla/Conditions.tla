----------------------------- MODULE Conditions -----------------------------
(***************************************************************************)
(* The value of the condition of an #if or #elif: one function of lexer.c  *)
(* for each level of precedence, each of which reads operands of the next  *)
(* level for as long as one of its own operators follows.  Beside it, what *)
(* the condition means: the value of the expression split at the operator  *)
(* that binds least, the last of several.                                  *)
(*                                                                         *)
(* A condition is a sequence of tokens; two signs in a row are apart.      *)
(***************************************************************************)
EXTENDS Integers, Sequences, FiniteSets, Bitwise

CONSTANTS Conditions,   \* the conditions evaluated
          Numbers,      \* from the tokens that are numbers to their values
          Macros,       \* from the names that are macros to their definitions
          Width         \* the bits of int64_t

VARIABLES condition, result

Wrap(v) == ((v + 2^(Width - 1)) % 2^Width) - 2^(Width - 1)
Bits(v) == v % 2^Width
Truth(b) == IF b THEN 1 ELSE 0
Abs(v) == IF v < 0 THEN -v ELSE v
Truncated(a, b) == IF (a < 0) = (b < 0) THEN Abs(a) \div Abs(b) ELSE -(Abs(a) \div Abs(b))

(* What each operator computes on int64_t: by zero the quotient is 0, and  *)
(* a shift by more than the width gives 0.                                 *)
BinaryValue(op, a, b) ==
  CASE op = "||" -> Truth(a # 0 \/ b # 0)
    [] op = "&&" -> Truth(a # 0 /\ b # 0)
    [] op = "|" -> Wrap(Bits(a) | Bits(b))
    [] op = "^" -> Wrap(Bits(a) ^^ Bits(b))
    [] op = "&" -> Wrap(Bits(a) & Bits(b))
    [] op = "==" -> Truth(a = b)
    [] op = "!=" -> Truth(a # b)
    [] op = "<" -> Truth(a < b)
    [] op = ">" -> Truth(a > b)
    [] op = "<=" -> Truth(a <= b)
    [] op = ">=" -> Truth(a >= b)
    [] op = "<<" -> IF b \in 0..(Width - 1) THEN Wrap(a * 2^b) ELSE 0
    [] op = ">>" -> IF b \in 0..(Width - 1) THEN a \div 2^b ELSE 0
    [] op = "+" -> Wrap(a + b)
    [] op = "-" -> Wrap(a - b)
    [] op = "*" -> Wrap(a * b)
    [] op = "/" -> IF b = 0 THEN 0 ELSE Wrap(Truncated(a, b))
    [] op = "%" -> IF b = 0 THEN 0 ELSE a - b * Truncated(a, b)

UnaryValue(op, a) ==
  CASE op = "!" -> Truth(a = 0)
    [] op = "~" -> -a - 1
    [] op = "+" -> a
    [] op = "-" -> Wrap(-a)

UnaryOps == {"!", "~", "+", "-"}

(* Mutant: & binds like the comparisons next to it. *)
LevelsMerged ==
  << {"||"}, {"&&"}, {"|"}, {"^"}, {"&", "==", "!="}, {},
     {"<", ">", "<=", ">="}, {"<<", ">>"}, {"+", "-"}, {"*", "/", "%"} >>

(* pp_eval_lor, ..., pp_eval_mul: the operators of each level. *)
Levels ==
  << {"||"}, {"&&"}, {"|"}, {"^"}, {"&"}, {"==", "!="},
     {"<", ">", "<=", ">="}, {"<<", ">>"}, {"+", "-"}, {"*", "/", "%"} >>

BinaryOps == UNION {Levels[k] : k \in DOMAIN Levels}
-----------------------------------------------------------------------------
(* The evaluator.  Each function returns a value and the position after    *)
(* what it read.                                                           *)

At(t, p) == IF p <= Len(t) THEN t[p] ELSE "end"
Found(v, p) == [val |-> v, pos |-> p]

(* Past the closing parenthesis, if there is one. *)
Closed(t, p) == IF At(t, p) = ")" THEN p + 1 ELSE p

(* defined A and defined ( A ) *)
Defined(t, p) ==
  LET name == IF At(t, p) = "(" THEN p + 1 ELSE p
      after == name + (IF name <= Len(t) /\ At(t, name) \notin BinaryOps \cup UnaryOps \cup {"(", ")", ","}
                       THEN 1 ELSE 0)
  IN  Found(Truth(At(t, name) \in DOMAIN Macros), IF At(t, p) = "(" THEN Closed(t, after) ELSE after)

(* The end of a call whose arguments start at p: the position of the       *)
(* closing parenthesis, or past the end.                                   *)
Nesting(t, from, to) ==
  Cardinality({i \in from..to : t[i] = "("}) - Cardinality({i \in from..to : t[i] = ")"})
CallEnd(t, p) ==
  LET ends == {i \in p..Len(t) : t[i] = ")" /\ Nesting(t, p, i - 1) = 0}
  IN  IF ends = {} THEN Len(t) + 1 ELSE CHOOSE i \in ends : \A j \in ends : i <= j

(* The arguments, unexpanded; one that no parenthesis ends is dropped. *)
Arguments(t, p) ==
  LET end == CallEnd(t, p)
      cuts == {i \in p..(end - 1) : t[i] = "," /\ Nesting(t, p, i - 1) = 0}
                \cup (IF end <= Len(t) THEN {end} ELSE {})
      cut(k) == CHOOSE i \in cuts : Cardinality({j \in cuts : j < i}) = k - 1
  IN  [k \in 1..Cardinality(cuts) |->
         SubSeq(t, IF k = 1 THEN p ELSE cut(k - 1) + 1, cut(k) - 1)]

(* expand_macro_body on a body without # or ##. *)
Substituted(macro, args) ==
  LET part(i) == IF \E k \in DOMAIN macro.params : macro.params[k] = macro.body[i] /\ k \in DOMAIN args
                 THEN args[CHOOSE k \in DOMAIN macro.params : macro.params[k] = macro.body[i]]
                 ELSE <<macro.body[i]>>
      joined[i \in 0..Len(macro.body)] == IF i = 0 THEN <<>> ELSE joined[i - 1] \o part(i)
  IN  joined[Len(macro.body)]

RECURSIVE Level(_, _, _), Rest(_, _, _), Unary(_, _)

(* A macro is evaluated by itself, as an expression of its own; any other  *)
(* name is 0, and what starts no operand is skipped.                       *)
Primary(t, p) ==
  CASE At(t, p) = "end" -> Found(0, p)
    [] At(t, p) = "(" -> LET inner == Level(1, t, p + 1)
                         IN  Found(inner.val, Closed(t, inner.pos))
    [] At(t, p) \in DOMAIN Numbers -> Found(Numbers[t[p]], p + 1)
    [] At(t, p) = "defined" -> Defined(t, p + 1)
    [] At(t, p) = "true" -> Found(1, p + 1)
    [] At(t, p) \in DOMAIN Macros ->
         LET macro == Macros[t[p]]
         IN  IF ~macro.function THEN Found(Level(1, macro.body, 1).val, p + 1)
             ELSE IF At(t, p + 1) = "("
             THEN Found(Level(1, Substituted(macro, Arguments(t, p + 2)), 1).val,
                        IF CallEnd(t, p + 2) <= Len(t) THEN CallEnd(t, p + 2) + 1 ELSE Len(t) + 1)
             ELSE Found(0, p + 1)
    [] OTHER -> Found(0, p + 1)

Unary(t, p) ==
  IF At(t, p) \in UnaryOps
  THEN LET operand == Unary(t, p + 1)
       IN  Found(UnaryValue(t[p], operand.val), operand.pos)
  ELSE Primary(t, p)

(* Both operands of && and || are evaluated. *)
Rest(k, t, left) ==
  IF At(t, left.pos) \in Levels[k]
  THEN LET right == Level(k + 1, t, left.pos + 1)
       IN  Rest(k, t, Found(BinaryValue(t[left.pos], left.val, right.val), right.pos))
  ELSE left

Level(k, t, p) ==
  IF k > Len(Levels) THEN Unary(t, p) ELSE Rest(k, t, Level(k + 1, t, p))
-----------------------------------------------------------------------------
(* eval_preprocessor_condition: what follows the expression is not looked  *)
(* at.                                                                     *)
Init == condition \in Conditions /\ result = [val |-> 0, pos |-> 0]

Evaluate ==
  /\ result.pos = 0
  /\ result' = Level(1, condition, 1)
  /\ UNCHANGED condition

Next == Evaluate
Spec == Init /\ [][Next]_<<condition, result>>
-----------------------------------------------------------------------------
(* What a well-formed condition means in C.                                *)

Operand(token) == token \notin BinaryOps \cup UnaryOps \cup {"("}

(* The binary operators outside parentheses. *)
Splits(t) ==
  {i \in 2..(Len(t) - 1) : t[i] \in BinaryOps /\ Nesting(t, 1, i - 1) = 0 /\ Operand(t[i - 1])}

(* C's table of precedence, from the weakest on. *)
Weaker(a, b) ==
  LET row(op) == CASE op = "||" -> 1 [] op = "&&" -> 2 [] op = "|" -> 3 [] op = "^" -> 4
                   [] op = "&" -> 5 [] op \in {"==", "!="} -> 6
                   [] op \in {"<", ">", "<=", ">="} -> 7 [] op \in {"<<", ">>"} -> 8
                   [] op \in {"+", "-"} -> 9 [] OTHER -> 10
  IN  row(a) < row(b)

(* The text with its macros replaced, calls included. *)
RECURSIVE Replaced(_)
Replaced(t) ==
  IF t = <<>> THEN <<>>
  ELSE IF t[1] = "defined" THEN
    LET asked == IF t[2] = "(" THEN 4 ELSE 2
    IN  SubSeq(t, 1, asked) \o Replaced(SubSeq(t, asked + 1, Len(t)))
  ELSE IF t[1] \notin DOMAIN Macros THEN <<t[1]>> \o Replaced(Tail(t))
  ELSE IF ~Macros[t[1]].function THEN Replaced(Macros[t[1]].body \o Tail(t))
  ELSE Replaced(Substituted(Macros[t[1]], Arguments(t, 3))
                  \o SubSeq(t, CallEnd(t, 3) + 1, Len(t)))

RECURSIVE Meaning(_)
Meaning(t) ==
  LET splits == Splits(t)
      weakest == {i \in splits : ~\E j \in splits : Weaker(t[j], t[i])}
      last == CHOOSE i \in weakest : \A j \in weakest : j <= i
  IN  CASE splits # {} ->
             BinaryValue(t[last], Meaning(SubSeq(t, 1, last - 1)), Meaning(SubSeq(t, last + 1, Len(t))))
        [] splits = {} /\ t[1] \in UnaryOps -> UnaryValue(t[1], Meaning(Tail(t)))
        [] splits = {} /\ t[1] = "(" -> Meaning(SubSeq(t, 2, Len(t) - 1))
        [] splits = {} /\ t[1] = "defined" -> Truth(\E i \in 2..Len(t) : t[i] \in DOMAIN Macros)
        [] splits = {} /\ t[1] \in DOMAIN Numbers -> Numbers[t[1]]
        [] OTHER -> 0
-----------------------------------------------------------------------------
Evaluated == result.pos # 0

(* A condition of unary and binary operators, defined and macros that do   *)
(* not reach themselves has the value C gives it, whatever operators stand *)
(* next to each other and however they are nested, and all of it is read:  *)
(* since what follows the expression is ignored, an operator missed would  *)
(* go unnoticed (lexer.c:1058-1245).  ?: is left out.                      *)
ValueIsMeaning ==
  Evaluated => result = Found(Meaning(Replaced(condition)), Len(condition) + 1)
=============================================================================
