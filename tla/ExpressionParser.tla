-------------------------- MODULE ExpressionParser --------------------------
(***************************************************************************)
(* The parser of expressions (parser.c): a function for each kind of       *)
(* expression, one of which climbs through the precedences of the binary   *)
(* operators, with questions asked ahead where a parenthesis may begin a   *)
(* cast and where < may begin template arguments.  Beside it, expressions  *)
(* as trees, and how C++ writes them down: with parentheses where an       *)
(* operand binds less than its place asks for.                             *)
(*                                                                         *)
(* A text is a sequence of tokens.  Types are a word or a name and stars.  *)
(* new, delete, pack expansions, qualified names, casts written with <>    *)
(* and types of functions are left out.                                    *)
(***************************************************************************)
EXTENDS Naturals, Sequences

CONSTANTS TypeWords,   \* int and the like
          Types,       \* the names in the parser's table of types, no layout known yet
          Values,      \* the names in its table of values
          Functions,   \* names in neither table
          Templates,   \* those of them that templates have
          Literals,
          Operators,   \* the operators of two operands that are written
          Depth        \* how deep the written expressions nest

(* No name is in two tables. *)
NamesApart ==
  /\ Types \cap Values = {} /\ Functions \cap (Types \cup Values) = {}
  /\ Templates \subseteq Functions

VARIABLES written,     \* an expression of the language, as a tree
          parsed       \* what the parser makes of its text

Node(op, kids) == [op |-> op, kids |-> kids]
Leaf(token) == Node(token, <<>>)
Leaves(tokens) == [i \in DOMAIN tokens |-> Leaf(tokens[i])]

At(t, p) == IF p \in DOMAIN t THEN t[p] ELSE "end"
IsName(token) == token \in Types \cup Values \cup Functions

(* A tree, the position after its text, and whether no error was reported. *)
Result(tree, p, ok) == [tree |-> tree, pos |-> p, ok |-> ok]

(* expect: whatever is there is passed over. *)
Expecting(result, t, token) ==
  Result(result.tree, result.pos + 1, result.ok /\ At(t, result.pos) = token)

Wrapped(op, result) == Result(Node(op, <<result.tree>>), result.pos, result.ok)
Conversion(type, result) == Result(Node("convert", <<Leaf(type), result.tree>>), result.pos, result.ok)
-----------------------------------------------------------------------------
(* What is asked ahead.                                                    *)

Depths(t, from, to) ==
  LET depth[i \in (from - 1)..to] ==
        IF i = from - 1 THEN 0
        ELSE depth[i - 1] + (IF t[i] = "<" THEN 1 ELSE 0) - (IF t[i] = ">" THEN 1 ELSE 0)
  IN  depth

(* Where the < at p is closed; past the end when it is not. *)
AngleEnd(t, p) ==
  LET depths == Depths(t, p, Len(t))
      ends == {i \in p..Len(t) : depths[i] = 0}
  IN  IF ends = {} THEN Len(t) + 1 ELSE CHOOSE i \in ends : \A j \in ends : i <= j

PastAngles(t, p) == IF At(t, p) = "<" THEN AngleEnd(t, p) + 1 ELSE p

PastStars(t, p) ==
  CHOOSE q \in p..(Len(t) + 2) :
    (\A i \in p..(q - 1) : t[i] \in {"*", "&"}) /\ At(t, q) \notin {"*", "&"}

(* < after a name begins template arguments. *)
IsTemplate(t, p) ==
  /\ At(t, p) = "<" /\ AngleEnd(t, p) <= Len(t)
  /\ At(t, AngleEnd(t, p) + 1) = "("
  /\ \A i \in p..AngleEnd(t, p) : t[i] \notin {"(", ")", "&&", "||", "?", "="}

(* is_cast_type, asked behind a parenthesis *)
IsCast(t, p) ==
  LET named == PastAngles(t, p + 1)
      q == PastStars(t, named)
  IN  \/ At(t, p) \in TypeWords
      \/ /\ IsName(At(t, p)) /\ At(t, p) \notin Values
         /\ \/ At(t, q) = ")" /\ q > named
            \/ At(t, q) = ")" /\ At(t, p) \in Types
            \/ At(t, q) = "(" /\ At(t, q + 1) = "*" /\ At(t, p) \in Types

(* is_sizeof_type, which does not ask the table of values, and             *)
(* is_declaration_starting.                                                *)
IsSizeofType(t, p) ==
  LET named == PastAngles(t, p + 1)
      q == PastStars(t, named)
  IN  \/ At(t, p) \in TypeWords
      \/ IsName(At(t, p)) /\ At(t, q) = ")" /\ (q > named \/ At(t, p) \in Types)
      \/ /\ At(t, p) \in Types
         /\ IsName(At(t, q)) \/ (At(t, q) = "(" /\ At(t, q + 1) = "*")

(* A type before a parenthesis makes a value of that type. *)
IsConversion(t, p) == At(t, p) \in TypeWords \cup Types /\ At(t, p + 1) = "("

(* parse_type *)
Type(t, p) ==
  LET q == PastStars(t, PastAngles(t, p + 1))
  IN  Result(Node("type", Leaves(SubSeq(t, p, q - 1))), q, TRUE)
-----------------------------------------------------------------------------
(* get_binary_op_precedence *)
Precedences ==
  << {}, {"||"}, {"&&"}, {"|"}, {"^"}, {"&"}, {"==", "!="}, {"<", "<=", ">", ">="},
     {"<<", ">>"}, {"+", "-"}, {"*", "/", "%"}, {".*", "->*"} >>

(* 0 for what is no binary operator, less than any of them. *)
Precedence(token) ==
  IF \E k \in DOMAIN Precedences : token \in Precedences[k]
  THEN CHOOSE k \in DOMAIN Precedences : token \in Precedences[k] ELSE 0

PrefixOps == {"+", "-", "!", "~", "*", "&", "++", "--"}
AssignOps == {"=", "+=", "-=", "*=", "/=", "%=", "&=", "|=", "^=", "<<=", ">>="}

RECURSIVE Expression(_, _), Commas(_, _), Assignment(_, _), Binary(_, _, _), Climb(_, _, _),
          Unary(_, _), Postfix(_, _), Arguments(_, _)

(* parse_primary *)
Primary(t, p) ==
  CASE At(t, p) \in Literals -> Result(Leaf(t[p]), p + 1, TRUE)
    [] IsConversion(t, p) ->
         Conversion(t[p], IF At(t, p) \in Types /\ At(t, p + 2) = ")" THEN Result(Leaf("0"), p + 3, TRUE)
                          ELSE Expecting(Expression(t, p + 2), t, ")"))
    [] IsName(At(t, p)) /\ ~IsConversion(t, p) ->
         IF IsTemplate(t, p + 1)
         THEN Result(Node("instance", Leaves(SubSeq(t, p, AngleEnd(t, p + 1)))), AngleEnd(t, p + 1) + 1, TRUE)
         ELSE Result(Leaf(t[p]), p + 1, TRUE)
    [] At(t, p) = "(" -> Expecting(Expression(t, p + 1), t, ")")
    [] OTHER -> Result(Leaf("0"), p + 1, FALSE)

(* The arguments of a call, each put behind what was called. *)
Arguments(t, called) ==
  LET next == Assignment(t, called.pos)
      with == Result(Node("call", Append(called.tree.kids, next.tree)), next.pos, called.ok /\ next.ok)
  IN  IF At(t, next.pos) = "," THEN Arguments(t, [with EXCEPT !.pos = @ + 1]) ELSE with

(* The loop of parse_postfix, with what was read so far. *)
Postfix(t, left) ==
  LET token == At(t, left.pos)
      next == left.pos + 1
      name == At(t, next)
      called == Result(Node("call", <<left.tree>>), next, left.ok)
      index == Expecting(Expression(t, next), t, "]")
  IN  CASE token = "(" ->
             Postfix(t, Expecting(IF name = ")" THEN called ELSE Arguments(t, called), t, ")"))
        [] token \in {".", "->"} ->
             Postfix(t, Result(Node(token, <<left.tree, Leaf(name)>>), next + 1, left.ok /\ IsName(name)))
        [] token = "[" ->
             Postfix(t, Result(Node("index", <<left.tree, index.tree>>), index.pos, left.ok /\ index.ok))
        [] token \in {"++", "--"} -> Postfix(t, Result(Node("post" \o token, <<left.tree>>), next, left.ok))
        [] OTHER -> left

(* What is behind sizeof. *)
Sized(t, p) ==
  CASE At(t, p) # "(" -> Unary(t, p)
    [] At(t, p) = "(" /\ IsSizeofType(t, p + 1) -> Expecting(Type(t, p + 1), t, ")")
    [] OTHER -> Expecting(Expression(t, p + 1), t, ")")

(* parse_unary *)
Unary(t, p) ==
  CASE At(t, p) = "(" /\ IsCast(t, p + 1) ->
         LET type == Expecting(Type(t, p + 1), t, ")")
             operand == Unary(t, type.pos)
         IN  Result(Node("cast", <<type.tree, operand.tree>>), operand.pos, type.ok /\ operand.ok)
    [] At(t, p) \in PrefixOps -> Wrapped("pre" \o t[p], Unary(t, p + 1))
    [] At(t, p) = "sizeof" -> Wrapped("sizeof", Sized(t, p + 1))
    [] OTHER -> Postfix(t, Primary(t, p))

Both(op, left, right) ==
  Result(Node(op, <<left.tree, right.tree>>), right.pos, left.ok /\ right.ok)

(* Mutant: the right operand may hold operators of the same precedence. *)
ClimbRight(t, left, least) ==
  LET op == At(t, left.pos)
  IN  IF Precedence(op) = 0 \/ Precedence(op) < least THEN left
      ELSE Climb(t, Both(op, left, Binary(t, left.pos + 1, Precedence(op))), least)

(* The loop of parse_binary_expr. *)
Climb(t, left, least) ==
  LET op == At(t, left.pos)
  IN  IF Precedence(op) = 0 \/ Precedence(op) < least THEN left
      ELSE Climb(t, Both(op, left, Binary(t, left.pos + 1, Precedence(op) + 1)), least)

Binary(t, p, least) == Climb(t, Unary(t, p), least)

(* Behind a condition. *)
Chosen(t, condition) ==
  LET then == Expecting(Expression(t, condition.pos + 1), t, ":")
      else == Assignment(t, then.pos)
  IN  Result(Node("?", <<condition.tree, then.tree, else.tree>>), else.pos,
             condition.ok /\ then.ok /\ else.ok)

(* parse_assignment *)
Assignment(t, p) ==
  LET condition == Binary(t, p, 0)
      target == IF At(t, condition.pos) = "?" THEN Chosen(t, condition) ELSE condition
  IN  IF At(t, target.pos) \in AssignOps
      THEN Both(At(t, target.pos), target, Assignment(t, target.pos + 1)) ELSE target

Commas(t, left) ==
  IF At(t, left.pos) = "," THEN Commas(t, Both(",", left, Assignment(t, left.pos + 1))) ELSE left

(* parse_expression *)
Expression(t, p) == Commas(t, Assignment(t, p))
-----------------------------------------------------------------------------
(* How tightly an expression binds, by its operator: comma, assignments    *)
(* and ?:, the binary operators, casts, prefixes, postfixes, the rest.     *)
Level(tree) ==
  CASE tree.op = "," -> 0
    [] tree.op \in AssignOps \cup {"?"} -> 1
    [] Precedence(tree.op) > 0 /\ Len(tree.kids) = 2 -> Precedence(tree.op)
    [] tree.op = "cast" -> 13
    [] tree.op \in {"sizeof"} \cup {"pre" \o op : op \in PrefixOps} -> 14
    [] tree.op \in {"call", "index", ".", "->", "post++", "post--", "convert", "instance"} -> 15
    [] OTHER -> 16

(* How tightly an operand has to bind where it stands; 17 for where there  *)
(* are parentheses in any case.                                            *)
Place(tree, i) ==
  LET op == tree.op
  IN  CASE op = "()" -> 17
        [] op = "," -> i - 1
        [] op = "?" -> <<2, 0, 1>>[i]
        [] op \in AssignOps -> 3 - i
        [] Level(tree) \in 2..12 -> Level(tree) + i - 1
        [] op = "cast" -> IF i = 1 THEN 17 ELSE 13
        [] op = "sizeof" -> IF tree.kids[i].op = "type" THEN 17 ELSE 14
        [] Level(tree) = 14 /\ op # "sizeof" -> IF op \in {"pre++", "pre--"} THEN 14 ELSE 13
        [] op = "call" -> IF i = 1 THEN 15 ELSE 1
        [] op \in {"index", ".", "->", "post++", "post--"} -> IF i = 1 THEN 15 ELSE 0
        [] op \in {"convert", "instance", "type"} -> 0

InParentheses(tree, i) == Level(tree.kids[i]) < Place(tree, i)

RECURSIVE Text(_), Bare(_)

(* The text of an operand where it stands. *)
Operand(tree, i) ==
  LET text == Text(tree.kids[i])
  IN  IF InParentheses(tree, i) THEN <<"(">> \o text \o <<")">> ELSE text

ArgumentTexts(call) ==
  LET texts[i \in DOMAIN call.kids] ==
        IF i = 1 THEN <<>>
        ELSE texts[i - 1] \o (IF i = 2 THEN <<>> ELSE <<",">>) \o Operand(call, i)
  IN  texts[Len(call.kids)]

Tokens(leaves) == [i \in DOMAIN leaves |-> leaves[i].op]

Text(tree) ==
  LET kid(i) == Operand(tree, i)
      op == tree.op
  IN  CASE tree.kids = <<>> -> <<op>>
        [] op \in {"type", "instance"} -> Tokens(tree.kids)
        [] op = "()" -> kid(1)
        [] op \in {",", ".", "->"} \cup AssignOps \/ Level(tree) \in 2..12 -> kid(1) \o <<op>> \o kid(2)
        [] op = "?" -> kid(1) \o <<op>> \o kid(2) \o <<":">> \o kid(3)
        [] op = "cast" -> kid(1) \o kid(2)
        [] op = "sizeof" -> <<op>> \o kid(1)
        [] op \in {"pre" \o sign : sign \in PrefixOps} ->
             <<CHOOSE sign \in PrefixOps : op = "pre" \o sign>> \o kid(1)
        [] op = "call" -> kid(1) \o <<"(">> \o ArgumentTexts(tree) \o <<")">>
        [] op = "index" -> kid(1) \o <<"[">> \o kid(2) \o <<"]">>
        [] op \in {"post++", "post--"} -> kid(1) \o <<IF op = "post++" THEN "++" ELSE "--">>
        [] op = "convert" -> kid(1) \o <<"(">> \o kid(2) \o <<")">>

(* What is read back: parentheses leave no trace. *)
Bare(tree) ==
  IF tree.op = "()" THEN Bare(tree.kids[1])
  ELSE Node(tree.op, [i \in DOMAIN tree.kids |-> Bare(tree.kids[i])])

CastTypes == {Node("type", <<Leaf(w)>>) : w \in TypeWords \cup Types}
               \cup {Node("type", <<Leaf(w), Leaf("*")>>) : w \in TypeWords \cup Types}

Atoms == {Leaf(token) : token \in Values \cup Literals}

(* With one more operator, over expressions of a set; an operator of three *)
(* operands has one without operators among them.                          *)
Grown(trees) ==
  LET three == {<<a, b, c>> : a \in Atoms, b, c \in trees} \cup {<<a, b, c>> : a, c \in trees, b \in Atoms}
                 \cup {<<a, b, c>> : a, b \in trees, c \in Atoms}
      one(op) == {Node(op, <<a>>) : a \in trees}
      two(op, left, right) == {Node(op, <<a, b>>) : a \in left, b \in right}
      named == {Leaf(f) : f \in Functions}
      instances == {Node("instance", <<Leaf(f), Leaf("<"), Leaf(x), Leaf(">")>>) :
                      f \in Templates, x \in Literals \cup TypeWords}
  IN  UNION {two(op, trees, trees) : op \in Operators \cup {",", "call", "index"}}
        \cup two("index", {Node("()", <<a>>) : a \in Atoms}, Atoms)
        \cup UNION {one(op) : op \in {"()", "sizeof", "post++"} \cup {"pre" \o sign : sign \in {"-", "*", "++"}}}
        \cup {Node("?", operands) : operands \in three}
        \cup {Node("sizeof", <<t>>) : t \in CastTypes}
        \cup two("cast", CastTypes, trees) \cup two("convert", {Leaf(t) : t \in TypeWords \cup Types},
                                                trees \cup {Node("pre*", <<a>>) : a \in Atoms})
        \cup two(".", trees, named) \cup two("call", named \cup instances, trees)
        \cup {Node("call", <<f>>) : f \in named} \cup {Node("call", <<f, a, b>>) : f \in named, a, b \in trees}

Expressions[n \in 0..Depth] ==
  IF n = 0 THEN Atoms
  ELSE Expressions[n - 1] \cup Grown(Expressions[n - 1])
-----------------------------------------------------------------------------
Init ==
  /\ written \in Expressions[Depth]
  /\ parsed = Result(Leaf("none"), 0, FALSE)

ParseText ==
  /\ parsed.pos = 0
  /\ parsed' = Expression(Text(written), 1)
  /\ UNCHANGED written

Spec == Init /\ [][ParseText]_<<written, parsed>>
-----------------------------------------------------------------------------
RECURSIVE MeasuresPostfix(_), BeginsWithConversion(_)

(* sizeof of something in parentheses that a call or an index follows:     *)
(* behind the parentheses the parser takes the operand as complete.        *)
MeasuresPostfix(tree) ==
  \/ tree.op = "sizeof" /\ Level(tree.kids[1]) = 15 /\ Text(tree.kids[1])[1] = "("
  \/ \E i \in DOMAIN tree.kids : MeasuresPostfix(tree.kids[i])

(* a < b > (c), which the parser takes for the arguments of a template     *)
(* without asking whether a is one.                                        *)
LooksLikeTemplate(t) ==
  \E i, j \in DOMAIN t :
    i < j /\ t[i] = "<" /\ At(t, i - 1) \notin Templates /\ t[j] = ">" /\ At(t, j + 1) = "("

(* A conversion to T of what a pointer points to, in parentheses, which it *)
(* takes for the name of a type of functions.                              *)
LooksLikePointerType(t) ==
  \E i \in DOMAIN t : t[i] = "(" /\ At(t, i + 1) \in Types /\ At(t, i + 2) = "(" /\ At(t, i + 3) = "*"

(* Parentheses around what begins with a conversion to int and the like,   *)
(* which it takes for a cast or, behind sizeof, for a type: a word for a   *)
(* type is enough for it.                                                  *)
BeginsWithConversion(tree) ==
  \E i \in DOMAIN tree.kids :
    LET operand == tree.kids[i]
    IN  \/ InParentheses(tree, i) /\ operand.op # "type" /\ Text(operand)[1] \in TypeWords
        \/ BeginsWithConversion(operand)

(* What is written is what is read (parser.c:1064-1630): all of the text,  *)
(* without an error, with every operator between the operands it had, for  *)
(* each mix of levels of precedence, casts, conversions, calls of          *)
(* templates and parentheses around operands, but for the four shapes      *)
(* above, which the parser misreads.                                       *)
ParsedAsWritten ==
  parsed.pos # 0 /\ ~MeasuresPostfix(written) /\ ~LooksLikeTemplate(Text(written))
    /\ ~LooksLikePointerType(Text(written)) /\ ~BeginsWithConversion(written)
  => parsed = Result(Bare(written), Len(Text(written)) + 1, TRUE)
=============================================================================
