------------------------------- MODULE MCText -------------------------------
(***************************************************************************)
(* What reads a text for its meaning: the evaluation of conditions, the    *)
(* expansion of macros and the parser of expressions.  They work one after *)
(* the other on different texts; a behaviour is one of them at work on one *)
(* of its texts, the others being done with an empty one.                  *)
(***************************************************************************)
EXTENDS ExpansionMeaning

VARIABLES condition, result,    \* of Conditions
          written, parsed       \* of ExpressionParser
-----------------------------------------------------------------------------
(* Conditions of up to four operands: every pair of operators, with and    *)
(* without parentheses, signs and negations; three operators from each     *)
(* level; names that are macros, calls and defined.                        *)

NumberValues == [t \in {"0", "1", "2", "3"} |-> CASE t = "0" -> 0 [] t = "1" -> 1 [] t = "2" -> 2 [] OTHER -> 3]
Object(body) == [function |-> FALSE, params |-> <<>>, body |-> body]
WithParameters(params, body) == [function |-> TRUE, params |-> params, body |-> body]
ConditionMacros ==
  [n \in {"N", "F", "M"} |->
     CASE n = "N" -> Object(<<"(", "1", "+", "2", ")">>)
       [] n = "M" -> Object(<<"N">>)
       [] n = "F" -> WithParameters(<<"x", "y">>, <<"(", "(", "x", ")", "-", "(", "y", ")", ")">>)]

Binaries ==
  {"||", "&&", "|", "^", "&", "==", "!=", "<", ">", "<=", ">=", "<<", ">>", "+", "-", "*", "/", "%"}
Signs == {"!", "~", "+", "-"}
Numerals == {<<"1">>, <<"2">>, <<"3">>}
OperatorPairs == {a \o <<f>> \o b \o <<g>> \o c : a, b, c \in Numerals, f, g \in Binaries}
First == {<<"(">> \o a \o <<f>> \o b \o <<")", g>> \o <<"2">> : a, b \in Numerals, f, g \in Binaries}
Second == {<<"3">> \o <<f, "(">> \o b \o <<g>> \o c \o <<")">> : b, c \in Numerals, f, g \in Binaries}
Signed == {<<u, "3", f, v, "2", g, "1">> : u, v \in Signs, f, g \in Binaries}
OneOfEach == {"||", "&&", "|", "^", "&", "==", "<", "<<", "-", "/"}
Triples == {<<"3", f, "1", g, "2", h, "3">> : f, g, h \in OneOfEach}
Terms == {<<"N">>, <<"M">>, <<"undefined">>, <<"defined", "N">>, <<"defined", "(", "X", ")">>,
          <<"F", "(", "1", ",", "(", "2", ",", "3", ")", ")">>, <<"F", "(", "3", ",", "N", "*", "2", ")">>,
          <<"!", "defined", "(", "M", ")">>, <<"-", "(", "N", ")">>}
Named == {a \o <<f>> \o b \o <<g>> \o c : a, b \in Terms, c \in Terms, f, g \in {"&&", "<", "-"}}

ConditionTexts == OperatorPairs \cup First \cup Second \cup Signed \cup Triples \cup Named

Evaluator ==
  INSTANCE Conditions WITH
    Conditions <- ConditionTexts, Numbers <- NumberValues, Macros <- ConditionMacros, Width <- 8
-----------------------------------------------------------------------------
(* Programs with two macros with parameters, one with a rest and one       *)
(* without parameters that mention themselves and each other, and a chain  *)
(* of macros as deep as buffers may nest.                                  *)

VarArgs == "__VA_ARGS__"
MarkTokens == {"(", ")", "[", "]", ",", "#", "##", "+"}

Fn(params, body) == [function |-> TRUE, params |-> params, variadic |-> FALSE, body |-> body]
FnRest(params, body) == [function |-> TRUE, params |-> params, variadic |-> TRUE, body |-> body]
Obj(body) == [function |-> FALSE, params |-> <<>>, variadic |-> FALSE, body |-> body]

BodiesF == {
  <<"x">>, <<"x", "+", "x">>, <<"g", "(", "x", ",", "x", ")">>, <<"#", "x">>, <<"x", "#", "x">>,
  <<"x", "##", "t">>, <<"A">>, <<"f", "(", "x", ")">>, <<"(", "x", ")">> }
BodiesG == {
  <<"x", "y">>, <<"f", "(", "y", ")">>, <<"x", "##", "y">>, <<"y", "+", "A">>,
  <<"g", "(", "y", ",", "x", ")">>, <<"#", "y", "x">> }
BodiesA == { <<"t">>, <<"A", "B">>, <<"f">>, <<"g", "(", "A", ",", "t", ")">>, <<>> }
Texts == {
  <<"f", "(", "A", ")">>, <<"f", "(", "f", "(", "1", ")", ")">>,
  <<"g", "(", "f", "(", "A", ")", ",", "A", ")">>, <<"f", "(", "f", ")", "(", "1", ")">>,
  <<"f", "(", "(", "1", ",", "A", ")", ")", "A">>, <<"g", "(", "1", ")", "A">>,
  <<"f", "(", ")">>, <<"g", "(", ",", "A", ")">>, <<"f", "(", "1", ",">>,
  <<"g", "(", "[", "1", ",", "2", "]", ",", "A", ")">>, <<"A", "(", "1", ")">> }

MacroPairs ==
  {[macros |-> [n \in {"f", "g", "A"} |->
                  CASE n = "f" -> Fn(<<"x">>, f) [] n = "g" -> Fn(<<"x", "y">>, g) [] n = "A" -> Obj(a)],
    text |-> t] : f \in BodiesF, g \in BodiesG, a \in BodiesA, t \in Texts}

BodiesR == {
  <<"x", ",", "##", VarArgs>>, <<"k", "(", VarArgs, ")", "x">>, <<"#", VarArgs>>, <<"x", "##", VarArgs>>,
  <<"x", "##", "#", VarArgs>>, <<"x", "##", "#", "t">> }
TextsR == {
  <<"r", "(", "1", ")">>, <<"r", "(", "1", ",", ")">>, <<"r", "(", "1", ",", "A", ")">>,
  <<"r", "(", "A", ",", "2", ",", "A", ")">>, <<"r", "(", "k", "(", "A", ")", ",", "e", "(", ")", ")">>,
  <<"r", "(", "1", ",", "2", ",", "A", ",", "4", ")">>, <<"e", "(", "A", ")">> }
WithRest ==
  {[macros |-> [n \in {"r", "k", "e", "A"} |->
                  CASE n = "r" -> FnRest(<<"x">>, r) [] n = "k" -> Fn(<<"x">>, <<"x", "A">>)
                    [] n = "e" -> Fn(<<>>, <<"A">>) [] n = "A" -> Obj(<<"B">>)],
    text |-> t] : r \in BodiesR, t \in TextsR}

Chain ==
  [macros |-> [n \in {"A", "B", "C", "D"} |->
                 Obj(CASE n = "A" -> <<"B">> [] n = "B" -> <<"C">> [] n = "C" -> <<"D">> [] n = "D" -> <<"t">>)],
   text |-> <<"A">>]

(* A call whose argument is a chain that ends in a call: more macros are   *)
(* open than the list of the innermost lexer has room for.                 *)
ChainOfCalls ==
  [macros |-> [n \in {"A", "B", "C", "D", "E", "f"} |->
                 CASE n = "A" -> Obj(<<"B">>) [] n = "B" -> Obj(<<"f", "(", "C", ")">>)
                   [] n = "C" -> Obj(<<"D">>) [] n = "D" -> Obj(<<"E">>)
                   [] n = "E" -> Obj(<<"f", "(", "t", ")">>) [] n = "f" -> Fn(<<"x">>, <<"x">>)],
   text |-> <<"A">>]

MacroPrograms == MacroPairs \cup WithRest \cup {Chain, ChainOfCalls}
-----------------------------------------------------------------------------
(* One operator of each level, and two where they are easily confused. *)
MCOperators == {"=", "||", "&&", "|", "^", "&", "==", "<", ">", "<<", "-", "*", ".*"}

Parser ==
  INSTANCE ExpressionParser WITH
    TypeWords <- {"int"}, Types <- {"T"}, Values <- {"x"}, Functions <- {"f"}, Templates <- {"f"},
    Literals <- {}, Operators <- MCOperators, Depth <- 2

ASSUME ParserNamesApart == Parser!NamesApart

conditionVars == <<condition, result>>
parserVars == <<written, parsed>>

NoCondition == condition = <<"0">> /\ result = [val |-> 0, pos |-> 2]
NoProgram ==
  /\ program = [macros |-> <<>>, text |-> <<>>]
  /\ lexers = << Lexer(<<>>, <<>>) >> /\ errors = {} /\ phase = "done"
NoExpression == written = Parser!Leaf("x") /\ parsed = Parser!Result(Parser!Leaf("x"), 2, TRUE)

MCInit ==
  \/ Evaluator!Init /\ NoProgram /\ NoExpression
  \/ NoCondition /\ Init /\ NoExpression
  \/ NoCondition /\ NoProgram /\ Parser!Init

MCNext ==
  \/ Evaluator!Evaluate /\ UNCHANGED <<vars, parserVars>>
  \/ Next /\ UNCHANGED <<conditionVars, parserVars>>
  \/ Parser!ParseText /\ UNCHANGED <<conditionVars, vars>>

MCSpec == MCInit /\ [][MCNext]_<<conditionVars, vars, parserVars>>
-----------------------------------------------------------------------------
(* The properties of the readers, stated in their modules.                 *)

(* Of Conditions: the value is the one C gives (lexer.c:1058-1245). *)
ValueIsMeaning == Evaluator!ValueIsMeaning

(* Of ExpressionParser: what is written is what is read (parser.c:1064-1630). *)
ParsedAsWritten == Parser!ParsedAsWritten
=============================================================================
