--------------------------- MODULE MacroExpansion ---------------------------
(***************************************************************************)
(* The expansion of macros with parameters (lexer.c, try_expand_macro and  *)
(* what it calls).  A call collects its arguments from the buffer it is    *)
(* in, reads each of them to the end with a lexer of its own, puts them    *)
(* into the body and pushes the result as a buffer that is read again.     *)
(*                                                                         *)
(* A token is a word or a mark.  There are no directives here: the table   *)
(* of macros is fixed (see Preprocessor), and no text starts with #.  The  *)
(* code compares a parameter with the end of a word of the body; here no   *)
(* word ends in the name of a parameter.  No body ends in ## or has two of *)
(* them side by side.                                                      *)
(***************************************************************************)
EXTENDS Naturals, Sequences, FiniteSets

CONSTANTS Programs,   \* [macros |-> from names to definitions, text |-> tokens]
          Marks,      \* the tokens that are not words
          MaxParams,  \* MAX_MACRO_PARAMS
          MaxDepth    \* MAX_INCLUDE_DEPTH

ASSUME DepthAssumption == MaxDepth \in Nat

VARIABLES
  program,
  lexers,    \* the lexer, and above it those that read arguments
  errors,    \* "arity" once a call had the wrong number of arguments
  phase      \* "reading", "done" or "fatal"

vars == <<program, lexers, errors, phase>>

Macros == program.macros
NoMacro == "no macro"
NoCall == [macro |-> NoMacro, args |-> <<>>, done |-> <<>>]

Lexer(text, disabled) ==
  [stack |-> << [text |-> text, pos |-> 1, macro |-> NoMacro] >>,
   disabled |-> disabled, out |-> <<>>, call |-> NoCall]

Current == lexers[Len(lexers)]
Top == Current.stack[Len(Current.stack)]
AtEnd == Top.pos > Len(Top.text)
Token == Top.text[Top.pos]

Put(lexer) == [lexers EXCEPT ![Len(lexers)] = lexer]

(* The current lexer with the top buffer read up to p. *)
ReadTo(p) == [Current EXCEPT !.stack[Len(Current.stack)].pos = p]
-----------------------------------------------------------------------------
(* The text of a call (lines 640-779).                                     *)

Opening == {"(", "[", "{"}
Closing == {")", "]", "}"}

Nesting(t, from, to) ==
  Cardinality({i \in from..to : t[i] \in Opening}) - Cardinality({i \in from..to : t[i] \in Closing})

Least(S) == CHOOSE i \in S : \A j \in S : i <= j

(* Where the call whose first argument starts at p is closed; past the end *)
(* of the buffer when it is not.                                           *)
CallEnd(t, p) ==
  LET ends == {i \in p..Len(t) : t[i] \in Closing /\ Nesting(t, p, i - 1) = 0}
  IN  IF ends = {} THEN Len(t) + 1 ELSE Least(ends)

Commas(t, p) == {i \in p..(CallEnd(t, p) - 1) : t[i] = "," /\ Nesting(t, p, i - 1) = 0}

(* An argument ends at a comma or at the end of the call: what follows the *)
(* last comma of a call that is not closed is dropped, and so is what      *)
(* comes after MaxParams arguments.  An empty call has one empty argument, *)
(* except for a macro without parameters.                                  *)
Arguments(t, p, macro) ==
  LET ends == Commas(t, p) \cup (IF CallEnd(t, p) <= Len(t) THEN {CallEnd(t, p)} ELSE {})
      end(k) == CHOOSE i \in ends : Cardinality({j \in ends : j < i}) = k - 1
      all == [k \in 1..Cardinality(ends) |->
                SubSeq(t, IF k = 1 THEN p ELSE end(k - 1) + 1, end(k) - 1)]
      given == IF macro.params = <<>> /\ CallEnd(t, p) <= Len(t) /\ all[Len(all)] = <<>>
               THEN Len(all) - 1 ELSE Len(all)
  IN  SubSeq(all, 1, IF given > MaxParams THEN MaxParams ELSE given)

ArityFits(macro, args) ==
  IF macro.variadic THEN Len(args) >= Len(macro.params) ELSE Len(args) = Len(macro.params)
-----------------------------------------------------------------------------
(* expand_macro_body.                                                      *)

Rest == "__VA_ARGS__"
Word(token) == token \notin Marks

ParamIndex(macro, id) ==
  LET same == {k \in DOMAIN macro.params : macro.params[k] = id}
  IN  IF same = {} THEN 0 ELSE Least(same)

IsRest(macro, id) == ParamIndex(macro, id) = 0 /\ macro.variadic /\ id = Rest
IsParam(macro, id) == ParamIndex(macro, id) # 0 \/ IsRest(macro, id)

(* The arguments beyond the parameters, with commas between. *)
RestOf(macro, args) ==
  LET joined[k \in Nat] ==
        IF k <= Len(macro.params) THEN <<>>
        ELSE IF k = Len(macro.params) + 1 THEN args[k]
        ELSE joined[k - 1] \o <<",">> \o args[k]
  IN  joined[Len(args)]

(* What a word of the body stands for. *)
Stands(macro, args, id) ==
  IF IsRest(macro, id) THEN RestOf(macro, args)
  ELSE IF ParamIndex(macro, id) \in DOMAIN args THEN args[ParamIndex(macro, id)]
  ELSE <<id>>

Quoted(tokens) ==
  LET text[k \in 0..Len(tokens)] ==
        IF k = 0 THEN "" ELSE text[k - 1] \o (IF k = 1 THEN "" ELSE " ") \o tokens[k]
  IN  "'" \o text[Len(tokens)] \o "'"

(* ## leaves no space between the text so far and what comes next: two     *)
(* words become one.                                                       *)
Glued(before, after) ==
  IF before # <<>> /\ after # <<>> /\ Word(before[Len(before)]) /\ Word(after[1])
  THEN SubSeq(before, 1, Len(before) - 1) \o <<before[Len(before)] \o after[1]>> \o Tail(after)
  ELSE before \o after

(* , ## __VA_ARGS__ drops the comma when there is nothing for the rest. *)
GluedRest(before, after) ==
  IF before = <<>> \/ before[Len(before)] # "," THEN Glued(before, after)
  ELSE IF after = <<>> THEN SubSeq(before, 1, Len(before) - 1)
  ELSE before \o after

(* One piece of the body, put after the text so far. *)
Filling(macro, args, sofar) ==
  LET i == sofar.at
      before == sofar.text
      at(k) == IF k <= Len(macro.body) THEN macro.body[k] ELSE ""
      To(k, text) == [at |-> k, text |-> text]
  IN  CASE i > Len(macro.body) -> sofar
        [] at(i) = "##" /\ at(i + 1) = "#" /\ IsParam(macro, at(i + 2)) ->
             To(i + 3, Append(before, Quoted(Stands(macro, args, at(i + 2)))))
        [] at(i) = "##" /\ at(i + 1) = "#" /\ ~IsParam(macro, at(i + 2)) ->   \* the # is dropped
             IF at(i + 2) # "" /\ Word(at(i + 2)) THEN To(i + 3, Glued(before, <<at(i + 2)>>))
             ELSE To(i + 2, before)
        [] at(i) = "##" /\ IsRest(macro, at(i + 1)) ->
             To(i + 2, GluedRest(before, Stands(macro, args, at(i + 1))))
        [] at(i) = "##" /\ at(i + 1) # "#" /\ ~IsRest(macro, at(i + 1)) ->
             To(i + 2, Glued(before, IF Word(at(i + 1)) THEN Stands(macro, args, at(i + 1)) ELSE <<at(i + 1)>>))
        [] at(i) = "#" /\ IsParam(macro, at(i + 1)) ->
             To(i + 2, Append(before, Quoted(Stands(macro, args, at(i + 1)))))
        [] OTHER ->
             To(i + 1, before \o (IF Word(at(i)) THEN Stands(macro, args, at(i)) ELSE <<at(i)>>))

(* The body with the arguments in it; it has no more pieces than tokens. *)
Filled(macro, args) ==
  LET after[k \in 0..Len(macro.body)] ==
        IF k = 0 THEN [at |-> 1, text |-> <<>>] ELSE Filling(macro, args, after[k - 1])
  IN  after[Len(macro.body)].text

Beside(macro, i) ==
  \/ i > 1 /\ macro.body[i - 1] \in {"#", "##"}
  \/ i < Len(macro.body) /\ macro.body[i + 1] = "##"

(* param_is_stringified_or_pasted: such an argument is not expanded first. *)
IsRaw(macro, id) == \E i \in DOMAIN macro.body : macro.body[i] = id /\ Beside(macro, i)

(* The parameter an argument is for. *)
ParamOf(macro, k) == IF k <= Len(macro.params) THEN macro.params[k] ELSE Rest
-----------------------------------------------------------------------------
ActiveIn(lexer) == {lexer.stack[d].macro : d \in 2..Len(lexer.stack)}

(* is_macro_active *)
Tokens(t) == {t[i] : i \in DOMAIN t}
IsActive(n) == n \in Tokens(Current.disabled) \cup ActiveIn(Current)

Reads == phase = "reading" /\ Current.call = NoCall

Init ==
  /\ program \in Programs
  /\ lexers = << Lexer(program.text, <<>>) >>
  /\ errors = {} /\ phase = "reading"

(* A name in front of the end of its buffer is not followed by anything:   *)
(* what comes after is in the buffer below.                                *)
CallFollows == Top.pos < Len(Top.text) /\ Top.text[Top.pos + 1] = "("

Expands(n) ==
  /\ n \in DOMAIN Macros
  /\ ~IsActive(n)
  /\ Macros[n].function => CallFollows

Emit ==
  /\ Reads /\ ~AtEnd
  /\ ~Expands(Token)
  /\ lexers' = Put([ReadTo(Top.pos + 1) EXCEPT !.out = Append(@, Token)])
  /\ UNCHANGED <<program, errors, phase>>

(* push_macro_buffer *)
Push(lexer, n, text) ==
  IF Len(lexer.stack) >= MaxDepth
  THEN phase' = "fatal" /\ UNCHANGED lexers
  ELSE /\ lexers' = Put([lexer EXCEPT !.stack = Append(@, [text |-> text, pos |-> 1, macro |-> n])])
       /\ UNCHANGED phase

ExpandObject ==
  /\ Reads /\ ~AtEnd
  /\ Expands(Token) /\ ~Macros[Token].function
  /\ Push(ReadTo(Top.pos + 1), Token, Macros[Token].body)
  /\ UNCHANGED <<program, errors>>

CalledWith == Arguments(Top.text, Top.pos + 2, Macros[Token])

AfterCall ==
  LET end == CallEnd(Top.text, Top.pos + 2)
  IN  IF end <= Len(Top.text) THEN end + 1 ELSE end

(* The arguments are gone when their number is found to be wrong. *)
CallMisfits ==
  /\ Reads /\ ~AtEnd
  /\ Expands(Token) /\ Macros[Token].function
  /\ ~ArityFits(Macros[Token], CalledWith)
  /\ errors' = errors \cup {"arity"}
  /\ lexers' = Put([ReadTo(AfterCall) EXCEPT !.out = Append(@, Token)])
  /\ UNCHANGED <<program, phase>>

Call ==
  /\ Reads /\ ~AtEnd
  /\ Expands(Token) /\ Macros[Token].function
  /\ ArityFits(Macros[Token], CalledWith)
  /\ lexers' = Put([ReadTo(AfterCall) EXCEPT
                      !.call = [macro |-> Token, args |-> CalledWith, done |-> <<>>]])
  /\ UNCHANGED <<program, errors, phase>>

Calling == phase = "reading" /\ Current.call # NoCall
NextArgument == Len(Current.call.done) + 1

Takes(argument) == [Current EXCEPT !.call.done = Append(@, argument)]

(* Mutant: no argument is expanded before it is put into the body. *)
AlwaysAsItIs(k) == TRUE

(* An argument that is stringified or pasted, or has no word, is taken as  *)
(* it is.                                                                  *)
AsItIs(k) ==
  \/ IsRaw(Macros[Current.call.macro], ParamOf(Macros[Current.call.macro], k))
  \/ \A i \in DOMAIN Current.call.args[k] : ~Word(Current.call.args[k][i])

TakeAsItIs ==
  /\ Calling
  /\ NextArgument \in DOMAIN Current.call.args
  /\ AsItIs(NextArgument)
  /\ lexers' = Put(Takes(Current.call.args[NextArgument]))
  /\ UNCHANGED <<program, errors, phase>>

(* Mutant: the lexer of an argument knows nothing of the macros around. *)
DisabledForgotten == <<>>

(* What is not expanded in an argument: what is not expanded here, as far  *)
(* as there is room in the array.                                          *)
Disabled ==
  LET open == [d \in 1..(Len(Current.stack) - 1) |-> Current.stack[d + 1].macro]
      all == Current.disabled \o open
  IN  SubSeq(all, 1, IF Len(all) > MaxDepth THEN MaxDepth ELSE Len(all))

(* expand_argument_tokens *)
ReadArgument ==
  /\ Calling
  /\ NextArgument \in DOMAIN Current.call.args
  /\ ~AsItIs(NextArgument)
  /\ lexers' = Append(lexers, Lexer(Current.call.args[NextArgument], Disabled))
  /\ UNCHANGED <<program, errors, phase>>

Substitute ==
  /\ Calling
  /\ NextArgument \notin DOMAIN Current.call.args
  /\ LET macro == Macros[Current.call.macro]
     IN  Push([Current EXCEPT !.call = NoCall], Current.call.macro,
              Filled(macro, Current.call.done))
  /\ UNCHANGED <<program, errors>>

Leave ==
  /\ Reads /\ AtEnd
  /\ Len(Current.stack) > 1
  /\ lexers' = Put([Current EXCEPT !.stack = SubSeq(@, 1, Len(@) - 1)])
  /\ UNCHANGED <<program, errors, phase>>

(* The end of an argument, and the end of the text. *)
Return ==
  /\ Reads /\ AtEnd
  /\ Len(Current.stack) = 1 /\ Len(lexers) > 1
  /\ LET below == SubSeq(lexers, 1, Len(lexers) - 1)
     IN  lexers' = [below EXCEPT ![Len(below)].call.done = Append(@, Current.out)]
  /\ UNCHANGED <<program, errors, phase>>

Finish ==
  /\ Reads /\ AtEnd
  /\ Len(Current.stack) = 1 /\ Len(lexers) = 1
  /\ phase' = "done"
  /\ UNCHANGED <<program, lexers, errors>>

Next ==
  \/ Emit \/ ExpandObject \/ CallMisfits \/ Call
  \/ TakeAsItIs \/ ReadArgument \/ Substitute
  \/ Leave \/ Return \/ Finish

Spec == Init /\ [][Next]_vars
-----------------------------------------------------------------------------
(* No macro is being read twice at once, by one lexer or by two, however   *)
(* calls nest in arguments: each lexer is told what those below it have    *)
(* open, as long as the array it is told in has room (lexer.c:205-215,     *)
(* 551-557).                                                               *)
NoMacroTwice ==
  (\A k \in DOMAIN lexers : Len(lexers[k].disabled) < MaxDepth) =>
    \A k, l \in DOMAIN lexers :
      \A c \in 2..Len(lexers[k].stack), d \in 2..Len(lexers[l].stack) :
        lexers[k].stack[c].macro = lexers[l].stack[d].macro => k = l /\ c = d
=============================================================================
