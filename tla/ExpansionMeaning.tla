--------------------------- MODULE ExpansionMeaning ---------------------------
(***************************************************************************)
(* What MacroExpansion is for: the expansion of a text as C defines it, by *)
(* replacing calls, with no lexers, buffers or lists of what is disabled.  *)
(***************************************************************************)
EXTENDS MacroExpansion

(* What the expansion of a text is, when no macro mentions itself.         *)

Mentioned(n) == Tokens(Macros[n].body) \cap DOMAIN Macros
NoCycles == \A S \in SUBSET DOMAIN Macros : S = {} \/ \E n \in S : Mentioned(n) \cap S = {}

(* Every name of a macro with parameters is the start of a call that has   *)
(* no more arguments than are kept.                                        *)
OnlyCalls(t) ==
  \A i \in DOMAIN t : t[i] \in DOMAIN Macros /\ Macros[t[i]].function
                      => /\ i < Len(t) /\ t[i + 1] = "("
                         /\ CallEnd(t, i + 2) <= Len(t)
                         /\ Cardinality(Commas(t, i + 2)) < MaxParams

AlwaysAlike(macro) ==
  \A i, j \in DOMAIN macro.body :
    macro.body[i] = macro.body[j] /\ IsParam(macro, macro.body[i]) => (Beside(macro, i) <=> Beside(macro, j))

(* No empty argument is pasted, and only macros with parameters paste.     *)
PastesWords ==
  LET all == {Macros[n].body : n \in DOMAIN Macros} \cup {program.text}
      emptyArgument == \E t \in all : \E i \in 1..(Len(t) - 1) : t[i] \in {"(", ","} /\ t[i + 1] \in {")", ","}
  IN  /\ \A n \in DOMAIN Macros : ~Macros[n].function => Tokens(Macros[n].body) \cap {"#", "##"} = {}
      /\ emptyArgument => \A t \in all : "##" \notin Tokens(t)

(* A # in a body stands before a parameter. *)
QuotesParams ==
  \A n \in DOMAIN Macros : \A i \in DOMAIN Macros[n].body :
    Macros[n].body[i] = "#" => i < Len(Macros[n].body) /\ IsParam(Macros[n], Macros[n].body[i + 1])

Ordinary ==
  /\ NoCycles /\ PastesWords /\ QuotesParams
  /\ OnlyCalls(program.text) /\ \A n \in DOMAIN Macros : OnlyCalls(Macros[n].body) /\ AlwaysAlike(Macros[n])
  /\ \A n \in DOMAIN Macros : Tokens(Macros[n].body) \cap {"[", "]", "{", "}"} = {}
  /\ Tokens(program.text) \cap {"[", "]", "{", "}"} = {}

(* The arguments of a call, token by token, and where its text goes on.    *)
RECURSIVE Collected(_, _, _, _)
Collected(t, p, depth, args) ==
  LET with(token) == [args EXCEPT ![Len(args)] = Append(@, token)]
  IN  CASE t[p] = ")" /\ depth = 0 -> [args |-> args, next |-> p + 1]
        [] t[p] = "," /\ depth = 0 -> Collected(t, p + 1, 0, Append(args, <<>>))
        [] t[p] = "(" -> Collected(t, p + 1, depth + 1, with("("))
        [] t[p] = ")" /\ depth > 0 -> Collected(t, p + 1, depth - 1, with(")"))
        [] OTHER -> Collected(t, p + 1, depth, with(t[p]))

RECURSIVE Meaning(_, _), Body(_, _, _, _)

(* The text of a call up to the i-th token of the body.                    *)
Body(macro, args, i, busy) ==
  LET id == macro.body[i]
      raw == IF IsParam(macro, id) THEN Stands(macro, args, id) ELSE <<id>>
      before == Body(macro, args, i - 1, busy)
      piece == CASE i > 1 /\ macro.body[i - 1] = "#" -> <<Quoted(raw)>>
                 [] ~Beside(macro, i) /\ IsParam(macro, id) -> Meaning(raw, busy)
                 [] OTHER -> raw
  IN  CASE i = 0 -> <<>>
        [] i > 0 /\ id \in {"#", "##"} -> before
        [] i > 1 /\ macro.body[i - 1] = "##" /\ IsRest(macro, id) -> GluedRest(before, piece)
        [] i > 1 /\ macro.body[i - 1] = "##" /\ ~IsRest(macro, id) -> Glued(before, piece)
        [] OTHER -> before \o piece

(* A text with every call replaced by its body and that expanded in turn,  *)
(* except for the macros that are busy.                                    *)
Meaning(t, busy) ==
  IF t = <<>> THEN <<>>
  ELSE IF t[1] \notin DOMAIN Macros \ busy THEN <<t[1]>> \o Meaning(Tail(t), busy)
  ELSE LET n == t[1]
           call == Collected(t, 3, 0, << <<>> >>)
       IN  IF Macros[n].function
           THEN Meaning(Body(Macros[n], call.args, Len(Macros[n].body), busy), busy \cup {n})
                  \o Meaning(SubSeq(t, call.next, Len(t)), busy)
           ELSE Meaning(Macros[n].body, busy \cup {n}) \o Meaning(Tail(t), busy)
-----------------------------------------------------------------------------
(* Expanding arguments first, in lexers of their own, and then reading the *)
(* substituted body again gives what replacing each call by its body       *)
(* gives: nothing is expanded that is stringified or pasted, everything    *)
(* else is, and commas inside parentheses belong to their argument         *)
(* (lexer.c:613-820).                                                      *)
ResultIsMeaning ==
  phase = "done" /\ errors = {} /\ Ordinary => Current.out = Meaning(program.text, {})
=============================================================================
