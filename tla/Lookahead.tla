----------------------------- MODULE Lookahead -----------------------------
(***************************************************************************)
(* The parser above the preprocessor.  Where the grammar asks for it, the  *)
(* parser copies itself, the lexer included, reads on and puts the copy    *)
(* back (parser.c, Parser saved).  The copy holds the stacks and the  *)
(* lists of files, but of the table of macros only a pointer and a length, *)
(* and of the buffers of headers a pointer.                                *)
(***************************************************************************)
EXTENDS Preprocessor

CONSTANT MaxLooks   \* how often the parser looks ahead: bounds the model only

VARIABLES
  asking,   \* lexer_next has been called and has not returned
  saved,    \* the copy, while the parser looks ahead
  seen,     \* the tokens read while looking ahead
  again,    \* those read since
  looks     \* how often it has looked ahead

lookaheadVars == <<asking, saved, seen, again, looks>>

NotAhead == [count |-> "none"]
IsAhead == saved # NotAhead

LookaheadInit ==
  /\ Init
  /\ asking = TRUE
  /\ saved = NotAhead /\ seen = <<>> /\ again = <<>> /\ looks = 0

Ask ==
  /\ ~asking /\ phase = "reading"
  /\ asking' = TRUE
  /\ UNCHANGED <<vars, saved, seen, again, looks>>

(* lexer_next gives a token back. *)
Deliver ==
  /\ asking
  /\ Emit
  /\ asking' = FALSE
  /\ seen' = IF IsAhead THEN Append(seen, Item) ELSE seen
  /\ again' = IF IsAhead THEN again ELSE Append(again, Item)
  /\ UNCHANGED <<saved, looks>>

(* It goes on with the next item, or gives TOK_EOF back. *)
ReadOn ==
  /\ asking
  /\ Next /\ ~ENABLED Emit
  /\ asking' = (phase' \notin {"done", "fatal"})
  /\ UNCHANGED <<saved, seen, again, looks>>

(* Parser saved = *p *)
LookAhead ==
  /\ ~asking /\ phase = "reading" /\ ~IsAhead
  /\ looks < MaxLooks
  /\ looks' = looks + 1
  /\ saved' = [stack |-> stack, cond |-> cond, count |-> Len(defs), once |-> once,
               tracked |-> tracked, history |-> history]
  /\ seen' = <<>>
  /\ UNCHANGED <<vars, asking, again>>

(* *p = saved: the entries of the macros that were there are left as they  *)
(* have become.                                                            *)
GoBack ==
  /\ ~asking /\ phase \in {"reading", "done"} /\ IsAhead
  /\ stack' = saved.stack /\ cond' = saved.cond /\ history' = saved.history
  /\ once' = saved.once /\ tracked' = saved.tracked
  /\ defs' = SubSeq(defs, 1, saved.count)
  /\ phase' = "reading"
  /\ saved' = NotAhead /\ again' = <<>>
  /\ UNCHANGED <<files, opened, errors, read, expanded, asked, asking, seen, looks>>

LookaheadNext == Ask \/ Deliver \/ ReadOn \/ LookAhead \/ GoBack

LookaheadSpec == LookaheadInit /\ [][LookaheadNext]_<<vars, lookaheadVars>>
-----------------------------------------------------------------------------
(* To look ahead is to peek "without advancing" (lexer.h:228): what is     *)
(* read afterwards is what was seen (parser.c:1208-1223, 1398-1414).       *)
RereadTheSame ==
  looks > 0 /\ ~IsAhead => \A i \in DOMAIN again \cap DOMAIN seen : again[i] = seen[i]
=============================================================================
