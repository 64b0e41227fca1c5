---------------------------- MODULE Preprocessor ----------------------------
(***************************************************************************)
(* The reading of a translation unit: files and the texts of macros on a   *)
(* stack of buffers, conditional groups on a stack of their own that the   *)
(* files share, #define and #undef, #pragma once, #include (lexer.c).      *)
(*                                                                         *)
(* A text is a sequence of items, one for each directive and one for each  *)
(* token outside them.  One step reads one item, or leaves a buffer that   *)
(* has been read to its end.                                               *)
(***************************************************************************)
EXTENDS MacroTable, FiniteSets

CONSTANTS Items,         \* directives, and tokens outside them
          Texts,         \* what the files may say: a set of functions
          Options,       \* the -D and -U options the command line may have
          Main,          \* the path the main file is given by
          Canonical,     \* realpath: from the paths of the files that exist
          Cwd,           \* the directory the compiler runs in
          SearchPaths,   \* the -I directories and the standard ones, in order
          MaxDepth,      \* MAX_INCLUDE_DEPTH
          MaxCond,       \* MAX_COND_DEPTH
          MaxOnce,       \* MAX_PRAGMA_ONCE
          MaxFiles       \* MAX_INCLUDED_FILES

Files == {Canonical[path] : path \in DOMAIN Canonical}

(* The texts of files and of macros. *)
Bodies == Seq(Items)

(* Directives name macros and give them texts, and every file has a text.  *)
ASSUME TextsAssumption ==
  /\ \A i \in Items : i.kind = "define" => i.name \in Names /\ i.def \in Bodies
  /\ Texts \subseteq [Files -> Bodies]
  /\ Main \in DOMAIN Canonical
  /\ \A f \in Files : f \in DOMAIN Canonical => Canonical[f] = f
  /\ SearchPaths \in Seq({SearchPaths[k] : k \in DOMAIN SearchPaths})
  /\ \A o \in Options : o \in Seq([kind : {"undef"}, name : Names]
                                \cup [kind : {"define"}, name : Names, def : Bodies])

ASSUME LimitsAssumption ==
  /\ MaxDepth \in Nat \ {0} /\ MaxCond \in Nat
  /\ MaxOnce \in Nat /\ MaxFiles \in Nat

VARIABLES
  options,   \* config->undefines and config->defines
  option,    \* the next of them to apply
  text,      \* what each file says
  stack,     \* l->buffers[0..depth]
  cond,      \* l->cond_stack[0..cond_depth-1]
  defs,      \* l->macro_defs
  once,      \* l->pragma_once_files
  tracked,   \* l->included_files
  opened,    \* l->allocated_headers->count
  errors,    \* what diag_report was told
  phase,     \* "undefine", "define", "reading", "done" (TOK_EOF) or
             \* "fatal" (DIAG_FATAL exits)
  history,   \* for each buffer: cond when it was entered, and what the
             \* condition of each #if, #elif and #else read so far was then
  read,      \* the files entered so far
  expanded,  \* the texts of the macros expanded so far
  asked      \* those that said #pragma once where it counted

inclusion == <<once, tracked, opened, read, expanded, asked>>
files == <<options, option, text>>
vars == <<files, stack, cond, defs, errors, phase, history, inclusion>>

NoMacro == NoName

Top == stack[Len(stack)]
AtEnd == Top.pos > Len(Top.text)
Item == Top.text[Top.pos]

(* The item is one of these kinds and is the next one. *)
Reads(kinds) ==
  /\ phase = "reading"
  /\ ~AtEnd
  /\ Item.kind \in kinds

Advance == [stack EXCEPT ![Len(stack)].pos = @ + 1]

(* is_lexer_skipping *)
Skipping == IF cond = <<>> THEN FALSE ELSE ~cond[Len(cond)].active

ParentActive == IF cond = <<>> THEN TRUE ELSE cond[Len(cond)].active

(* A condition is the constant 1 or 0, or asks whether a name is defined. *)
Holds(test) == test = "1" \/ IsDefined(defs, test)

Verdict(item) ==
  CASE item.kind \in {"if", "elif", "ifdef"} -> Holds(item.test)
    [] item.kind = "ifndef" -> ~Holds(item.test)
    [] item.kind = "else" -> TRUE

(* The condition of the item read is recorded for the reader of the model. *)
Recorded ==
  [history EXCEPT ![Len(history)].verdict =
     [p \in DOMAIN @ \cup {Top.pos} |-> IF p = Top.pos THEN Verdict(Item) ELSE @[p]]]
-----------------------------------------------------------------------------
Buffer(file, macro, what) ==
  [file |-> file, macro |-> macro, text |-> what, pos |-> 1, entry |-> Len(cond)]

NoVerdict == [p \in {} |-> TRUE]

Entered(buffer, from) ==
  /\ stack' = Append(from, buffer)
  /\ history' = Append(history, [cond |-> cond, verdict |-> NoVerdict])

Init ==
  /\ text \in Texts
  /\ options \in Options /\ option = 1
  /\ defs = <<>>
  /\ stack = << [file |-> Main, macro |-> NoMacro, text |-> text[Canonical[Main]],
                 pos |-> 1, entry |-> 0] >>
  /\ history = << [cond |-> <<>>, verdict |-> NoVerdict] >>
  /\ cond = <<>> /\ read = {Canonical[Main]} /\ expanded = {} /\ asked = {}
  /\ once = <<>> /\ tracked = {} /\ opened = 0
  /\ errors = {}
  /\ phase = "undefine"
-----------------------------------------------------------------------------
(* The driver applies every -U, then every -D, before reading starts.      *)

UndefineOption ==
  /\ phase = "undefine" /\ option <= Len(options)
  /\ defs' = IF options[option].kind = "undef" THEN WithoutMacro(defs, options[option].name) ELSE defs
  /\ option' = option + 1
  /\ UNCHANGED <<options, text, stack, inclusion, cond, errors, phase, history>>

DefineOption ==
  /\ phase = "define" /\ option <= Len(options)
  /\ defs' = IF options[option].kind = "define"
             THEN WithMacro(defs, options[option].name, options[option].def) ELSE defs
  /\ option' = option + 1
  /\ UNCHANGED <<options, text, stack, inclusion, cond, errors, phase, history>>

OptionsApplied ==
  /\ phase \in {"undefine", "define"} /\ option > Len(options)
  /\ phase' = IF phase = "undefine" THEN "define" ELSE "reading"
  /\ option' = 1
  /\ UNCHANGED <<options, text, stack, inclusion, cond, defs, errors, history>>
-----------------------------------------------------------------------------
(* Conditional groups.                                                     *)

(* #if, #ifdef, #ifndef: beyond MAX_COND_DEPTH nothing is pushed. *)
OpenGroup ==
  /\ Reads({"if", "ifdef", "ifndef"})
  /\ LET taken == ParentActive /\ Verdict(Item)
     IN  IF Len(cond) < MaxCond
         THEN /\ cond' = Append(cond, [parent |-> ParentActive, taken |-> taken, active |-> taken])
              /\ UNCHANGED errors
         ELSE /\ errors' = errors \cup {"nesting"}
              /\ UNCHANGED cond
  /\ stack' = Advance
  /\ history' = Recorded
  /\ UNCHANGED <<files, inclusion, defs, phase>>

(* Mutant: the groups of the including files are in reach. *)
InAnyGroup == cond # <<>>

(* cond_depth > cond_depth_at_entry *)
InGroup == Len(cond) > Top.entry

(* Mutant: branch_taken is not consulted. *)
BranchTakenAgain(holds) ==
  LET last == cond[Len(cond)]
  IN  [last EXCEPT !.active = last.parent /\ holds, !.taken = last.parent /\ holds]

(* What #elif and #else make of the last group. *)
Branch(holds) ==
  LET last == cond[Len(cond)]
      now == last.parent /\ ~last.taken /\ holds
  IN  [last EXCEPT !.active = now, !.taken = @ \/ now]

(* #elif, #else *)
NextBranch ==
  /\ Reads({"elif", "else"})
  /\ IF InGroup
     THEN /\ cond' = [cond EXCEPT ![Len(cond)] = Branch(Verdict(Item))]
          /\ UNCHANGED errors
     ELSE /\ errors' = errors \cup {"unmatched"}
          /\ UNCHANGED cond
  /\ stack' = Advance
  /\ history' = Recorded
  /\ UNCHANGED <<files, inclusion, defs, phase>>

CloseGroup ==
  /\ Reads({"endif"})
  /\ IF InGroup
     THEN /\ cond' = SubSeq(cond, 1, Len(cond) - 1)
          /\ UNCHANGED errors
     ELSE /\ errors' = errors \cup {"unmatched"}
          /\ UNCHANGED cond
  /\ stack' = Advance
  /\ UNCHANGED <<files, inclusion, defs, phase, history>>

OutsideGroups == {"define", "undef", "once", "include", "error", "name", "token"}

(* Everything else inside a group that is left out. *)
Skip ==
  /\ Reads(OutsideGroups)
  /\ Skipping
  /\ stack' = Advance
  /\ UNCHANGED <<files, inclusion, cond, defs, errors, phase, history>>
-----------------------------------------------------------------------------
(* Directives and tokens that are not skipped.                             *)

Acts(kinds) == Reads(kinds) /\ ~Skipping

Define ==
  /\ Acts({"define"})
  /\ defs' = WithMacro(defs, Item.name, Item.def)
  /\ stack' = Advance
  /\ UNCHANGED <<files, inclusion, cond, errors, phase, history>>

Undefine ==
  /\ Acts({"undef"})
  /\ defs' = WithoutMacro(defs, Item.name)
  /\ stack' = Advance
  /\ UNCHANGED <<files, inclusion, cond, errors, phase, history>>

ErrorDirective ==
  /\ Acts({"error"})
  /\ errors' = errors \cup {"#error"}
  /\ stack' = Advance
  /\ UNCHANGED <<files, inclusion, cond, defs, phase, history>>

(* Mutant: the file is that of the including buffer. *)
WithOnceOfBase == IF Len(once) < MaxOnce THEN Append(once, stack[1].file) ELSE once

WithOnce == IF Len(once) < MaxOnce THEN Append(once, Top.file) ELSE once

PragmaOnce ==
  /\ Acts({"once"})
  /\ once' = WithOnce
  /\ asked' = asked \cup {Top.file}
  /\ stack' = Advance
  /\ UNCHANGED <<files, cond, defs, tracked, opened, errors, phase, history, read, expanded>>

(* Where a header is looked for: beside the current file and in the        *)
(* working directory when it is quoted, then along the search paths.       *)
Candidates(item) ==
  LET quoted == IF item.quoted THEN <<Top.file[1], Cwd>> ELSE <<>>
      dirs == quoted \o SearchPaths
  IN  [i \in DOMAIN dirs |-> <<dirs[i], item.header>>]

Found(item) == {i \in DOMAIN Candidates(item) : Candidates(item)[i] \in DOMAIN Canonical}

Resolved(item) ==
  Canonical[Candidates(item)[CHOOSE i \in Found(item) : \A j \in Found(item) : i <= j]]

(* Mutant: a limit of their own, smaller than that of the files opened. *)
TrackedLess(file) == IF Cardinality(tracked) < MaxFiles - 1 THEN tracked \cup {file} ELSE tracked

Tracked(file) == IF Cardinality(tracked) < MaxFiles THEN tracked \cup {file} ELSE tracked

ReadOnce(file) == \E i \in DOMAIN once : once[i] = file

IncludeNotFound ==
  /\ Acts({"include"})
  /\ Found(Item) = {}
  /\ errors' = errors \cup {"no such header"}
  /\ stack' = Advance
  /\ UNCHANGED <<files, inclusion, cond, defs, phase, history>>

(* Mutant: the line is not skipped. *)
IncludeAgainUnskipped ==
  /\ Acts({"include"})
  /\ Found(Item) # {}
  /\ ReadOnce(Resolved(Item))
  /\ tracked' = Tracked(Resolved(Item))
  /\ UNCHANGED <<files, stack, cond, defs, once, opened, errors, phase, history, read, expanded, asked>>

IncludeAgain ==
  /\ Acts({"include"})
  /\ Found(Item) # {}
  /\ ReadOnce(Resolved(Item))
  /\ tracked' = Tracked(Resolved(Item))
  /\ stack' = Advance
  /\ UNCHANGED <<files, cond, defs, once, opened, errors, phase, history, read, expanded, asked>>

Opens(item) ==
  /\ Acts({"include"})
  /\ Found(item) # {}
  /\ ~ReadOnce(Resolved(item))

(* depth + 1 >= MAX_INCLUDE_DEPTH, depth being one less than the buffers. *)
TooDeep == Len(stack) >= MaxDepth

IncludeTooDeep ==
  /\ Opens(Item)
  /\ TooDeep
  /\ tracked' = Tracked(Resolved(Item))
  /\ errors' = errors \cup {"depth"}
  /\ phase' = "fatal"
  /\ UNCHANGED <<files, stack, cond, defs, once, opened, history, read, expanded, asked>>

(* The file cannot be opened or sized, or as many as allowed were read. *)
IncludeFails ==
  /\ Opens(Item)
  /\ ~TooDeep
  /\ tracked' = Tracked(Resolved(Item))
  /\ errors' = errors \cup {IF opened < MaxFiles THEN "unreadable" ELSE "too many files"}
  /\ stack' = Advance
  /\ UNCHANGED <<files, cond, defs, once, opened, phase, history, read, expanded, asked>>

(* The rest of the line is consumed before the new buffer is pushed. *)
Include ==
  /\ Opens(Item)
  /\ ~TooDeep
  /\ opened < MaxFiles
  /\ opened' = opened + 1
  /\ read' = read \cup {Resolved(Item)}
  /\ tracked' = Tracked(Resolved(Item))
  /\ Entered(Buffer(Resolved(Item), NoMacro, text[Resolved(Item)]), Advance)
  /\ UNCHANGED <<files, cond, defs, once, errors, phase, expanded, asked>>

(* Mutant: only the innermost macro is kept from itself. *)
IsActiveInTop(n) == Top.macro = n

(* is_macro_active *)
IsActive(n) == \E d \in 2..Len(stack) : stack[d].macro = n

Expands(n) == IsDefined(defs, n) /\ ~IsActive(n)

(* A name that is no macro, or stands inside its own expansion, and any    *)
(* other token go to the parser.                                           *)
Emit ==
  /\ \/ Acts({"token"})
     \/ Acts({"name"}) /\ ~Expands(Item.name)
  /\ stack' = Advance
  /\ UNCHANGED <<files, inclusion, cond, defs, errors, phase, history>>

ExpandTooDeep ==
  /\ Acts({"name"}) /\ Expands(Item.name)
  /\ TooDeep
  /\ errors' = errors \cup {"depth"}
  /\ phase' = "fatal"
  /\ UNCHANGED <<files, inclusion, stack, cond, defs, history>>

(* push_macro_buffer: the file is that of the buffer below. *)
Expand ==
  /\ Acts({"name"}) /\ Expands(Item.name)
  /\ ~TooDeep
  /\ Entered(Buffer(Top.file, Item.name, Definition(defs, Item.name)), Advance)
  /\ expanded' = expanded \cup {Definition(defs, Item.name)}
  /\ UNCHANGED <<files, once, tracked, opened, read, asked, cond, defs, errors, phase>>

(* The end of a buffer: what it left open is reported and closed. *)
Leave ==
  /\ phase = "reading"
  /\ AtEnd
  /\ errors' = IF InGroup THEN errors \cup {"unterminated"} ELSE errors
  /\ cond' = IF InGroup THEN SubSeq(cond, 1, Top.entry) ELSE cond
  /\ IF Len(stack) > 1
     THEN /\ stack' = SubSeq(stack, 1, Len(stack) - 1)
          /\ history' = SubSeq(history, 1, Len(history) - 1)
          /\ UNCHANGED phase
     ELSE phase' = "done" /\ UNCHANGED <<stack, history>>
  /\ UNCHANGED <<files, inclusion, defs>>

Next ==
  \/ UndefineOption \/ DefineOption \/ OptionsApplied
  \/ OpenGroup \/ NextBranch \/ CloseGroup \/ Skip
  \/ Define \/ Undefine \/ ErrorDirective \/ PragmaOnce
  \/ IncludeNotFound \/ IncludeAgain \/ IncludeTooDeep \/ IncludeFails \/ Include
  \/ Emit \/ ExpandTooDeep \/ Expand \/ Leave

(* The parser asks for tokens until it gets TOK_EOF. *)
Spec == Init /\ [][Next]_vars /\ WF_vars(Next)
-----------------------------------------------------------------------------
(* What a conditional group means, read off the text.                      *)

Openers == {"if", "ifdef", "ifndef"}
Heads == {"if", "ifdef", "ifndef", "elif", "else"}

Count(t, kinds, from, to) == Cardinality({p \in from..to : t[p].kind \in kinds})

(* The directives that opened a group position p is in. *)
Enclosing(t, p) ==
  {o \in 1..(p - 1) :
     /\ t[o].kind \in Openers
     /\ \A q \in o..(p - 1) : Count(t, Openers, o, q) > Count(t, {"endif"}, o, q)}

(* The branches of the group opened at o that begin before p. *)
BranchesBefore(t, o, p) ==
  {h \in o..(p - 1) :
     \/ h = o
     \/ /\ t[h].kind \in {"elif", "else"}
        /\ o \in Enclosing(t, h)
        /\ \A i \in Enclosing(t, h) : i <= o}

(* A position counts when, in every group around it, it is in the first    *)
(* branch whose condition held.                                            *)
Live(t, verdict, p) ==
  \A o \in Enclosing(t, p) :
    LET branches == BranchesBefore(t, o, p)
    IN  \A h \in branches :
          verdict[h] = (\A i \in branches : i <= h)

LiveHere == Live(Top.text, history[Len(history)].verdict, Top.pos)

Balanced(t) ==
  /\ Enclosing(t, Len(t) + 1) = {}
  /\ \A p \in DOMAIN t : t[p].kind \in {"elif", "else", "endif"} => Enclosing(t, p) # {}
-----------------------------------------------------------------------------
(* Properties.                                                             *)

(* Every variable holds what its counterpart in struct Lexer can hold, and *)
(* no stack is beyond its array (lexer.h:171-215).                         *)
PreTypeOK ==
  /\ cond \in Seq([parent : BOOLEAN, taken : BOOLEAN, active : BOOLEAN])
  /\ Len(cond) <= MaxCond /\ Len(stack) \in 1..MaxDepth /\ Len(history) = Len(stack)
  /\ opened \in 0..MaxFiles /\ Len(once) <= MaxOnce /\ Cardinality(tracked) <= MaxFiles
  /\ \A i \in DOMAIN defs : defs[i].name \in Names \cup {NoName}
  /\ phase \in {"undefine", "define", "reading", "done", "fatal"}
  /\ \A d \in DOMAIN stack : stack[d].pos \in 1..(Len(stack[d].text) + 1)

(* Whether lexer_next skips is what the text says of the position: never   *)
(* because of a branch before, an outer group, or a file that was included *)
(* in between (lexer.c:1247-1250 with 1270-1382).  And a group that does   *)
(* not begin and end in one file, or in the text of one macro, which may   *)
(* be a directive too, is reported, and no other: what was read is well    *)
(* nested exactly when nothing was said (lexer.c:1352, 1369, 1379, 1818,   *)
(* 1864-1876).  A group too deep for the stack was reported and is left    *)
(* out.                                                                    *)
TextsRead == {text[f] : f \in read} \cup expanded
SkipsExactlyDeadText ==
  "nesting" \notin errors =>
    /\ ~AtEnd => (Skipping <=> ~LiveHere)
    /\ phase = "done" =>
         (errors \cap {"unmatched", "unterminated"} = {} <=> \A t \in TextsRead : Balanced(t))

(* A file cannot touch the groups of the file that includes it: they are   *)
(* at its end what they were at its start (cond_depth_at_entry,            *)
(* lexer.c:1337, 1360, 1376, 1817).                                        *)
GroupsOfIncludersKept ==
  \A d \in DOMAIN stack :
    /\ Len(cond) >= stack[d].entry
    /\ SubSeq(cond, 1, stack[d].entry) = history[d].cond

(* No macro is expanded inside its own expansion, however many others are  *)
(* between (is_macro_active, lexer.c:205-215): expansion comes to an end.  *)
NoMacroInsideItself ==
  \A d, e \in 2..Len(stack) : d # e /\ stack[d].macro # NoMacro => stack[d].macro # stack[e].macro

(* Every name has one entry in the table, so that #undef leaves none.      *)
OneMeaningEach == OneEntryEach(defs)

(* The dependencies -MMD writes are the files that were read: the two      *)
(* limits, on files opened and on files kept, and the ways a file is left  *)
(* unread never lose one (lexer.c:1707-1717 with 1727-1755), unless the    *)
(* compilation failed.  Only a main file that says #pragma once, is named  *)
(* by its canonical path and includes itself takes a place without having  *)
(* been opened.                                                            *)
FilesFailed == errors \cap {"unreadable", "too many files"} # {}
MainKept == Canonical[Main] = Main /\ Main \in asked

EveryFileTracked ==
  \/ FilesFailed
  \/ MainKept /\ opened = MaxFiles
  \/ read \ {Canonical[Main]} \subseteq tracked

(* A header that said #pragma once is not read a second time, unless the   *)
(* list of such files was full (lexer.c:1611-1616, 1719-1727).             *)
OnceIsOnce ==
  [][ \A f \in asked : opened' > opened /\ stack'[Len(stack')].file = f => Len(once) = MaxOnce ]_vars

(* Reading ends, at the end of the main file or with a fatal error, though *)
(* files include themselves and macros name each other.                    *)
ReadingEnds == <>(phase \in {"done", "fatal"})
=============================================================================
