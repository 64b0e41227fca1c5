---------------------------- MODULE MacroTable ----------------------------
(***************************************************************************)
(* The preprocessor's table of macros: an array searched from its start in *)
(* which #undef leaves a hole (an entry without a name) and a definition   *)
(* takes, in this order, the entry its name already has, the first hole,   *)
(* or a new entry at the end (lexer.c).                                    *)
(***************************************************************************)
EXTENDS Naturals, Sequences

CONSTANTS Names,        \* the names a macro can have
          NoName        \* what a hole has instead of one: a NULL pointer

ASSUME NoNameAssumption == NoName \notin Names

(* find_macro: the first entry of that name, 0 when there is none. *)
Find(t, n) ==
  LET same == {i \in DOMAIN t : t[i].name = n}
  IN  IF same = {} THEN 0 ELSE CHOOSE i \in same : \A j \in same : i <= j

IsDefined(t, n) == Find(t, n) # 0

Definition(t, n) == t[Find(t, n)].def

(* Mutant: a hole is taken before the table is searched for the name. *)
SlotHoleFirst(t, n) ==
  IF Find(t, NoName) # 0 THEN Find(t, NoName)
  ELSE IF Find(t, n) # 0 THEN Find(t, n) ELSE Len(t) + 1

(* The entry a definition of n goes to. *)
Slot(t, n) ==
  IF Find(t, n) # 0 THEN Find(t, n)
  ELSE IF Find(t, NoName) # 0 THEN Find(t, NoName) ELSE Len(t) + 1

(* #define, and -D through lexer_define_object_macro. *)
WithMacro(t, n, d) ==
  [i \in 1..(IF Slot(t, n) > Len(t) THEN Slot(t, n) ELSE Len(t)) |->
     IF i = Slot(t, n) THEN [name |-> n, def |-> d] ELSE t[i]]

(* #undef, and -U through lexer_undefine_macro. *)
WithoutMacro(t, n) ==
  IF IsDefined(t, n) THEN [t EXCEPT ![Find(t, n)].name = NoName] ELSE t

(* No name has two entries: the second would come back once the first is   *)
(* undefined.                                                              *)
OneEntryEach(t) ==
  \A i, j \in DOMAIN t : t[i].name = t[j].name /\ t[i].name # NoName => i = j
=============================================================================
