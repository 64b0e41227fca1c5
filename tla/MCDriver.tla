------------------------------- MODULE MCDriver -------------------------------
(***************************************************************************)
(* Driver on up to three sources, two of them with one name in different    *)
(* directories, in every mode and with every failure.  The output may be    *)
(* ./prog, whose directory has a dot and whose name has none.               *)
(***************************************************************************)
EXTENDS Driver

X == << "a", "x", "c" >>
SameName == << "b", "x", "c" >>
Y == << "a", "y", "c" >>
Prog == << ".", "prog", "" >>
DottedProg == << "./", "prog", "" >>
Dots == [d \in {"./"} |-> << ".", "" >>]
Custom == << "deps", "custom", "d" >>

InputLists == { << >>, << X >>, << X, X >>, << X, Y >>, << X, SameName >>, << X, Y, SameName >> }
AllConfigs ==
  [mode : Modes, inputs : InputLists, output : {NoFile, Prog, DottedProg}, deps : BOOLEAN,
   depFile : {NoFile, Custom}, linkInputs : { << >>, << "lib.o" >> }]
TwoLinked ==
  {c \in AllConfigs : c.inputs = <<X, Y>> /\ c.mode = "link" /\ c.deps /\ c.depFile = NoFile}
=============================================================================
