---------------------------- MODULE MCLookahead ----------------------------
(***************************************************************************)
(* A file that undefines or redefines a macro behind a use of it.          *)
(***************************************************************************)
EXTENDS Lookahead

Five == [kind |-> "token", value |-> 5]
Hundred == [kind |-> "token", value |-> 100]
Use == [kind |-> "name", name |-> "V"]
Def(what) == [kind |-> "define", name |-> "V", def |-> <<what>>]
Undef == [kind |-> "undef", name |-> "V"]

MCMain == <<"src", "main">>
MCCanonical == [path \in {MCMain} |-> MCMain]
MCItems == {Five, Hundred, Use, Def(Five), Def(Hundred), Undef}
MCTexts ==
  {[f \in {MCMain} |-> <<Def(Five), Five, Use>> \o behind \o <<Five>>] :
     behind \in {<<>>, <<Def(Five)>>, <<Undef>>, <<Def(Hundred)>>, <<Undef, Def(Hundred)>>}}
MCOptions == {<<>>}
MCSearchPaths == <<>>
=============================================================================
