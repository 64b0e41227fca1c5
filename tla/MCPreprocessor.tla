-------------------------- MODULE MCPreprocessor --------------------------
(***************************************************************************)
(* Two families of translation units for the preprocessor: every main file *)
(* of up to five lines about conditional groups, with a header that may    *)
(* leave a group open or close one of its includer; and files that include *)
(* each other and themselves, with macros that name each other.            *)
(***************************************************************************)
EXTENDS Preprocessor

If(test) == [kind |-> "if", test |-> test]
IfDefined(n) == [kind |-> "ifdef", test |-> n]
IfNotDefined(n) == [kind |-> "ifndef", test |-> n]
ElseIf(test) == [kind |-> "elif", test |-> test]
Else == [kind |-> "else"]
EndIf == [kind |-> "endif"]
Def(n, what) == [kind |-> "define", name |-> n, def |-> what]
Undef(n) == [kind |-> "undef", name |-> n]
Use(n) == [kind |-> "name", name |-> n]
Token == [kind |-> "token"]
Once == [kind |-> "once"]
Error == [kind |-> "error"]
Quoted(h) == [kind |-> "include", header |-> h, quoted |-> TRUE]
Angled(h) == [kind |-> "include", header |-> h, quoted |-> FALSE]

MCMain == <<"given", "main">>
MCCwd == "here"
MCSearchPaths == <<"lib", "std">>

(* The main file by two paths, a header beside it and one of the same name *)
(* on the search path, which is also found through a link.                 *)
MCCanonical ==
  [p \in {<<"given", "main">>, <<"src", "main">>, <<"given", "h">>, <<"src", "h">>,
          <<"lib", "h">>, <<"lib", "g">>, <<"std", "g">>, <<"src", "g">>} |->
     CASE p[1] = "given" -> <<"src", p[2]>>
       [] p = <<"src", "g">> -> <<"lib", "g">>
       [] OTHER -> p]

MCFile(main, h, g) ==
  [f \in {<<"src", "main">>, <<"src", "h">>, <<"lib", "h">>, <<"lib", "g">>, <<"std", "g">>} |->
     CASE f = <<"src", "main">> -> main [] f[2] = "h" -> h [] OTHER -> g]

Lines == {If("1"), IfDefined("A"), ElseIf("1"), Else, EndIf, Def("A", <<>>), Quoted("h")}
Mains == UNION {[1..n -> Lines] : n \in 0..4}
LongMains == [1..5 -> Lines \ {Quoted("h")}]
Headers == { <<>>, <<EndIf>>, <<Else>>, <<If("0")>>,
             <<IfNotDefined("A"), Def("A", <<>>), EndIf>> }
GroupTexts ==
  {MCFile(main, h, <<>>) : main \in Mains, h \in Headers} \cup {MCFile(main, <<>>, <<>>) : main \in LongMains}

InclusionMains == {
  <<Quoted("h"), Angled("h"), Quoted("g"), Use("A")>>,
  <<Once, Quoted("main"), Use("A"), Use("B"), Token>>,
  <<Quoted("g"), Undef("B"), Def("C", <<Use("A")>>), Use("C")>>,
  <<Angled("missing"), Quoted("h"), Error, Quoted("h"), Quoted("h")>>,
  <<If("1"), Def("C", <<EndIf>>), Use("C"), Else, Quoted("h"), EndIf>> }
InclusionHeaders == {
  <<Once, Quoted("main"), Token>>,
  <<Quoted("h"), Quoted("g")>>,
  <<IfNotDefined("A"), Def("A", <<Use("B"), Use("C")>>), Quoted("h"), EndIf>>,
  <<Undef("A"), Def("B", <<Use("A")>>), Def("B", <<Use("C")>>)>> }
OtherHeaders == {<<Once, Token>>, <<Undef("A"), Def("C", <<Use("A"), Use("B")>>), Quoted("h")>>}
InclusionTexts ==
  {MCFile(main, h, g) : main \in InclusionMains, h \in InclusionHeaders, g \in OtherHeaders}
D(n, what) == [kind |-> "define", name |-> n, def |-> what]
U(n) == [kind |-> "undef", name |-> n]
MCOptions ==
  {<<>>, <<D("A", <<Use("B"), Use("A")>>), U("B"), D("B", <<Use("C")>>), D("C", <<Use("A")>>), D("C", <<Token>>)>>}

(* The lines of all these texts, and of what they define. *)
Defined(lines) == {l.def : l \in {m \in lines : m.kind = "define"}}
LinesOf(bodies) == UNION {{b[i] : i \in DOMAIN b} : b \in bodies}
MCItems ==
  LET lines == Lines \cup LinesOf(Headers \cup InclusionMains \cup InclusionHeaders \cup OtherHeaders \cup MCOptions)
  IN  lines \cup LinesOf(Defined(lines))
MCTexts == GroupTexts \cup InclusionTexts
=============================================================================
