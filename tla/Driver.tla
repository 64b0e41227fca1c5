-------------------------------- MODULE Driver --------------------------------
(***************************************************************************)
(* One run of the compiler: driver_run_many and, for each source,           *)
(* driver_run (src/driver.c), with the files they write, the assembler,     *)
(* linker and script they run, and whatever of this fails.                  *)
(*                                                                          *)
(* A file is named <<directory, stem, suffix>>; the names the driver makes  *)
(* from its process id in /tmp have a fourth part, which no name given to   *)
(* it has.  Options that exclude one another are one mode, the one          *)
(* driver_run comes to first.                                               *)
(*                                                                          *)
(* Most of what fails comes back to driver_run as an error.  Not so a limit *)
(* of the preprocessor, which is reported as fatal, and memory that is not  *)
(* given: either ends the process where it is.                              *)
(***************************************************************************)
EXTENDS Integers, Sequences, FiniteSets, SequencesExt

CONSTANTS
  Configs,     \* [mode, inputs, output, deps, depFile, linkInputs]
  Failures,    \* what may go wrong: subset of AllFailures
  DottedDirs,  \* for a directory written with a dot, as ./ and out.d/ are, the
               \* directory and stem of what stands before the last dot of it
  NoFile

Modes == {"preprocess", "ast", "ir", "assembly", "object", "run", "link"}
AllFailures ==
  {"read", "source", "create", "disk full", "tool", "dependencies", "limit", "memory"}
ASSUME FailuresAssumption == Failures \subseteq AllFailures

VARIABLES
  config,     \* what the command line asked for
  at,         \* where driver_run or driver_run_many is
  unit,       \* the index of the source it is at
  ret,        \* what the current driver_run returns
  exit,       \* the exit code, Running until then
  status,     \* what the last child process returned
  files,      \* what each file holds
  truncated   \* the disk was full when assembly was written

driverVars == <<config, at, unit, ret, exit, status, files, truncated>>

Running == -1
Signalled == 128 + 9

-----------------------------------------------------------------------------
(* Contents: what kind of thing it is, the places on the command line of    *)
(* the sources it is made from, and whether it is all there.                *)
Absent == [kind |-> "absent", from |-> << >>, whole |-> FALSE]
Old == [Absent EXCEPT !.kind = "old", !.whole = TRUE]
Made(kind, from, whole) == [kind |-> kind, from |-> from, whole |-> whole]
Torn(kind) == Made(kind, << >>, FALSE)

(* Names.  object_name_for drops the directory.  emit_dependency_file does  *)
(* not: of a name without suffix it cuts off the directory from its last    *)
(* dot on, so that the dependencies of ./prog are in .d.                    *)
WithSuffix(name, suffix) ==
  IF name[3] = "" /\ name[1] \in DOMAIN DottedDirs
  THEN <<DottedDirs[name[1]][1], DottedDirs[name[1]][2], suffix>>
  ELSE <<name[1], name[2], suffix>>
ObjectName(s) == << ".", s[2], "o" >>
AssemblyName(s) == << ".", s[2], "s" >>
AOut == << ".", "a", "out" >>
TempAssembly == << "/tmp", "winds", "s", 0 >>
TempProgram == << "/tmp", "winds_run", "", 0 >>
\* Mutant: a temporary object is named for its source.
TempObjectByStem(k) == << "/tmp", config.inputs[k][2], "o", 0 >>
TempObject(k) == << "/tmp", "winds", "o", k >>

(* What is asked for: names of three parts.  A dependency file is not asked *)
(* for under the name of a product, nor a product under that of a           *)
(* dependency file.                                                         *)
IsName(n) == n = <<n[1], n[2], n[3]>>
ASSUME ConfigsAssumption ==
  \A c \in Configs :
    /\ c.mode \in Modes /\ c.deps \in BOOLEAN
    /\ Len(c.inputs) \in Nat /\ c.inputs = [k \in 1..Len(c.inputs) |-> c.inputs[k]]
    /\ \A k \in DOMAIN c.inputs : IsName(c.inputs[k])
    /\ c.output # NoFile => IsName(c.output) /\ c.output[3] # "d"
    /\ c.depFile # NoFile =>
         /\ IsName(c.depFile) /\ c.depFile # AOut /\ c.depFile # c.output
         /\ \A k \in DOMAIN c.inputs :
              c.depFile # ObjectName(c.inputs[k]) /\ c.depFile # AssemblyName(c.inputs[k])

(* The configuration driver_run sees for the source at unit.                *)
Several == Len(config.inputs) > 1
Source == config.inputs[unit]
Mode == IF Several THEN "object" ELSE config.mode
Output ==
  IF Several THEN IF config.mode = "object" THEN ObjectName(Source) ELSE TempObject(unit)
  ELSE IF config.output # NoFile THEN config.output
  ELSE CASE Mode = "object" -> ObjectName(Source)
         [] Mode = "assembly" -> AssemblyName(Source)
         [] OTHER -> NoFile
Product == IF Mode = "run" THEN TempProgram ELSE IF Output # NoFile THEN Output ELSE AOut
FinalProduct == IF config.output # NoFile THEN config.output ELSE AOut
WantsDeps == config.deps /\ (Several => config.mode = "object")
DepFile ==
  IF config.depFile # NoFile THEN config.depFile
  ELSE WithSuffix(IF Output # NoFile THEN Output ELSE Source, "d")
AssemblyFile == IF Mode = "assembly" THEN Output ELSE TempAssembly

Units == DOMAIN config.inputs
Temporaries ==
  {TempAssembly, TempProgram} \cup {TempObject(k) : k \in Units}
  \cup {TempObjectByStem(k) : k \in Units}
Names ==
  Temporaries \cup {AOut, config.output, config.depFile}
  \cup {ObjectName(s) : s \in ToSet(config.inputs)} \cup {AssemblyName(s) : s \in ToSet(config.inputs)}
  \cup {WithSuffix(n, "d") : n \in ({config.output} \ {NoFile})
                              \cup ToSet(config.inputs) \cup {ObjectName(s) : s \in ToSet(config.inputs)}}

-----------------------------------------------------------------------------
May(f) == IF f \in Failures THEN BOOLEAN ELSE {FALSE}

(* fopen for writing truncates what is there.                               *)
Write(n, c) == files' = [files EXCEPT ![n] = c]
Unlinked(fs, S) == [n \in DOMAIN fs |-> IF n \in S THEN Absent ELSE fs[n]]

(* run_process on a tool: it makes its output, or fails and leaves none of  *)
(* it, or is killed while it writes; or it could not be started.            *)
Codes == IF "tool" \in Failures THEN {0, 1, Signalled} ELSE {0}
After(code, n, c) ==
  CASE code = 0 -> {[files EXCEPT ![n] = c]}
    [] code = 1 -> {files, [files EXCEPT ![n] = Absent]}
    [] code = Signalled -> {files, [files EXCEPT ![n] = Torn(c.kind)]}

Go(to) == at' = to /\ UNCHANGED <<config, unit, exit, truncated>>
Return(code) == Go("return") /\ ret' = code
Quiet == UNCHANGED <<ret, status>>

DriverInit ==
  /\ config \in Configs
  /\ at = "start" /\ unit = 1 /\ ret = 0 /\ exit = Running /\ status = 0
  /\ files \in {[n \in Names |-> IF n \in Temporaries THEN Absent ELSE c] : c \in {Absent, Old}}
  /\ truncated = FALSE

(***************************************************************************)
(* driver_run_many before the first source.                                 *)
(***************************************************************************)
NothingToDo ==
  config.inputs = << >> /\ (config.linkInputs = << >> \/ config.mode \in {"object", "assembly"})
Refused ==
  Several /\ \/ config.mode \notin {"object", "link"}
             \/ config.mode = "object" /\ config.output # NoFile
             \/ config.depFile # NoFile
Exit(code) == at' = "exit" /\ exit' = code /\ UNCHANGED <<config, unit, truncated>>

Reject == at = "start" /\ (NothingToDo \/ Refused) /\ Exit(1) /\ UNCHANGED <<ret, status, files>>
LinkOnly ==
  /\ at = "start" /\ config.inputs = << >> /\ ~NothingToDo
  /\ \E code \in Codes :
       /\ files' \in After(code, FinalProduct, Made("program", << >>, TRUE))
       /\ Exit(code) /\ status' = code
  /\ UNCHANGED ret
Start ==
  /\ at = "start" /\ config.inputs # << >> /\ ~Refused
  /\ Go("read") /\ Quiet /\ UNCHANGED files

(***************************************************************************)
(* driver_run.                                                              *)
(***************************************************************************)
ReadSource ==
  /\ at = "read"
  /\ \E fails \in May("read") :
       IF fails THEN Return(1) ELSE Go(IF Mode = "preprocess" THEN "preprocess" ELSE "parse") /\ UNCHANGED ret
  /\ UNCHANGED <<status, files>>

Preprocess ==
  /\ at = "preprocess"
  /\ IF Output = NoFile THEN \E fails \in May("source") : Return(IF fails THEN 1 ELSE 0) /\ UNCHANGED files
     ELSE \/ "create" \in Failures /\ Return(1) /\ UNCHANGED files
          \/ \E fails \in May("source"), short \in May("disk full") :
               /\ Write(Output, Made("text", <<unit>>, ~(fails \/ short)))
               /\ Return(IF fails \/ short THEN 1 ELSE 0)
  /\ UNCHANGED status

Parse ==
  /\ at = "parse"
  /\ \E errors \in May("source") :
       IF errors THEN Return(1)
       ELSE IF Mode = "ast" THEN Return(0) ELSE Go("analyze") /\ UNCHANGED ret
  /\ UNCHANGED <<status, files>>
Analyze ==
  /\ at = "analyze"
  /\ \E errors \in May("source") : IF errors THEN Return(1) ELSE Go("lower") /\ UNCHANGED ret
  /\ UNCHANGED <<status, files>>
\* Mutant: the output is opened before the errors are counted.
LowerOpening ==
  /\ at = "lower"
  /\ \E errors \in May("source") :
       IF errors THEN Return(1)
       ELSE IF Mode = "ir" THEN Return(0) ELSE Go("open") /\ UNCHANGED ret
  /\ Write(AssemblyFile, Torn("assembly")) /\ UNCHANGED status
Lower ==
  /\ at = "lower"
  /\ \E errors \in May("source") :
       IF errors THEN Return(1)
       ELSE IF Mode = "ir" THEN Return(0) ELSE Go("open") /\ UNCHANGED ret
  /\ UNCHANGED <<status, files>>

OpenAssembly ==
  /\ at = "open"
  /\ \/ "create" \in Failures /\ Return(1) /\ UNCHANGED files
     \/ Write(AssemblyFile, Torn("assembly")) /\ Go("emit") /\ UNCHANGED ret
  /\ UNCHANGED status

(* Neither the writing nor the closing is asked whether it failed.          *)
EmitAssembly ==
  /\ at = "emit"
  /\ \E short \in May("disk full") :
       /\ Write(AssemblyFile, Made("assembly", <<unit>>, ~short))
       /\ truncated' = (truncated \/ short)
  /\ at' = CASE Mode = "assembly" -> "dependencies" [] Mode = "object" -> "assemble" [] OTHER -> "link"
  /\ UNCHANGED <<config, unit, exit, ret, status>>

\* Mutant: the dependencies are written whether or not there is an object.
AssembleAnyway ==
  /\ at = "assemble"
  /\ \E code \in Codes :
       /\ files' \in After(code, Output, Made("object", <<unit>>, files[AssemblyFile].whole))
       /\ Go("dependencies") /\ status' = code /\ ret' = code
Assemble ==
  /\ at = "assemble"
  /\ \E code \in Codes :
       /\ files' \in After(code, Output, Made("object", <<unit>>, files[AssemblyFile].whole))
       /\ Go(IF code = 0 THEN "dependencies" ELSE "discard")
       /\ status' = code /\ ret' = code

Discard ==
  /\ at = "discard"
  /\ files' = Unlinked(files, {TempAssembly})
  /\ Return(ret) /\ UNCHANGED status

\* Mutant: what the linker returns is not kept.
LinkForgiving ==
  /\ at = "link"
  /\ \E code \in Codes :
       \E after \in After(code, Product, Made("program", <<unit>>, files[AssemblyFile].whole)) :
         /\ files' = Unlinked(after, {TempAssembly} \cup (IF code = 0 THEN {} ELSE {TempProgram}))
         /\ Go(IF code = 0 THEN "dependencies" ELSE "return")
         /\ status' = code /\ UNCHANGED ret
Link ==
  /\ at = "link"
  /\ \E code \in Codes :
       \E after \in After(code, Product, Made("program", <<unit>>, files[AssemblyFile].whole)) :
         /\ files' = Unlinked(after, {TempAssembly} \cup (IF code = 0 THEN {} ELSE {TempProgram}))
         /\ Go(IF code = 0 THEN "dependencies" ELSE "return")
         /\ status' = code /\ ret' = code

(* emit_dependency_file.  That it could not write is no failure.            *)
Dependencies ==
  /\ at = "dependencies"
  /\ \E fails \in May("dependencies") :
       IF WantsDeps /\ ~fails THEN Write(DepFile, Made("dependencies", <<unit>>, TRUE))
       ELSE UNCHANGED files
  /\ Go(CASE Mode = "object" -> "discard" [] Mode = "run" -> "run" [] OTHER -> "return")
  /\ Quiet

RunProgram ==
  /\ at = "run"
  /\ \E code \in {0, 1, Signalled} : status' = code /\ Return(code)
  /\ files' = Unlinked(files, {TempProgram})

(* The ends of the process inside driver_run: too many headers or macros    *)
(* one in another, while tokens are read; no memory for the arena, which    *)
(* everything up to the assembly is made in.  exit writes out and closes    *)
(* what is open and removes nothing.                                        *)
StopsAt(f) ==
  CASE f = "limit" -> {"preprocess", "parse"}
    [] f = "memory" -> {"read", "preprocess", "parse", "analyze", "lower", "emit"}
    [] OTHER -> {}
Stop ==
  /\ \E f \in Failures : at \in StopsAt(f)
  /\ at' = "stopped" /\ exit' = 1
  /\ IF at = "preprocess" /\ Output # NoFile THEN Write(Output, Made("text", <<unit>>, FALSE))
     ELSE UNCHANGED files
  /\ UNCHANGED <<config, unit, truncated, ret, status>>

(***************************************************************************)
(* driver_run_many after each source and after the last.                    *)
(***************************************************************************)
Objects(n) == {TempObject(k) : k \in 1..n}

SingleReturned ==
  /\ at = "return" /\ ~Several
  /\ Exit(ret) /\ Quiet /\ UNCHANGED files
\* Mutant: the objects made so far stay.
UnitFailedUntidy ==
  /\ at = "return" /\ Several /\ ret # 0
  /\ Exit(ret) /\ Quiet /\ UNCHANGED files
UnitFailed ==
  /\ at = "return" /\ Several /\ ret # 0
  /\ files' = Unlinked(files, IF config.mode = "object" THEN {} ELSE Objects(unit - 1))
  /\ Exit(ret) /\ Quiet
NextUnit ==
  /\ at = "return" /\ Several /\ ret = 0 /\ unit < Len(config.inputs)
  /\ at' = "read" /\ unit' = unit + 1
  /\ UNCHANGED <<config, exit, truncated, ret, status, files>>
LastUnit ==
  /\ at = "return" /\ Several /\ ret = 0 /\ unit = Len(config.inputs)
  /\ IF config.mode = "object" THEN Exit(0) ELSE Go("link objects")
  /\ Quiet /\ UNCHANGED files
LinkObjects ==
  /\ at = "link objects"
  /\ LET program == Made("program", FlattenSeq([k \in Units |-> files[TempObject(k)].from]),
                          \A k \in Units : files[TempObject(k)].whole)
     IN  \E code \in Codes :
           \E after \in After(code, FinalProduct, program) :
             /\ files' = Unlinked(after, Objects(Len(config.inputs)))
             /\ Exit(code) /\ status' = code
  /\ UNCHANGED ret

DriverNext ==
  \/ Reject \/ LinkOnly \/ Start \/ ReadSource \/ Preprocess \/ Parse \/ Analyze \/ Lower
  \/ OpenAssembly \/ EmitAssembly \/ Assemble \/ Discard \/ Link \/ Dependencies
  \/ RunProgram \/ Stop \/ SingleReturned \/ UnitFailed \/ NextUnit \/ LastUnit \/ LinkObjects

DriverSpec == DriverInit /\ [][DriverNext]_driverVars

-----------------------------------------------------------------------------
Done == exit # Running
Fresh(n) == files[n].kind \notin {"absent", "old"}
FromThisRun(n, from) == Fresh(n) /\ files[n].from = from

(* What the command line asks for: files, and what each is made from.  Of   *)
(* sources with one object name, the last.                                  *)
SameObject(k) == {j \in Units : ObjectName(config.inputs[j]) = ObjectName(config.inputs[k])}
AllUnits == [k \in Units |-> k]
AskedFor ==
  IF config.inputs = << >> THEN IF NothingToDo THEN {} ELSE { <<FinalProduct, << >> >> }
  ELSE IF Several THEN
    IF config.mode = "object"
    THEN { <<ObjectName(config.inputs[k]),
             <<CHOOSE j \in SameObject(k) : \A i \in SameObject(k) : i <= j>> >> : k \in Units }
    ELSE { <<FinalProduct, AllUnits>> }
  ELSE CASE config.mode = "link" -> { <<FinalProduct, AllUnits>> }
         [] config.mode \in {"object", "assembly"} -> { <<Output, <<unit>> >> }
         [] config.mode = "preprocess" /\ Output # NoFile -> { <<Output, <<unit>> >> }
         [] OTHER -> {}

(* make and every other caller go by the exit code: after 0, each file asked*)
(* for is made from just its own sources and whole, unless the disk was full*)
(* when the assembly was written, which nobody notices; after a failure,    *)
(* they are not all there; and the exit code of the tool that failed, or of *)
(* the script (README.md:266), is the compiler's (driver.c:334-536,         *)
(* 547-607).                                                                *)
ExitTellsTheTruth ==
  Done =>
    /\ status # 0 => exit = status
    /\ exit = 0 => \A p \in AskedFor : FromThisRun(p[1], p[2]) /\ (files[p[1]].whole \/ truncated)
    /\ exit # 0 /\ AskedFor # {} =>
         \E p \in AskedFor : ~(FromThisRun(p[1], p[2]) /\ files[p[1]].whole)

(* When driver_run_many returns the files in /tmp are gone, but for an      *)
(* object whose assembler was killed: it only removes the objects of the    *)
(* sources before (driver.c:464-536, 594-606).  Where the process ends      *)
(* before that (diag.c:171-173, arena.c:12-28), nothing is there but the    *)
(* objects of the sources before, when they were to be linked, and what     *)
(* there is of the assembly it was writing.                                 *)
NothingLeftBehind ==
  Done => \A t \in Temporaries :
            \/ files[t] = Absent
            \/ t = TempObject(unit) /\ ~files[t].whole /\ status = Signalled
            \/ /\ at = "stopped"
               /\ \/ t = TempAssembly /\ files[t] = Torn("assembly")
                  \/ /\ Several /\ config.mode = "link"
                     /\ \E k \in 1..(unit - 1) : t = TempObject(k) /\ FromThisRun(t, <<k>>)

(* The linker is given one object for each source, in the order of the      *)
(* command line, whatever their names have in common (driver.c:584-603).    *)
EachItsOwnObject ==
  at = "link objects" =>
    \A k \in Units : FromThisRun(TempObject(k), <<k>>)

(* A dependency file never appears beside a product that is not from this   *)
(* run: make would take the old one for up to date (driver.c:446-511).      *)
DependenciesFollowProduct ==
  (config.mode \in {"object", "link"} /\ Done) =>
    \A k \in Units :
      (SameObject(k) = {k} /\ \E n \in Names : FromThisRun(n, <<k>>)
                                           /\ files[n].kind = "dependencies") =>
        \E n \in Names : FromThisRun(n, <<k>>)
                           /\ files[n].kind \in {"object", "program"} /\ (files[n].whole \/ truncated)

(* A source with errors, fatal ones included, leaves every file as it was,  *)
(* but for what the sources before it made (driver.c:342-438); so does      *)
(* memory that runs out, but for the assembly it was writing.               *)
ErrorsTouchNothing ==
  (Done /\ exit # 0 /\ status = 0 /\ config.mode # "preprocess") =>
    \A n \in Names : Fresh(n) =>
      \/ \E k \in 1..(unit - 1) : files[n].from = <<k>>
      \/ at = "stopped" /\ n = AssemblyFile /\ files[n] = Torn("assembly")

(* README.md:267, 284: -MMD generates a makefile dependency file (.d): for  *)
(* each source, when the compiler succeeds.                                 *)
DependenciesGenerated ==
  (Done /\ exit = 0 /\ config.deps) =>
    \A k \in Units : \E n \in Names :
      FromThisRun(n, <<k>>) /\ files[n].kind = "dependencies"
=============================================================================
