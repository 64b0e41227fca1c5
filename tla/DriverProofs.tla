---------------------------- MODULE DriverProofs ----------------------------
(***************************************************************************)
(* Proofs about the driver, for any command lines, any number of sources   *)
(* and whatever fails.                                                     *)
(***************************************************************************)
EXTENDS Driver, SequenceTheorems, WellFoundedInduction, TLAPS

USE DEF driverVars

Stages ==
  {"start", "read", "preprocess", "parse", "analyze", "lower", "open", "emit", "assemble",
   "discard", "link", "dependencies", "run", "return", "link objects", "exit", "stopped"}

DriverTyping ==
  /\ config \in Configs /\ at \in Stages
  /\ unit \in Nat /\ (IF config.inputs = << >> THEN unit = 1 ELSE unit \in Units)
  /\ ret \in {0, 1, Signalled} /\ status \in {0, 1, Signalled}
  /\ exit \in {Running, 0, 1, Signalled}
  /\ DOMAIN files = Names /\ truncated \in BOOLEAN

(* Each stage is come to in its modes only.                                *)
Route ==
  /\ at \notin {"start", "exit"} => config.inputs # << >> /\ ~Refused
  /\ at = "preprocess" => Mode = "preprocess"
  /\ at = "parse" => Mode # "preprocess"
  /\ at \in {"analyze", "lower"} => Mode \notin {"preprocess", "ast"}
  /\ at \in {"open", "emit"} => Mode \in {"assembly", "object", "run", "link"}
  /\ at \in {"assemble", "discard"} => Mode = "object"
  /\ at = "link" => Mode \in {"run", "link"}
  /\ at = "dependencies" => Mode \in {"assembly", "object", "run", "link"}
  /\ at = "run" => Mode = "run"
  /\ at = "link objects" => Several /\ config.mode = "link" /\ unit = Len(config.inputs)
  /\ at = "exit" /\ exit = 0 /\ Several => config.mode \in {"object", "link"}

(* What is returned is the status of the child that failed, if one did.    *)
ReturnCodes ==
  /\ at \notin {"discard", "return", "exit"} => ret = 0 /\ status = 0
  /\ at \in {"discard", "return"} => status \in {0, ret}
  /\ exit # Running <=> at \in {"exit", "stopped"}
  /\ at = "stopped" => exit = 1
  /\ at = "exit" => status \in {0, exit}
  /\ at = "exit" /\ exit = 0 /\ config.inputs # << >> => unit = Len(config.inputs)

Failed ==
  (at \in {"discard", "return"} /\ ret # 0) \/ (at = "exit" /\ exit # 0) \/ at = "stopped"

(* The sources whose product has been made.                                *)
Finished ==
  IF \/ at \in {"dependencies", "discard", "return", "run"} /\ ret = 0
     \/ at = "link objects"
     \/ at = "exit" /\ exit = 0
     \/ at = "exit" /\ Several /\ config.mode = "link" /\ status # 0
  THEN unit ELSE unit - 1
Reached == IF Failed THEN unit ELSE Finished

(* The temporaries that may be there while a source is compiled.           *)
Debris ==
  (IF \/ at \in {"emit", "assemble", "link"} /\ Mode # "assembly"
      \/ at \in {"dependencies", "discard"} /\ Mode = "object"
   THEN {TempAssembly} ELSE {})
  \cup (IF at \in {"dependencies", "run"} /\ Mode = "run" THEN {TempProgram} ELSE {})
  \cup (IF Several /\ config.mode = "link" /\ at \notin {"start", "exit"}
        THEN Objects(Finished) ELSE {})
CutShort(t) == t = TempObject(unit) /\ ~files[t].whole /\ status = Signalled
BrokenOff(n) == at = "stopped" /\ n = AssemblyFile /\ files[n] = Torn("assembly")
Tidy ==
  \A t \in Temporaries \ Debris :
    files[t] = Absent \/ (at \in {"discard", "return", "exit"} /\ CutShort(t)) \/ BrokenOff(t)

(* The assembly is empty until it is written.                              *)
Emptied == at = "emit" => files[AssemblyFile] = Torn("assembly")

(* What is new is made from a source whose product was made; or it is the  *)
(* assembly of the source under way; or half made by what failed; or, of a *)
(* script, what was made before it ran.                                    *)
Explained(n) ==
  \/ \E k \in 1..Finished : files[n].from = <<k>>
  \/ n = AssemblyFile /\ at \in {"emit", "assemble", "link", "discard"}
  \/ BrokenOff(n)
  \/ Failed /\ ~files[n].whole /\ (status # 0 \/ Mode = "preprocess")
  \/ Failed /\ status # 0 /\ config.mode = "run" /\ ~Several /\ config.inputs # << >>
  \/ at = "exit" /\ exit = 0
Provenance == \A n \in Names : Fresh(n) => Explained(n)

Good(n, kind, k) == FromThisRun(n, <<k>>) /\ files[n].kind = kind /\ (files[n].whole \/ truncated)

AssemblyGood ==
  at \in {"assemble", "link"} =>
    FromThisRun(AssemblyFile, <<unit>>) /\ (files[AssemblyFile].whole \/ truncated)

(* Each temporary object waits for the linker.                             *)
ObjectsWait ==
  Several /\ config.mode = "link" /\ at # "exit" =>
    \A k \in 1..Finished : Good(TempObject(k), "object", k)

(* An object file is that of the last source of its name so far.           *)
ObjectsKept ==
  Several /\ config.mode = "object" =>
    \A j \in 1..Finished : (\A i \in SameObject(j) \cap 1..Reached : i <= j) =>
      Good(ObjectName(config.inputs[j]), "object", j)

(* What is made of a single source.                                        *)
SingleMade ==
  ~Several /\ config.inputs # << >> /\ Finished = unit =>
    /\ config.mode = "link" => Good(FinalProduct, "program", unit)
    /\ config.mode = "object" => Good(Output, "object", unit)
    /\ config.mode = "assembly" => Good(Output, "assembly", unit)
    /\ config.mode = "preprocess" /\ Output # NoFile => Good(Output, "text", unit)

Linked ==
  at = "exit" /\ exit = 0 /\ (config.inputs = << >> \/ (Several /\ config.mode = "link")) =>
    /\ FromThisRun(FinalProduct, AllUnits)
    /\ files[FinalProduct].whole \/ truncated

(* Dependencies are those of sources whose product was made.               *)
DependenciesBehind ==
  config.mode \in {"object", "link"} =>
    \A n \in Names : files[n].kind = "dependencies" =>
      (Several => config.mode = "object") /\ \E k \in 1..Finished : files[n].from = <<k>>

-----------------------------------------------------------------------------
(* A name the driver makes in /tmp is not a name it was given.             *)
LEMMA NamesApart ==
  /\ ~IsName(TempAssembly) /\ ~IsName(TempProgram)
  /\ \A k : ~IsName(TempObject(k)) /\ ~IsName(TempObjectByStem(k))
  /\ TempAssembly # TempProgram
  /\ \A k : TempObject(k) # TempAssembly /\ TempObject(k) # TempProgram
  /\ \A j, k : j # k => TempObject(j) # TempObject(k)
  BY DEF TempAssembly, TempProgram, TempObject, TempObjectByStem, IsName

(* The names the driver derives from names.                                *)
LEMMA NamesDerived ==
  /\ IsName(AOut) /\ AOut[3] # "d"
  /\ \A s :
       /\ IsName(ObjectName(s)) /\ IsName(AssemblyName(s)) /\ IsName(WithSuffix(s, "d"))
       /\ WithSuffix(s, "d")[3] = "d" /\ ObjectName(s)[3] # "d" /\ AssemblyName(s)[3] # "d"
       /\ WithSuffix(AssemblyName(s), "d") = WithSuffix(ObjectName(s), "d")
  BY DEF AOut, IsName, ObjectName, AssemblyName, WithSuffix

(* What a command line is.                                                 *)
LEMMA OfConfig ==
  ASSUME config \in Configs
  PROVE  /\ config.mode \in Modes /\ config.deps \in BOOLEAN
         /\ Len(config.inputs) \in Nat /\ Units = 1..Len(config.inputs)
         /\ (config.inputs = << >>) <=> (Len(config.inputs) = 0)
         /\ \A k \in Units : IsName(config.inputs[k])
         /\ config.output # NoFile => IsName(config.output) /\ config.output[3] # "d"
         /\ config.depFile # NoFile =>
              /\ IsName(config.depFile) /\ config.depFile # AOut /\ config.depFile # config.output
              /\ \A k \in Units :
                   /\ config.depFile # ObjectName(config.inputs[k])
                   /\ config.depFile # AssemblyName(config.inputs[k])
<1> DEFINE c == config
<1>1. /\ c.mode \in Modes /\ c.deps \in BOOLEAN
      /\ Len(c.inputs) \in Nat /\ c.inputs = [k \in 1..Len(c.inputs) |-> c.inputs[k]]
      /\ \A k \in DOMAIN c.inputs : IsName(c.inputs[k])
  BY ConfigsAssumption
<1>2. /\ c.output # NoFile => IsName(c.output) /\ c.output[3] # "d"
      /\ c.depFile # NoFile =>
           /\ IsName(c.depFile) /\ c.depFile # AOut /\ c.depFile # c.output
           /\ \A k \in DOMAIN c.inputs :
                c.depFile # ObjectName(c.inputs[k]) /\ c.depFile # AssemblyName(c.inputs[k])
  BY ConfigsAssumption
<1>3. DOMAIN c.inputs = 1..Len(c.inputs)
  BY <1>1
<1>4. (c.inputs = << >>) <=> (Len(c.inputs) = 0)
  <2>1. Len(c.inputs) = 0 => DOMAIN c.inputs = {}
    BY <1>3
  <2>2. DOMAIN c.inputs = {} => c.inputs = << >>
    BY <1>1, <1>3
  <2>3. Len(<< >>) = 0
    OBVIOUS
  <2>4. QED
    BY <2>1, <2>2, <2>3
<1>5. QED
  BY <1>1, <1>2, <1>3, <1>4 DEF Units

(* What a step leaves of the command line and the source leaves the names. *)
LEMMA SameNames ==
  ASSUME config' = config
  PROVE  /\ Units' = Units /\ Names' = Names /\ Temporaries' = Temporaries
         /\ FinalProduct' = FinalProduct /\ AllUnits' = AllUnits
         /\ \A k : SameObject(k)' = SameObject(k)
BY DEF Units, Names, Temporaries, TempObjectByStem, FinalProduct, AllUnits, SameObject

(* What depends on the command line and the source alone stays while they   *)
(* do (driver.c:555-590).                                                   *)
LEMMA SameUnit ==
  ASSUME config' = config, unit' = unit
  PROVE  /\ Source' = Source /\ Output' = Output /\ Mode' = Mode /\ Several' = Several
         /\ AssemblyFile' = AssemblyFile /\ Refused' = Refused
BY DEF Source, Output, Mode, Several, AssemblyFile, Refused

(* Where each product goes.                                                *)
LEMMA Products ==
  ASSUME DriverTyping, config.inputs # << >>
  PROVE  /\ unit \in Units /\ unit \in 1..Len(config.inputs)
         /\ IsName(Source)
         /\ Several => Mode = "object"
         /\ ~Several => Mode = config.mode /\ unit = 1 /\ Len(config.inputs) = 1
         /\ Several /\ config.mode = "object" => Output = ObjectName(Source)
         /\ Several /\ config.mode # "object" => Output = TempObject(unit)
         /\ ~Several /\ config.output # NoFile => Output = config.output
         /\ ~Several /\ config.output = NoFile =>
              /\ config.mode = "object" => Output = ObjectName(Source)
              /\ config.mode = "assembly" => Output = AssemblyName(Source)
              /\ config.mode \notin {"object", "assembly"} => Output = NoFile
         /\ Mode = "link" => Product = FinalProduct
         /\ Mode = "run" => Product = TempProgram
         /\ FinalProduct \in Names /\ IsName(FinalProduct)
<1>1. unit \in Units /\ Units = 1..Len(config.inputs) /\ Len(config.inputs) \in Nat /\ config.mode \in Modes
  BY OfConfig DEF DriverTyping
<1>2. IsName(Source)
  BY <1>1, OfConfig DEF Source, DriverTyping
<1>3. /\ Several => Mode = "object"
      /\ ~Several => Mode = config.mode /\ unit = 1 /\ Len(config.inputs) = 1
  <2>1. Several <=> Len(config.inputs) > 1
    BY DEF Several
  <2>2. (Several => Mode = "object") /\ (~Several => Mode = config.mode)
    BY DEF Mode
  <2>3. unit \in 1..Len(config.inputs)
    BY <1>1
  <2>4. ~Several => unit = 1 /\ Len(config.inputs) = 1
    <3> DEFINE n == Len(config.inputs)
    <3>1. unit \in 1..n /\ n \in Nat
      BY <1>1, <2>3
    <3> HIDE DEF n
    <3>2. ~(n > 1) => unit = 1 /\ n = 1
      BY <3>1
    <3>3. QED
      BY <2>1, <3>2 DEF n
  <2>5. QED
    BY <2>2, <2>4
<1>4. /\ Several /\ config.mode = "object" => Output = ObjectName(Source)
      /\ Several /\ config.mode # "object" => Output = TempObject(unit)
  BY DEF Output
<1>5. ~Several => /\ config.output # NoFile => Output = config.output
                  /\ config.output = NoFile =>
                       /\ config.mode = "object" => Output = ObjectName(Source)
                       /\ config.mode = "assembly" => Output = AssemblyName(Source)
                       /\ config.mode \notin {"object", "assembly"} => Output = NoFile
  BY <1>3 DEF Output
<1>6. Mode = "run" => Product = TempProgram
  BY DEF Product
<1>7. Mode = "link" => Product = FinalProduct
  BY <1>3, <1>5 DEF Product, FinalProduct
<1>8. FinalProduct \in Names /\ IsName(FinalProduct)
  BY OfConfig, NamesDerived DEF DriverTyping, FinalProduct, Names
<1>9. QED
  BY <1>1, <1>2, <1>3, <1>4, <1>5, <1>6, <1>7, <1>8

(* What is written has a name among those of the run; only temporaries are *)
(* without a name of three parts.                                          *)
LEMMA Written ==
  ASSUME DriverTyping, config.inputs # << >>
  PROVE  /\ ObjectName(Source) \in Names /\ AssemblyName(Source) \in Names
         /\ TempAssembly \in Names /\ TempProgram \in Names /\ TempObject(unit) \in Names
         /\ AssemblyFile \in Names
         /\ Mode = "assembly" => Output \in Names /\ IsName(Output) /\ AssemblyFile = Output
         /\ Mode = "preprocess" /\ Output # NoFile => Output \in Names /\ IsName(Output)
         /\ Mode # "assembly" => AssemblyFile = TempAssembly
         /\ Mode = "object" => Output \in Names
         /\ Mode \in {"run", "link"} => Product \in Names
<1>1. /\ ObjectName(Source) \in Names /\ AssemblyName(Source) \in Names
  <2>1. Source \in ToSet(config.inputs)
    BY Products DEF Source, ToSet, Units
  <2>2. QED
    BY <2>1 DEF Names
<1>2. TempAssembly \in Names /\ TempProgram \in Names /\ TempObject(unit) \in Names
  BY Products DEF Names, Temporaries
<1>3. Mode = "assembly" => Output \in Names /\ IsName(Output) /\ AssemblyFile = Output
  <2>1. config.output \in Names
    BY DEF Names
  <2>2. QED
    BY <1>1, <2>1, Products, OfConfig, NamesDerived DEF AssemblyFile, DriverTyping
<1>4. Mode = "preprocess" /\ Output # NoFile => Output \in Names /\ IsName(Output)
  <2>1. config.output \in Names
    BY DEF Names
  <2>2. QED
    BY <2>1, Products, OfConfig DEF DriverTyping
<1>5. Mode # "assembly" => AssemblyFile = TempAssembly
  BY DEF AssemblyFile
<1>6. Mode = "object" => Output \in Names
  <2>1. config.output \in Names
    BY DEF Names
  <2>2. QED
    BY <1>1, <1>2, <2>1, Products
<1>7. Mode \in {"run", "link"} => Product \in Names
  BY <1>2, Products
<1>8. QED
  BY <1>1, <1>2, <1>3, <1>4, <1>5, <1>6, <1>7

(* A dependency file is neither a temporary nor a product.                 *)
LEMMA DepFileApart ==
  ASSUME DriverTyping, config.inputs # << >>, WantsDeps
  PROVE  /\ DepFile \in Names /\ IsName(DepFile) /\ DepFile # FinalProduct
         /\ \A k \in Units : DepFile # ObjectName(config.inputs[k])
         /\ Mode \in {"object", "assembly"} => DepFile # Output
<1>1. CASE config.depFile # NoFile
  <2>1. DepFile = config.depFile
    BY <1>1 DEF DepFile
  <2>2. DepFile \in Names
    BY <2>1 DEF Names
  <2>3. /\ IsName(DepFile) /\ DepFile # AOut /\ DepFile # config.output
        /\ \A k \in Units : DepFile # ObjectName(config.inputs[k]) /\ DepFile # AssemblyName(config.inputs[k])
    BY <1>1, <2>1, OfConfig DEF DriverTyping
  <2>4. DepFile # ObjectName(Source) /\ DepFile # AssemblyName(Source)
    BY <2>3, Products DEF Source
  <2>5. Mode \in {"object", "assembly"} => DepFile # Output
    BY <2>3, <2>4, Products DEF WantsDeps
  <2>6. QED
    BY <2>2, <2>3, <2>5 DEF FinalProduct
<1>2. CASE config.depFile = NoFile
  <2>1. Source \in ToSet(config.inputs)
    BY Products DEF Source, ToSet, Units
  <2>2. /\ WithSuffix(Source, "d") \in Names /\ WithSuffix(ObjectName(Source), "d") \in Names
        /\ config.output # NoFile => WithSuffix(config.output, "d") \in Names
    BY <2>1 DEF Names
  <2>3. /\ DepFile \in Names
        /\ \E s : DepFile = WithSuffix(s, "d")
    BY <1>2, <2>2, Products, NamesDerived, OfConfig DEF DepFile, WantsDeps, DriverTyping, Modes
  <2>4. IsName(DepFile) /\ DepFile[3] = "d"
    BY <2>3, NamesDerived
  <2>5. FinalProduct[3] # "d" /\ \A s : ObjectName(s)[3] # "d" /\ AssemblyName(s)[3] # "d"
    BY NamesDerived, OfConfig DEF FinalProduct, DriverTyping
  <2>6. Mode \in {"object", "assembly"} => DepFile # Output
    BY <2>4, <2>5, Products, OfConfig DEF WantsDeps, DriverTyping
  <2>7. QED
    BY <2>3, <2>4, <2>5, <2>6
<1>3. QED
  BY <1>1, <1>2

-----------------------------------------------------------------------------
(* What becomes of the files: one is written,                              *)
LEMMA Writing ==
  ASSUME NEW n, NEW c, Write(n, c)
  PROVE  /\ DOMAIN files' = DOMAIN files
         /\ \A m \in DOMAIN files : files'[m] = IF m = n THEN c ELSE files[m]
BY DEF Write

(* some are removed,                                                       *)
LEMMA Unlinking ==
  ASSUME NEW fs, NEW S
  PROVE  /\ DOMAIN Unlinked(fs, S) = DOMAIN fs
         /\ \A m \in DOMAIN fs : Unlinked(fs, S)[m] = IF m \in S THEN Absent ELSE fs[m]
BY DEF Unlinked

(* or a tool makes one, or fails to.                                       *)
LEMMA Making ==
  ASSUME NEW code \in Codes, NEW n, NEW c, NEW after \in After(code, n, c)
  PROVE  /\ code \in {0, 1, Signalled} /\ DOMAIN after = DOMAIN files
         /\ \A m \in DOMAIN files : m # n => after[m] = files[m]
         /\ n \in DOMAIN files =>
              /\ code = 0 => after[n] = c
              /\ code = 1 => after[n] \in {files[n], Absent}
              /\ code = Signalled => after[n] \in {files[n], Torn(c.kind)}
<1>1. code \in {0, 1, Signalled}
  BY DEF Codes
<1>2. CASE code = 0
  BY <1>2 DEF After, Signalled
<1>3. CASE code = 1
  BY <1>3 DEF After, Signalled
<1>4. CASE code = Signalled
  BY <1>4 DEF After, Signalled
<1>5. QED
  BY <1>1, <1>2, <1>3, <1>4

-----------------------------------------------------------------------------
Control == DriverTyping /\ Route /\ ReturnCodes

(* A step that leaves the source and moves on, files aside.                *)
LEMMA Moved ==
  ASSUME Control, config' = config, DOMAIN files' = DOMAIN files, truncated' \in BOOLEAN,
         unit' = unit
  PROVE  /\ Units' = Units /\ DOMAIN files' = Names' /\ config' \in Configs
         /\ Mode' = Mode /\ Several' = Several /\ Refused' = Refused
         /\ unit \in Nat /\ (IF config.inputs = << >> THEN unit = 1 ELSE unit \in Units)
         /\ ret \in {0, 1, Signalled} /\ status \in {0, 1, Signalled} /\ exit \in {Running, 0, 1, Signalled}
  BY SameNames, SameUnit DEF Control, DriverTyping

(* And types stay right, if the new values are of their types.              *)
LEMMA Typed ==
  ASSUME Control, config' = config, DOMAIN files' = DOMAIN files, truncated' \in BOOLEAN,
         unit' = unit, at' \in Stages, ret' \in {0, 1, Signalled}, status' \in {0, 1, Signalled},
         exit' \in {Running, 0, 1, Signalled}
  PROVE  DriverTyping'
  BY Moved DEF DriverTyping

(* The stages before a file is opened: each goes on, is done, or fails.    *)
FilesAside == UNCHANGED <<config, unit, exit, status, files, truncated>>
GoesOn ==
  /\ FilesAside /\ ret' = ret
  /\ \/ at = "start" /\ at' = "read" /\ config.inputs # << >> /\ ~Refused
     \/ at = "read" /\ at' = "preprocess" /\ Mode = "preprocess"
     \/ at = "read" /\ at' = "parse" /\ Mode # "preprocess"
     \/ at = "parse" /\ at' = "analyze" /\ Mode # "ast"
     \/ at = "analyze" /\ at' = "lower"
     \/ at = "lower" /\ at' = "open" /\ Mode # "ir"
IsDone ==
  /\ FilesAside /\ ret' = 0 /\ at' = "return"
  /\ \/ at = "preprocess" /\ Output = NoFile
     \/ at = "parse" /\ Mode = "ast"
     \/ at = "lower" /\ Mode = "ir"
Fails ==
  /\ FilesAside /\ ret' = 1 /\ at' = "return"
  /\ at \in {"read", "preprocess", "parse", "analyze", "lower", "open"}
Early == GoesOn \/ IsDone \/ Fails

(* Reading, parsing, analysis and lowering are such stages                  *)
(* (driver.c:239-413).                                                      *)
LEMMA EarlyStages ==
  /\ Start => Early
  /\ ReadSource => Early
  /\ Parse => Early
  /\ Analyze => Early
  /\ Lower => Early
<1>1. Start => Early
  BY DEF Start, Go, Quiet, Early, GoesOn, FilesAside
<1>2. ReadSource => Early
  BY DEF ReadSource, Go, Return, Early, GoesOn, Fails, FilesAside
<1>3. Parse => Early
  BY DEF Parse, Go, Return, Early, GoesOn, IsDone, Fails, FilesAside
<1>4. Analyze => Early
  BY DEF Analyze, Go, Return, Early, GoesOn, Fails, FilesAside
<1>5. Lower => Early
  BY DEF Lower, Go, Return, Early, GoesOn, IsDone, Fails, FilesAside
<1>6. QED
  BY <1>1, <1>2, <1>3, <1>4, <1>5

(* What each later stage does to the files and to what is returned.        *)
Same == UNCHANGED <<config, unit, exit, truncated>>

(* Preprocessing writes the text it was asked for, whole or not             *)
(* (driver.c:203-237).                                                      *)
LEMMA PreprocessDoes ==
  ASSUME Preprocess
  PROVE  \/ IsDone \/ Fails
         \/ /\ at = "preprocess" /\ at' = "return" /\ Same /\ status' = status /\ Output # NoFile
            /\ \E whole \in BOOLEAN :
                 Write(Output, Made("text", <<unit>>, whole)) /\ ret' = IF whole THEN 0 ELSE 1
<1>1. CASE Output = NoFile
  BY <1>1 DEF Preprocess, IsDone, Fails, FilesAside, Return, Go
<1>2. CASE Output # NoFile
  <2>1. \/ Return(1) /\ UNCHANGED files
        \/ \E fails \in May("source"), short \in May("disk full") :
              /\ Write(Output, Made("text", <<unit>>, ~(fails \/ short)))
              /\ Return(IF fails \/ short THEN 1 ELSE 0)
    BY <1>2 DEF Preprocess
  <2>2. at = "preprocess" /\ status' = status
    BY DEF Preprocess
  <2>3. CASE Return(1) /\ UNCHANGED files
    BY <2>2, <2>3 DEF Fails, FilesAside, Return, Go
  <2>4. ASSUME NEW fails \in May("source"), NEW short \in May("disk full"),
               Write(Output, Made("text", <<unit>>, ~(fails \/ short))),
               Return(IF fails \/ short THEN 1 ELSE 0)
        PROVE  /\ at' = "return" /\ Same
               /\ \E whole \in BOOLEAN :
                    Write(Output, Made("text", <<unit>>, whole)) /\ ret' = IF whole THEN 0 ELSE 1
    <3> DEFINE whole == ~(fails \/ short)
    <3>1. whole \in BOOLEAN /\ Write(Output, Made("text", <<unit>>, whole))
      BY <2>4
    <3>2. ret' = IF whole THEN 0 ELSE 1
      BY <2>4 DEF Return
    <3>3. at' = "return" /\ Same
      BY <2>4 DEF Return, Go, Same
    <3> HIDE DEF whole
    <3>4. QED
      BY <3>1, <3>2, <3>3
  <2>5. QED
    BY <1>2, <2>1, <2>2, <2>3, <2>4
<1>3. QED
  BY <1>1, <1>2

(* Opening the assembly empties it (driver.c:415-436).                      *)
LEMMA OpenDoes ==
  ASSUME OpenAssembly
  PROVE  \/ Fails
         \/ /\ at = "open" /\ at' = "emit" /\ Same /\ status' = status /\ ret' = ret
            /\ Write(AssemblyFile, Torn("assembly"))
  BY DEF OpenAssembly, Fails, FilesAside, Return, Go, Same

(* Code goes to the assembly, and what comes next depends on the mode       *)
(* (driver.c:438-456).                                                      *)
LEMMA EmitDoes ==
  ASSUME EmitAssembly
  PROVE  /\ at = "emit" /\ UNCHANGED <<config, unit, exit, ret, status>>
         /\ at' = CASE Mode = "assembly" -> "dependencies" [] Mode = "object" -> "assemble" [] OTHER -> "link"
         /\ \E short \in BOOLEAN :
              /\ Write(AssemblyFile, Made("assembly", <<unit>>, ~short))
              /\ truncated' = (truncated \/ short)
  BY DEF EmitAssembly, May

(* The assembler makes the object from the assembly, or fails               *)
(* (driver.c:458-473).                                                      *)
LEMMA AssembleDoes ==
  ASSUME Assemble
  PROVE  /\ at = "assemble" /\ Same
         /\ \E code \in Codes :
              /\ files' \in After(code, Output, Made("object", <<unit>>, files[AssemblyFile].whole))
              /\ at' = (IF code = 0 THEN "dependencies" ELSE "discard") /\ status' = code /\ ret' = code
  BY DEF Assemble, Go, Same

(* The temporary assembly is removed (driver.c:473-479).                    *)
LEMMA DiscardDoes ==
  ASSUME Discard
  PROVE  /\ at = "discard" /\ at' = "return" /\ Same /\ ret' = ret /\ status' = status
         /\ files' = Unlinked(files, {TempAssembly})
  BY DEF Discard, Return, Go, Same

(* A single source is linked, and the assembly removed whatever comes of it *)
(* (driver.c:481-509).                                                      *)
LEMMA LinkDoes ==
  ASSUME Link
  PROVE  /\ at = "link" /\ Same
         /\ \E code \in Codes :
              \E after \in After(code, Product, Made("program", <<unit>>, files[AssemblyFile].whole)) :
                /\ files' = Unlinked(after, {TempAssembly} \cup (IF code = 0 THEN {} ELSE {TempProgram}))
                /\ at' = (IF code = 0 THEN "dependencies" ELSE "return") /\ status' = code /\ ret' = code
  BY DEF Link, Go, Same

(* The dependency file is written when it was asked for (driver.c:152-199). *)
LEMMA DependenciesDoes ==
  ASSUME Dependencies
  PROVE  /\ at = "dependencies" /\ Same /\ ret' = ret /\ status' = status
         /\ at' = CASE Mode = "object" -> "discard" [] Mode = "run" -> "run" [] OTHER -> "return"
         /\ \/ files' = files
            \/ WantsDeps /\ Write(DepFile, Made("dependencies", <<unit>>, TRUE))
  BY DEF Dependencies, Go, Same, Quiet

(* A script runs, and its program is removed whatever comes of it           *)
(* (driver.c:511-536).                                                      *)
LEMMA RunDoes ==
  ASSUME RunProgram
  PROVE  /\ at = "run" /\ at' = "return" /\ Same
         /\ \E code \in {0, 1, Signalled} : status' = code /\ ret' = code
         /\ files' = Unlinked(files, {TempProgram})
  BY DEF RunProgram, Return, Go, Same

LinkedProgram ==
  Made("program", FlattenSeq([k \in Units |-> files[TempObject(k)].from]),
       \A k \in Units : files[TempObject(k)].whole)

(* The objects are linked and removed whatever comes of it                  *)
(* (driver.c:603-607).                                                      *)
LEMMA LinkObjectsDoes ==
  ASSUME LinkObjects
  PROVE  /\ at = "link objects" /\ at' = "exit" /\ UNCHANGED <<config, unit, truncated, ret>>
         /\ \E code \in Codes :
              \E after \in After(code, FinalProduct, LinkedProgram) :
                /\ files' = Unlinked(after, Objects(Len(config.inputs)))
                /\ exit' = code /\ status' = code
  BY DEF LinkObjects, LinkedProgram, Exit

(* The process may end wherever it reads, allocates or writes, and then only*)
(* the text that preprocessing had begun is left (diag.c:171-173,           *)
(* arena.c:12-28).                                                          *)
LEMMA StopDoes ==
  ASSUME Stop
  PROVE  /\ at \in {"read", "preprocess", "parse", "analyze", "lower", "emit"} /\ at' = "stopped"
         /\ exit' = 1 /\ UNCHANGED <<config, unit, truncated, ret, status>>
         /\ \/ files' = files
            \/ /\ at = "preprocess" /\ Output # NoFile
               /\ Write(Output, Made("text", <<unit>>, FALSE))
<1>1. PICK f \in Failures : at \in StopsAt(f)
  BY DEF Stop
<1>2. at \in {"read", "preprocess", "parse", "analyze", "lower", "emit"}
  BY <1>1 DEF StopsAt
<1>3. QED
  BY <1>2 DEF Stop

-----------------------------------------------------------------------------
(* Types, stages, units and exit codes are always as they should be         *)
(* (driver.c:547-607).                                                      *)
LEMMA ControlHolds == DriverSpec => []Control
<1>1. ASSUME DriverInit PROVE Control
  <2>1. config \in Configs /\ DOMAIN files = Names
    BY <1>1 DEF DriverInit
  <2>2. config.inputs # << >> => 1 \in Units
    BY <2>1, OfConfig
  <2>3. QED
    BY <1>1, <2>1, <2>2 DEF DriverInit, Control, DriverTyping, Route, ReturnCodes, Stages, Signalled, Running
<1>2. ASSUME Control, [DriverNext]_driverVars PROVE Control'
  <2> USE <1>2
  <2>0. /\ Route /\ ReturnCodes /\ DriverTyping /\ DOMAIN files = Names /\ truncated \in BOOLEAN
        /\ ret \in {0, 1, Signalled} /\ status \in {0, 1, Signalled} /\ exit \in {Running, 0, 1, Signalled}
    BY DEF Control, DriverTyping
  <2>a. config.mode \in Modes /\ Mode \in Modes
    BY <2>0, OfConfig DEF DriverTyping, Mode, Modes
  <2>1. CASE Reject
    <3>1. /\ config' = config /\ unit' = unit /\ files' = files /\ truncated' = truncated
          /\ exit' = 1 /\ ret' = ret /\ status' = status /\ at = "start" /\ at' = "exit"
      BY <2>1 DEF Reject, Exit
    <3>2. QED
      <4>0. Mode' = Mode /\ Several' = Several /\ Refused' = Refused
        BY <2>0, <3>1, Moved
      <4>1. DriverTyping'
        BY <2>0, <3>1, Moved, Typed DEF Running, Stages
      <4>2. Route'
        BY <2>0, <3>1, <4>0 DEF Running, Route
      <4>3. ReturnCodes'
        BY <2>0, <3>1 DEF Running, ReturnCodes
      <4>4. QED
        BY <4>1, <4>2, <4>3 DEF Control
  <2>2. CASE LinkOnly
    <3>1. PICK code \in Codes :
            /\ files' \in After(code, FinalProduct, Made("program", << >>, TRUE))
            /\ exit' = code /\ status' = code
      BY <2>2 DEF LinkOnly, Exit
    <3>2. /\ config' = config /\ unit' = unit /\ truncated' = truncated /\ ret' = ret
          /\ at = "start" /\ at' = "exit" /\ config.inputs = << >>
      BY <2>2 DEF LinkOnly, Exit
    <3>3. DOMAIN files' = DOMAIN files /\ code \in {0, 1, Signalled}
      <4> DEFINE program == Made("program", << >>, TRUE)
      <4>1. files' \in After(code, FinalProduct, program)
        BY <3>1
      <4> HIDE DEF program
      <4>2. QED
        BY <4>1, Making
    <3>4. QED
      <4>0. Mode' = Mode /\ Several' = Several /\ Refused' = Refused
        BY <2>0, <3>1, <3>2, <3>3, Moved
      <4>1. DriverTyping'
        BY <2>0, <3>1, <3>2, <3>3, Moved, Typed DEF Running, Signalled, Stages
      <4>2. Route'
        <5>1. ~Several
          BY <3>2 DEF Several
        <5>2. QED
          BY <2>0, <3>1, <3>2, <3>3, <4>0, <5>1 DEF Running, Signalled, Route
      <4>3. ReturnCodes'
        BY <2>0, <3>1, <3>2, <3>3 DEF Running, Signalled, ReturnCodes
      <4>4. QED
        BY <4>1, <4>2, <4>3 DEF Control
  <2>3. CASE Early
    <3>1. /\ config' = config /\ unit' = unit /\ files' = files /\ truncated' = truncated
          /\ exit' = exit /\ status' = status
      BY <2>3 DEF Early, GoesOn, IsDone, Fails, FilesAside
    <3>2. CASE GoesOn
      <4>0. Mode' = Mode /\ Several' = Several /\ Refused' = Refused
        BY <2>0, <3>1, Moved
      <4>1. DriverTyping'
        BY <2>0, <3>1, <3>2, Moved, Typed DEF GoesOn, Stages
      <4>2. Route'
        BY <2>0, <2>a, <3>1, <3>2, <4>0 DEF GoesOn, Route, Modes
      <4>3. ReturnCodes'
        BY <2>0, <3>1, <3>2 DEF GoesOn, ReturnCodes
      <4>4. QED
        BY <4>1, <4>2, <4>3 DEF Control
    <3>3. CASE IsDone \/ Fails
      <4>0. Mode' = Mode /\ Several' = Several /\ Refused' = Refused
        BY <2>0, <3>1, <3>3, Moved
      <4>1. DriverTyping'
        BY <2>0, <3>1, <3>3, Moved, Typed DEF IsDone, Fails, Stages
      <4>2. Route'
        BY <2>0, <3>1, <3>3, <4>0 DEF IsDone, Fails, Route
      <4>3. ReturnCodes'
        BY <2>0, <3>1, <3>3 DEF IsDone, Fails, ReturnCodes
      <4>4. QED
        BY <4>1, <4>2, <4>3 DEF Control
    <3>4. QED
      BY <2>3, <3>2, <3>3 DEF Early
  <2>4. CASE Preprocess
    <3>1. CASE IsDone \/ Fails
      BY <2>3, <3>1 DEF Early
    <3>2. CASE ~(IsDone \/ Fails)
      <4>1. PICK whole \in BOOLEAN :
              Write(Output, Made("text", <<unit>>, whole)) /\ ret' = IF whole THEN 0 ELSE 1
        BY <2>4, <3>2, PreprocessDoes
      <4>2. at = "preprocess" /\ at' = "return" /\ Same /\ status' = status
        BY <2>4, <3>2, PreprocessDoes
      <4>3. DOMAIN files' = DOMAIN files
        BY <4>1, Writing
      <4>4. QED
        <5>0. Mode' = Mode /\ Several' = Several /\ Refused' = Refused
          BY <2>0, <4>1, <4>2, <4>3, Moved DEF Same
        <5>1. DriverTyping'
          BY <2>0, <4>1, <4>2, <4>3, Moved, Typed DEF Same, Stages
        <5>2. Route'
          BY <2>0, <4>1, <4>2, <4>3, <5>0 DEF Same, Route
        <5>3. ReturnCodes'
          BY <2>0, <4>1, <4>2, <4>3 DEF Same, ReturnCodes
        <5>4. QED
          BY <5>1, <5>2, <5>3 DEF Control
    <3>3. QED
      BY <3>1, <3>2
  <2>5. CASE OpenAssembly
    <3>1. CASE Fails
      BY <2>3, <3>1 DEF Early
    <3>2. CASE ~Fails
      <4>1. at = "open" /\ at' = "emit" /\ Same /\ status' = status /\ ret' = ret
        BY <2>5, <3>2, OpenDoes
      <4>2. DOMAIN files' = DOMAIN files
        BY <2>5, <3>2, OpenDoes, Writing
      <4>3. QED
        <5>0. Mode' = Mode /\ Several' = Several /\ Refused' = Refused
          BY <2>0, <4>1, <4>2, Moved DEF Same
        <5>1. DriverTyping'
          BY <2>0, <4>1, <4>2, Moved, Typed DEF Same, Stages
        <5>2. Route'
          BY <2>0, <4>1, <4>2, <5>0 DEF Same, Route
        <5>3. ReturnCodes'
          BY <2>0, <4>1, <4>2 DEF Same, ReturnCodes
        <5>4. QED
          BY <5>1, <5>2, <5>3 DEF Control
    <3>3. QED
      BY <3>1, <3>2
  <2>6. CASE EmitAssembly
    <3>1. PICK short \in BOOLEAN :
            /\ Write(AssemblyFile, Made("assembly", <<unit>>, ~short))
            /\ truncated' = (truncated \/ short)
      BY <2>6, EmitDoes
    <3>2. /\ at = "emit" /\ UNCHANGED <<config, unit, exit, ret, status>>
          /\ at' = CASE Mode = "assembly" -> "dependencies" [] Mode = "object" -> "assemble" [] OTHER -> "link"
      BY <2>6, EmitDoes
    <3>3. /\ Mode = "assembly" => at' = "dependencies"
          /\ Mode = "object" => at' = "assemble"
          /\ Mode \in {"run", "link"} => at' = "link"
      BY <3>2
    <3>4. DOMAIN files' = DOMAIN files /\ truncated' \in BOOLEAN
      BY <3>1, Writing
    <3>5. QED
      <4>0. Mode' = Mode /\ Several' = Several /\ Refused' = Refused
        BY <2>0, <3>2, <3>3, <3>4, Moved
      <4>1. DriverTyping'
        BY <2>0, <3>2, <3>3, <3>4, Moved, Typed DEF Stages
      <4>2. Route'
        BY <2>0, <3>2, <3>3, <3>4, <4>0 DEF Route
      <4>3. ReturnCodes'
        BY <2>0, <3>2, <3>3, <3>4 DEF ReturnCodes
      <4>4. QED
        BY <4>1, <4>2, <4>3 DEF Control
  <2>7. CASE Assemble
    <3>1. PICK code \in Codes :
            /\ files' \in After(code, Output, Made("object", <<unit>>, files[AssemblyFile].whole))
            /\ at' = (IF code = 0 THEN "dependencies" ELSE "discard") /\ status' = code /\ ret' = code
      BY <2>7, AssembleDoes
    <3>2. at = "assemble" /\ Same
      BY <2>7, AssembleDoes
    <3>3. DOMAIN files' = DOMAIN files /\ code \in {0, 1, Signalled}
      BY <3>1, Making
    <3>4. QED
      <4>0. Mode' = Mode /\ Several' = Several /\ Refused' = Refused
        BY <2>0, <3>1, <3>2, <3>3, Moved DEF Same
      <4>1. DriverTyping'
        BY <2>0, <3>1, <3>2, <3>3, Moved, Typed DEF Same, Stages
      <4>2. Route'
        BY <2>0, <3>1, <3>2, <3>3, <4>0 DEF Same, Route
      <4>3. ReturnCodes'
        BY <2>0, <3>1, <3>2, <3>3 DEF Same, ReturnCodes
      <4>4. QED
        BY <4>1, <4>2, <4>3 DEF Control
  <2>8. CASE Discard
    <3>1. DOMAIN files' = DOMAIN files
      BY <2>8, DiscardDoes, Unlinking
    <3>2. QED
      <4>0. Mode' = Mode /\ Several' = Several /\ Refused' = Refused
        BY <2>0, <2>8, <3>1, DiscardDoes, Moved DEF Same
      <4>1. DriverTyping'
        BY <2>0, <2>8, <3>1, DiscardDoes, Moved, Typed DEF Same, Stages
      <4>2. Route'
        BY <2>0, <2>8, <3>1, DiscardDoes, <4>0 DEF Same, Route
      <4>3. ReturnCodes'
        BY <2>0, <2>8, <3>1, DiscardDoes DEF Same, ReturnCodes
      <4>4. QED
        BY <4>1, <4>2, <4>3 DEF Control
  <2>9. CASE Link
    <3>1. PICK code \in Codes :
            \E after \in After(code, Product, Made("program", <<unit>>, files[AssemblyFile].whole)) :
              /\ files' = Unlinked(after, {TempAssembly} \cup (IF code = 0 THEN {} ELSE {TempProgram}))
              /\ at' = (IF code = 0 THEN "dependencies" ELSE "return") /\ status' = code /\ ret' = code
      BY <2>9, LinkDoes
    <3>2. at = "link" /\ Same
      BY <2>9, LinkDoes
    <3>3. DOMAIN files' = DOMAIN files /\ code \in {0, 1, Signalled}
      BY <3>1, Making, Unlinking
    <3>4. QED
      <4>0. Mode' = Mode /\ Several' = Several /\ Refused' = Refused
        BY <2>0, <3>1, <3>2, <3>3, Moved DEF Same
      <4>1. DriverTyping'
        BY <2>0, <3>1, <3>2, <3>3, Moved, Typed DEF Same, Stages
      <4>2. Route'
        BY <2>0, <3>1, <3>2, <3>3, <4>0 DEF Same, Route
      <4>3. ReturnCodes'
        BY <2>0, <3>1, <3>2, <3>3 DEF Same, ReturnCodes
      <4>4. QED
        BY <4>1, <4>2, <4>3 DEF Control
  <2>10. CASE Dependencies
    <3>1. /\ at = "dependencies" /\ Same /\ ret' = ret /\ status' = status
          /\ Mode = "object" => at' = "discard"
          /\ Mode = "run" => at' = "run"
          /\ Mode \in {"assembly", "link"} => at' = "return"
          /\ at' \in {"discard", "run", "return"}
      BY <2>0, <2>10, DependenciesDoes DEF Route
    <3>2. DOMAIN files' = DOMAIN files
      BY <2>10, DependenciesDoes, Writing
    <3>3. QED
      <4>0. Mode' = Mode /\ Several' = Several /\ Refused' = Refused
        BY <2>0, <3>1, <3>2, Moved DEF Same
      <4>1. DriverTyping'
        BY <2>0, <3>1, <3>2, Moved, Typed DEF Same, Stages
      <4>2. Route'
        BY <2>0, <3>1, <3>2, <4>0 DEF Same, Route
      <4>3. ReturnCodes'
        BY <2>0, <3>1, <3>2 DEF Same, ReturnCodes
      <4>4. QED
        BY <4>1, <4>2, <4>3 DEF Control
  <2>11. CASE RunProgram
    <3>1. DOMAIN files' = DOMAIN files
      BY <2>11, RunDoes, Unlinking
    <3>2. QED
      <4>0. Mode' = Mode /\ Several' = Several /\ Refused' = Refused
        BY <2>0, <2>11, <3>1, RunDoes, Moved DEF Same
      <4>1. DriverTyping'
        BY <2>0, <2>11, <3>1, RunDoes, Moved, Typed DEF Same, Stages
      <4>2. Route'
        BY <2>0, <2>11, <3>1, RunDoes, <4>0 DEF Same, Route
      <4>3. ReturnCodes'
        BY <2>0, <2>11, <3>1, RunDoes DEF Same, ReturnCodes
      <4>4. QED
        BY <4>1, <4>2, <4>3 DEF Control
  <2>12. CASE SingleReturned
    <3>1. /\ at = "return" /\ at' = "exit" /\ exit' = ret /\ ~Several
          /\ UNCHANGED <<config, unit, truncated, ret, status, files>>
      BY <2>12 DEF SingleReturned, Exit, Quiet
    <3>2. unit = Len(config.inputs)
      BY <2>0, <3>1, Products DEF Route
    <3>3. QED
      <4>0. Mode' = Mode /\ Several' = Several /\ Refused' = Refused
        BY <2>0, <3>1, <3>2, Moved
      <4>1. DriverTyping'
        BY <2>0, <3>1, <3>2, Moved, Typed DEF Running, Signalled, Stages
      <4>2. Route'
        BY <2>0, <3>1, <3>2, <4>0 DEF Running, Signalled, Route
      <4>3. ReturnCodes'
        BY <2>0, <3>1, <3>2 DEF Running, Signalled, ReturnCodes
      <4>4. QED
        BY <4>1, <4>2, <4>3 DEF Control
  <2>13. CASE UnitFailed
    <3>1. /\ at = "return" /\ at' = "exit" /\ exit' = ret /\ ret # 0
          /\ UNCHANGED <<config, unit, truncated, ret, status>>
          /\ DOMAIN files' = DOMAIN files
      BY <2>13, Unlinking DEF UnitFailed, Exit, Quiet
    <3>2. QED
      <4>0. Mode' = Mode /\ Several' = Several /\ Refused' = Refused
        BY <2>0, <3>1, Moved
      <4>1. DriverTyping'
        BY <2>0, <3>1, Moved, Typed DEF Running, Signalled, Stages
      <4>2. Route'
        BY <2>0, <3>1, <4>0 DEF Running, Signalled, Route
      <4>3. ReturnCodes'
        BY <2>0, <3>1 DEF Running, Signalled, ReturnCodes
      <4>4. QED
        BY <4>1, <4>2, <4>3 DEF Control
  <2>14. CASE NextUnit
    <3>1. /\ at = "return" /\ at' = "read" /\ unit' = unit + 1 /\ ret = 0 /\ unit < Len(config.inputs)
          /\ UNCHANGED <<config, exit, truncated, ret, status, files>> /\ config.inputs # << >>
      BY <2>0, <2>14 DEF NextUnit, Route
    <3>2. unit' \in Units' /\ unit' \in Nat /\ Refused' = Refused /\ DOMAIN files' = Names'
      BY <2>0, <3>1, OfConfig, SameNames, Products DEF DriverTyping, Refused, Several
    <3>3. QED
      BY <2>0, <3>1, <3>2 DEF Control, DriverTyping, Stages, Route, ReturnCodes
  <2>15. CASE LastUnit
    <3>1. /\ at = "return" /\ ret = 0 /\ unit = Len(config.inputs) /\ Several
          /\ \/ config.mode = "object" /\ at' = "exit" /\ exit' = 0
             \/ config.mode # "object" /\ at' = "link objects" /\ exit' = exit
          /\ UNCHANGED <<config, unit, truncated, ret, status, files>>
      BY <2>15 DEF LastUnit, Exit, Go, Quiet
    <3>2. config.mode \in {"object", "link"}
      BY <2>0, <3>1 DEF Route, Refused
    <3>3. QED
      <4>0. Mode' = Mode /\ Several' = Several /\ Refused' = Refused
        BY <2>0, <3>1, <3>2, Moved
      <4>1. DriverTyping'
        BY <2>0, <3>1, <3>2, Moved, Typed DEF Running, Stages
      <4>2. Route'
        BY <2>0, <3>1, <3>2, <4>0 DEF Running, Route
      <4>3. ReturnCodes'
        <5>1. status = 0
          BY <2>0, <3>1 DEF ReturnCodes
        <5>2. CASE at' = "exit" /\ exit' = 0
          BY <3>1, <5>1, <5>2 DEF Running, ReturnCodes
        <5>3. CASE at' = "link objects" /\ exit' = exit
          BY <2>0, <3>1, <5>1, <5>3 DEF Running, ReturnCodes
        <5>4. QED
          BY <3>1, <5>2, <5>3
      <4>4. QED
        BY <4>1, <4>2, <4>3 DEF Control
  <2>16. CASE LinkObjects
    <3>1. PICK code \in Codes :
            \E after \in After(code, FinalProduct, LinkedProgram) :
              /\ files' = Unlinked(after, Objects(Len(config.inputs)))
              /\ exit' = code /\ status' = code
      BY <2>16, LinkObjectsDoes
    <3>2. at = "link objects" /\ at' = "exit" /\ UNCHANGED <<config, unit, truncated, ret>>
      BY <2>16, LinkObjectsDoes
    <3>3. DOMAIN files' = DOMAIN files /\ code \in {0, 1, Signalled}
      BY <3>1, Making, Unlinking
    <3>4. QED
      <4>0. Mode' = Mode /\ Several' = Several /\ Refused' = Refused
        BY <2>0, <3>1, <3>2, <3>3, Moved
      <4>1. DriverTyping'
        BY <2>0, <3>1, <3>2, <3>3, Moved, Typed DEF Running, Signalled, Stages
      <4>2. Route'
        BY <2>0, <3>1, <3>2, <3>3, <4>0 DEF Running, Signalled, Route
      <4>3. ReturnCodes'
        <5>1. unit' = Len(config.inputs) /\ config' = config
          BY <2>0, <3>2 DEF Route
        <5>2. at' = "exit" /\ exit' = code /\ status' = code /\ code \in {0, 1, Signalled}
          BY <3>1, <3>2, <3>3
        <5>3. unit' = Len(config'.inputs)
          BY <5>1
        <5>4. QED
          BY <5>2, <5>3 DEF Running, Signalled, ReturnCodes
      <4>4. QED
        BY <4>1, <4>2, <4>3 DEF Control
  <2>17. CASE UNCHANGED driverVars
    <3>1. /\ config' = config /\ at' = at /\ unit' = unit /\ ret' = ret /\ exit' = exit
          /\ status' = status /\ files' = files /\ truncated' = truncated
      BY <2>17
    <3>2. Mode' = Mode /\ Several' = Several /\ Refused' = Refused
      BY <2>0, <3>1, Moved
    <3>3. at' \in Stages
      BY <2>0, <3>1 DEF DriverTyping
    <3>4. DriverTyping'
      BY <2>0, <3>1, <3>3, Moved, Typed
    <3>5. Route'
      BY <2>0, <3>1, <3>2 DEF Route
    <3>6. ReturnCodes'
      BY <2>0, <3>1 DEF ReturnCodes
    <3>7. QED
      BY <3>4, <3>5, <3>6 DEF Control
  <2>18. CASE Stop
    <3>1. /\ at \in {"read", "preprocess", "parse", "analyze", "lower", "emit"} /\ at' = "stopped"
          /\ exit' = 1 /\ UNCHANGED <<config, unit, truncated, ret, status>>
      BY <2>18, StopDoes
    <3>2. DOMAIN files' = DOMAIN files
      BY <2>18, StopDoes, Writing
    <3>3. Mode' = Mode /\ Several' = Several /\ Refused' = Refused
      BY <2>0, <3>1, <3>2, Moved
    <3>4. DriverTyping'
      BY <2>0, <3>1, <3>2, Moved, Typed DEF Running, Stages
    <3>5. Route'
      BY <2>0, <3>1, <3>3 DEF Running, Route
    <3>6. ReturnCodes'
      BY <2>0, <3>1 DEF Running, ReturnCodes
    <3>7. QED
      BY <3>4, <3>5, <3>6 DEF Control
  <2>19. QED
    BY <2>18, <2>1, <2>2, <2>3, <2>4, <2>5, <2>6, <2>7, <2>8, <2>9, <2>10, <2>11, <2>12, <2>13, <2>14, <2>15,
       <2>16, <2>17, EarlyStages DEF DriverNext
<1>3. QED
  BY <1>1, <1>2, PTL DEF DriverSpec

-----------------------------------------------------------------------------
(* What each action does to the files, one by one.                         *)
Kept(S) == \A m \in Names : m \notin S => files'[m] = files[m]
Outcome(code, n, c) ==
  /\ code \in {0, 1, Signalled}
  /\ code = 0 => files'[n] = c
  /\ code = 1 => files'[n] \in {files[n], Absent}
  /\ code = Signalled => files'[n] \in {files[n], Torn(c.kind)}

(* What the fields of a file's contents are.                                *)
LEMMA Contents ==
  /\ Absent.kind = "absent"
  /\ \A kind, from, whole :
       /\ Made(kind, from, whole).kind = kind /\ Made(kind, from, whole).from = from
       /\ Made(kind, from, whole).whole = whole
  /\ \A kind : Torn(kind).kind = kind /\ ~Torn(kind).whole
BY DEF Absent, Made, Torn

(* The temporary names are files of the model, and none is a name the       *)
(* driver was given (driver.c:416-425, 482-489, 592).                       *)
LEMMA TemporaryNames ==
  ASSUME DriverTyping
  PROVE  /\ Temporaries \subseteq Names
         /\ \A t \in Temporaries : ~IsName(t)
         /\ TempAssembly \in Temporaries /\ TempProgram \in Temporaries
         /\ \A k \in Units : TempObject(k) \in Temporaries
         /\ \A n : Objects(n) = {TempObject(k) : k \in 1..n}
BY NamesApart DEF Temporaries, Names, Objects

(* Linking without a source touches the product only (driver.c:548-551).    *)
LEMMA LinkOnlyFiles ==
  ASSUME Control, LinkOnly
  PROVE  /\ at = "start" /\ at' = "exit" /\ config.inputs = << >> /\ ~NothingToDo
         /\ UNCHANGED <<config, unit, truncated, ret>> /\ status' = exit'
         /\ FinalProduct \in Names /\ IsName(FinalProduct)
         /\ Kept({FinalProduct}) /\ Outcome(exit', FinalProduct, Made("program", << >>, TRUE))
<1> DEFINE program == Made("program", << >>, TRUE)
<1>1. PICK code \in Codes : files' \in After(code, FinalProduct, program) /\ exit' = code /\ status' = code
  BY DEF LinkOnly, Exit
<1>2. /\ at = "start" /\ at' = "exit" /\ config.inputs = << >> /\ ~NothingToDo
      /\ UNCHANGED <<config, unit, truncated, ret>>
  BY DEF LinkOnly, Exit
<1>3. FinalProduct \in Names /\ IsName(FinalProduct) /\ DOMAIN files = Names
  BY OfConfig, NamesDerived DEF Control, DriverTyping, FinalProduct, Names
<1> HIDE DEF program
<1>4. Kept({FinalProduct}) /\ Outcome(code, FinalProduct, program)
  BY <1>1, <1>3, Making DEF Kept, Outcome
<1>5. QED
  BY <1>1, <1>2, <1>3, <1>4 DEF program

(* Preprocessing touches the file it was asked for only.                    *)
LEMMA PreprocessFiles ==
  ASSUME Control, Preprocess
  PROVE  \/ IsDone \/ Fails
         \/ /\ at = "preprocess" /\ at' = "return" /\ Same /\ status' = status
            /\ Mode = "preprocess" /\ ~Several /\ Output \in Names /\ IsName(Output) /\ Output # NoFile
            /\ Kept({Output})
            /\ ret' \in {0, 1} /\ files'[Output] = Made("text", <<unit>>, ret' = 0)
<1>1. SUFFICES ASSUME ~(IsDone \/ Fails)
               PROVE  /\ at = "preprocess" /\ at' = "return" /\ Same /\ status' = status
                      /\ Mode = "preprocess" /\ ~Several
                      /\ Output \in Names /\ IsName(Output) /\ Output # NoFile
                      /\ Kept({Output})
                      /\ ret' \in {0, 1} /\ files'[Output] = Made("text", <<unit>>, ret' = 0)
  OBVIOUS
<1>2. PICK whole \in BOOLEAN :
        Write(Output, Made("text", <<unit>>, whole)) /\ ret' = IF whole THEN 0 ELSE 1
  BY <1>1, PreprocessDoes
<1>3. at = "preprocess" /\ at' = "return" /\ Same /\ status' = status /\ Output # NoFile
  BY <1>1, PreprocessDoes
<1>4. Mode = "preprocess" /\ config.inputs # << >> /\ DriverTyping /\ DOMAIN files = Names
  BY <1>3 DEF Control, Route, DriverTyping
<1>5. Output \in Names /\ IsName(Output) /\ ~Several
  BY <1>3, <1>4, Written, Products
<1>6. Kept({Output}) /\ files'[Output] = Made("text", <<unit>>, whole)
  BY <1>2, <1>4, <1>5, Writing DEF Kept
<1>7. ret' \in {0, 1} /\ whole = (ret' = 0)
  BY <1>2
<1>8. QED
  BY <1>3, <1>4, <1>5, <1>6, <1>7

(* Opening touches the assembly only.                                       *)
LEMMA OpenFiles ==
  ASSUME Control, OpenAssembly
  PROVE  \/ Fails
         \/ /\ at = "open" /\ at' = "emit" /\ Same /\ status' = status /\ ret' = ret
            /\ AssemblyFile \in Names /\ Kept({AssemblyFile}) /\ files'[AssemblyFile] = Torn("assembly")
<1>1. DriverTyping /\ DOMAIN files = Names /\ (at = "open" => config.inputs # << >>)
  BY DEF Control, Route, DriverTyping
<1>2. QED
  BY <1>1, OpenDoes, Writing, Written DEF Kept

(* The assembly is then made of this source, and whole if no write was cut  *)
(* short.                                                                   *)
LEMMA EmitFiles ==
  ASSUME Control, EmitAssembly
  PROVE  /\ at = "emit" /\ UNCHANGED <<config, unit, exit, ret, status>>
         /\ Mode = "assembly" => at' = "dependencies" /\ AssemblyFile = Output
         /\ Mode = "object" => at' = "assemble"
         /\ Mode \in {"run", "link"} => at' = "link"
         /\ Mode \in {"assembly", "object", "run", "link"}
         /\ AssemblyFile \in Names /\ Kept({AssemblyFile})
         /\ FromThisRun(AssemblyFile, <<unit>>)' /\ files'[AssemblyFile].kind = "assembly"
         /\ files'[AssemblyFile].whole \/ truncated'
         /\ truncated => truncated'
<1>1. PICK short \in BOOLEAN :
        /\ Write(AssemblyFile, Made("assembly", <<unit>>, ~short))
        /\ truncated' = (truncated \/ short)
  BY EmitDoes
<1>2. /\ at = "emit" /\ UNCHANGED <<config, unit, exit, ret, status>>
      /\ at' = CASE Mode = "assembly" -> "dependencies" [] Mode = "object" -> "assemble" [] OTHER -> "link"
  BY EmitDoes
<1>3. /\ DriverTyping /\ DOMAIN files = Names /\ config.inputs # << >>
      /\ Mode \in {"assembly", "object", "run", "link"}
  BY <1>2 DEF Control, Route, DriverTyping
<1>4. /\ Mode = "assembly" => at' = "dependencies" /\ AssemblyFile = Output
      /\ Mode = "object" => at' = "assemble"
      /\ Mode \in {"run", "link"} => at' = "link"
  BY <1>2, <1>3, Written
<1>5. AssemblyFile \in Names /\ Kept({AssemblyFile}) /\ files'[AssemblyFile] = Made("assembly", <<unit>>, ~short)
  BY <1>1, <1>3, Writing, Written DEF Kept
<1>6. AssemblyFile' = AssemblyFile
  BY <1>2, SameUnit
<1>7. FromThisRun(AssemblyFile, <<unit>>)' /\ files'[AssemblyFile].kind = "assembly"
  BY <1>2, <1>5, <1>6, Contents DEF FromThisRun, Fresh
<1>8. files'[AssemblyFile].whole \/ truncated'
  <2>1. CASE short
    BY <1>1, <2>1
  <2>2. CASE ~short
    <3>1. files'[AssemblyFile].whole = ~short
      BY <1>5 DEF Made
    <3>2. QED
      BY <2>2, <3>1
  <2>3. QED
    BY <2>1, <2>2
<1>9. QED
  BY <1>1, <1>2, <1>3, <1>4, <1>5, <1>7, <1>8

(* The assembler touches the object only.                                   *)
LEMMA AssembleFiles ==
  ASSUME Control, Assemble
  PROVE  /\ at = "assemble" /\ Same /\ status' = ret' /\ Mode = "object"
         /\ at' = IF ret' = 0 THEN "dependencies" ELSE "discard"
         /\ Output \in Names /\ AssemblyFile = TempAssembly /\ Output # TempAssembly
         /\ IsName(Output) \/ Output = TempObject(unit)
         /\ Kept({Output})
         /\ Outcome(ret', Output, Made("object", <<unit>>, files[AssemblyFile].whole))
<1>1. PICK code \in Codes :
        /\ files' \in After(code, Output, Made("object", <<unit>>, files[AssemblyFile].whole))
        /\ at' = (IF code = 0 THEN "dependencies" ELSE "discard") /\ status' = code /\ ret' = code
  BY AssembleDoes
<1>2. at = "assemble" /\ Same
  BY AssembleDoes
<1>3. DriverTyping /\ DOMAIN files = Names /\ config.inputs # << >> /\ Mode = "object"
  BY <1>2 DEF Control, Route, DriverTyping
<1>4. Output \in Names /\ AssemblyFile = TempAssembly
  BY <1>3, Written
<1>5. IsName(Output) \/ Output = TempObject(unit)
  BY <1>3, Products, OfConfig, NamesDerived DEF DriverTyping
<1>6. Output # TempAssembly
  BY <1>5, NamesApart
<1>7. Kept({Output}) /\ Outcome(code, Output, Made("object", <<unit>>, files[AssemblyFile].whole))
  <2> DEFINE object == Made("object", <<unit>>, files[AssemblyFile].whole)
  <2>1. files' \in After(code, Output, object)
    BY <1>1
  <2> HIDE DEF object
  <2>2. Kept({Output}) /\ Outcome(code, Output, object)
    BY <1>3, <1>4, <2>1, Making DEF Kept, Outcome
  <2>3. QED
    BY <2>2 DEF object
<1>8. QED
  BY <1>1, <1>2, <1>3, <1>4, <1>5, <1>6, <1>7

(* Only the assembly is removed.                                            *)
LEMMA DiscardFiles ==
  ASSUME Control, Discard
  PROVE  /\ at = "discard" /\ at' = "return" /\ Same /\ ret' = ret /\ status' = status /\ Mode = "object"
         /\ TempAssembly \in Names /\ AssemblyFile = TempAssembly
         /\ Kept({TempAssembly}) /\ files'[TempAssembly] = Absent
<1>1. DriverTyping /\ DOMAIN files = Names /\ (at = "discard" => config.inputs # << >> /\ Mode = "object")
  BY DEF Control, Route, DriverTyping
<1>2. QED
  BY <1>1, DiscardDoes, Unlinking, Written DEF Kept

(* Linking a single source touches its product and the temporary files      *)
(* only.                                                                    *)
LEMMA LinkFiles ==
  ASSUME Control, Link
  PROVE  /\ at = "link" /\ Same /\ status' = ret' /\ Mode \in {"run", "link"} /\ ~Several
         /\ at' = IF ret' = 0 THEN "dependencies" ELSE "return"
         /\ Product \in Names /\ AssemblyFile = TempAssembly
         /\ Mode = "run" => Product = TempProgram
         /\ Mode = "link" => Product = FinalProduct /\ IsName(Product)
         /\ Kept({Product, TempAssembly, TempProgram})
         /\ files'[TempAssembly] = Absent
         /\ ret' # 0 => files'[TempProgram] = Absent
         /\ ret' = 0 /\ Mode = "link" => files'[TempProgram] = files[TempProgram]
         /\ Mode = "link" \/ ret' = 0 =>
              Outcome(ret', Product, Made("program", <<unit>>, files[AssemblyFile].whole))
         /\ ret' \in {0, 1, Signalled}
<1> DEFINE program == Made("program", <<unit>>, files[AssemblyFile].whole)
<1>1. PICK code \in Codes :
        \E after \in After(code, Product, program) :
          /\ files' = Unlinked(after, {TempAssembly} \cup (IF code = 0 THEN {} ELSE {TempProgram}))
          /\ at' = (IF code = 0 THEN "dependencies" ELSE "return") /\ status' = code /\ ret' = code
  BY LinkDoes
<1>2. PICK after \in After(code, Product, program) :
        /\ files' = Unlinked(after, {TempAssembly} \cup (IF code = 0 THEN {} ELSE {TempProgram}))
        /\ at' = (IF code = 0 THEN "dependencies" ELSE "return") /\ status' = code /\ ret' = code
  BY <1>1
<1>3. at = "link" /\ Same
  BY LinkDoes
<1>4. DriverTyping /\ DOMAIN files = Names /\ config.inputs # << >> /\ Mode \in {"run", "link"}
  BY <1>3 DEF Control, Route, DriverTyping
<1>5. /\ Product \in Names /\ AssemblyFile = TempAssembly /\ TempAssembly \in Names /\ TempProgram \in Names
      /\ Mode = "run" => Product = TempProgram
      /\ Mode = "link" => Product = FinalProduct /\ IsName(Product)
      /\ ~Several
  BY <1>4, Written, Products
<1>6. Product # TempAssembly /\ (Mode = "link" => Product # TempProgram) /\ TempAssembly # TempProgram
  BY <1>4, <1>5, NamesApart
<1> HIDE DEF program
<1>7. /\ code \in {0, 1, Signalled} /\ DOMAIN after = Names
      /\ \A m \in Names : m # Product => after[m] = files[m]
      /\ code = 0 => after[Product] = program
      /\ code = 1 => after[Product] \in {files[Product], Absent}
      /\ code = Signalled => after[Product] \in {files[Product], Torn(program.kind)}
  BY <1>2, <1>4, <1>5, Making
<1>8. \A m \in Names :
        files'[m] = IF m \in {TempAssembly} \cup (IF code = 0 THEN {} ELSE {TempProgram})
                    THEN Absent ELSE after[m]
  BY <1>2, <1>7, Unlinking
<1>9. /\ Kept({Product, TempAssembly, TempProgram})
      /\ files'[TempAssembly] = Absent
      /\ code # 0 => files'[TempProgram] = Absent
      /\ code = 0 /\ Mode = "link" => files'[TempProgram] = files[TempProgram]
  BY <1>5, <1>6, <1>7, <1>8 DEF Kept
<1>10. Mode = "link" \/ code = 0 => files'[Product] = after[Product]
  BY <1>4, <1>5, <1>6, <1>8
<1>11. Mode = "link" \/ code = 0 => Outcome(code, Product, program)
  BY <1>7, <1>10 DEF Outcome
<1>12. QED
  BY <1>2, <1>3, <1>4, <1>5, <1>7, <1>9, <1>11 DEF program

(* Only a dependency file is written, which is no product, no object and no *)
(* temporary file.                                                          *)
LEMMA DependenciesFiles ==
  ASSUME Control, Dependencies
  PROVE  /\ at = "dependencies" /\ Same /\ ret' = ret /\ status' = status /\ ret = 0
         /\ Mode = "object" => at' = "discard"
         /\ Mode = "run" => at' = "run"
         /\ Mode \in {"assembly", "link"} => at' = "return"
         /\ at' \in {"discard", "run", "return"} /\ Mode \in {"assembly", "object", "run", "link"}
         /\ \/ files' = files
            \/ /\ WantsDeps /\ DepFile \in Names /\ IsName(DepFile) /\ DepFile # FinalProduct
               /\ \A k \in Units : DepFile # ObjectName(config.inputs[k])
               /\ Mode \in {"object", "assembly"} => DepFile # Output
               /\ Kept({DepFile}) /\ files'[DepFile] = Made("dependencies", <<unit>>, TRUE)
<1>1. /\ at = "dependencies" /\ Same /\ ret' = ret /\ status' = status
      /\ at' = CASE Mode = "object" -> "discard" [] Mode = "run" -> "run" [] OTHER -> "return"
      /\ \/ files' = files
         \/ WantsDeps /\ Write(DepFile, Made("dependencies", <<unit>>, TRUE))
  BY DependenciesDoes
<1>2. /\ DriverTyping /\ DOMAIN files = Names /\ config.inputs # << >> /\ ret = 0
      /\ Mode \in {"assembly", "object", "run", "link"}
  BY <1>1 DEF Control, Route, DriverTyping, ReturnCodes
<1>3. ASSUME WantsDeps, Write(DepFile, Made("dependencies", <<unit>>, TRUE))
      PROVE  /\ DepFile \in Names /\ IsName(DepFile) /\ DepFile # FinalProduct
             /\ \A k \in Units : DepFile # ObjectName(config.inputs[k])
             /\ Mode \in {"object", "assembly"} => DepFile # Output
             /\ Kept({DepFile}) /\ files'[DepFile] = Made("dependencies", <<unit>>, TRUE)
  <2>1. /\ DepFile \in Names /\ IsName(DepFile) /\ DepFile # FinalProduct
        /\ \A k \in Units : DepFile # ObjectName(config.inputs[k])
        /\ Mode \in {"object", "assembly"} => DepFile # Output
    BY <1>2, <1>3, DepFileApart
  <2>2. Kept({DepFile}) /\ files'[DepFile] = Made("dependencies", <<unit>>, TRUE)
    BY <1>2, <1>3, <2>1, Writing DEF Kept
  <2>3. QED
    BY <2>1, <2>2
<1>4. QED
  BY <1>1, <1>2, <1>3

(* Only the script's program is removed.                                    *)
LEMMA RunFiles ==
  ASSUME Control, RunProgram
  PROVE  /\ at = "run" /\ at' = "return" /\ Same /\ Mode = "run" /\ ~Several /\ config.inputs # << >>
         /\ status' = ret' /\ ret' \in {0, 1, Signalled}
         /\ TempProgram \in Names /\ Kept({TempProgram}) /\ files'[TempProgram] = Absent
<1>1. /\ DriverTyping /\ DOMAIN files = Names
      /\ at = "run" => config.inputs # << >> /\ Mode = "run"
  BY DEF Control, Route, DriverTyping
<1>2. QED
  BY <1>1, RunDoes, Unlinking, Written, Products DEF Kept

(* When one source of several fails, the objects made before it are removed *)
(* if they were to be linked (driver.c:594-598).                            *)
LEMMA UnitFailedFiles ==
  ASSUME Control, UnitFailed
  PROVE  /\ at = "return" /\ at' = "exit" /\ exit' = ret /\ ret # 0 /\ Several
         /\ UNCHANGED <<config, unit, truncated, ret, status>>
         /\ \A m \in Names : files'[m] \in {files[m], Absent}
         /\ config.mode = "object" => \A m \in Names : files'[m] = files[m]
         /\ config.mode # "object" => \A m \in Objects(unit - 1) \cap Names : files'[m] = Absent
<1>1. /\ at = "return" /\ at' = "exit" /\ exit' = ret /\ ret # 0 /\ Several
      /\ UNCHANGED <<config, unit, truncated, ret, status>>
      /\ files' = Unlinked(files, IF config.mode = "object" THEN {} ELSE Objects(unit - 1))
  BY DEF UnitFailed, Exit, Quiet
<1>2. DOMAIN files = Names
  BY DEF Control, DriverTyping
<1>3. \A m \in Names :
        files'[m] = IF m \in (IF config.mode = "object" THEN {} ELSE Objects(unit - 1)) THEN Absent ELSE files[m]
  BY <1>1, <1>2, Unlinking
<1>4. QED
  BY <1>1, <1>3

(* Linking all touches the product, and leaves no temporary object.         *)
LEMMA LinkObjectsFiles ==
  ASSUME Control, LinkObjects
  PROVE  /\ at = "link objects" /\ at' = "exit" /\ status' = exit' /\ UNCHANGED <<config, unit, truncated, ret>>
         /\ Several /\ config.mode = "link" /\ unit = Len(config.inputs)
         /\ FinalProduct \in Names /\ IsName(FinalProduct) /\ FinalProduct \notin Objects(unit)
         /\ Kept({FinalProduct} \cup Objects(unit))
         /\ \A m \in Objects(unit) \cap Names : files'[m] = Absent
         /\ Outcome(exit', FinalProduct, LinkedProgram)
<1>1. PICK code \in Codes :
        \E after \in After(code, FinalProduct, LinkedProgram) :
          /\ files' = Unlinked(after, Objects(Len(config.inputs)))
          /\ exit' = code /\ status' = code
  BY LinkObjectsDoes
<1>2. PICK after \in After(code, FinalProduct, LinkedProgram) :
        /\ files' = Unlinked(after, Objects(Len(config.inputs)))
        /\ exit' = code /\ status' = code
  BY <1>1
<1>3. at = "link objects" /\ at' = "exit" /\ UNCHANGED <<config, unit, truncated, ret>>
  BY LinkObjectsDoes
<1>4. /\ Several /\ config.mode = "link" /\ unit = Len(config.inputs) /\ config.inputs # << >>
      /\ DriverTyping /\ DOMAIN files = Names
  BY <1>3 DEF Control, Route, DriverTyping
<1>5. FinalProduct \in Names /\ IsName(FinalProduct) /\ FinalProduct \notin Objects(unit)
  BY <1>4, Products, NamesApart DEF Objects
<1>6. /\ code \in {0, 1, Signalled} /\ DOMAIN after = Names
      /\ \A m \in Names : m # FinalProduct => after[m] = files[m]
      /\ code = 0 => after[FinalProduct] = LinkedProgram
      /\ code = 1 => after[FinalProduct] \in {files[FinalProduct], Absent}
      /\ code = Signalled => after[FinalProduct] \in {files[FinalProduct], Torn(LinkedProgram.kind)}
  BY <1>2, <1>4, <1>5, Making
<1>7. \A m \in Names : files'[m] = IF m \in Objects(unit) THEN Absent ELSE after[m]
  BY <1>2, <1>4, <1>6, Unlinking
<1>8. Kept({FinalProduct} \cup Objects(unit)) /\ \A m \in Objects(unit) \cap Names : files'[m] = Absent
  BY <1>6, <1>7 DEF Kept
<1>9. Outcome(code, FinalProduct, LinkedProgram)
  BY <1>5, <1>6, <1>7 DEF Outcome
<1>10. QED
  BY <1>2, <1>3, <1>4, <1>5, <1>8, <1>9

(* Where the process ends, no file is touched but the text it was writing.  *)
LEMMA StopFiles ==
  ASSUME Control, Stop
  PROVE  /\ at \in {"read", "preprocess", "parse", "analyze", "lower", "emit"} /\ at' = "stopped"
         /\ exit' = 1 /\ UNCHANGED <<config, unit, truncated, ret, status>>
         /\ config.inputs # << >>
         /\ \/ files' = files
            \/ /\ Mode = "preprocess" /\ ~Several /\ Output \in Names /\ IsName(Output)
               /\ Kept({Output}) /\ files'[Output] = Made("text", <<unit>>, FALSE)
<1>1. /\ at \in {"read", "preprocess", "parse", "analyze", "lower", "emit"} /\ at' = "stopped"
      /\ exit' = 1 /\ UNCHANGED <<config, unit, truncated, ret, status>>
  BY StopDoes
<1>2. config.inputs # << >> /\ DriverTyping /\ DOMAIN files = Names
  BY <1>1 DEF Control, Route, DriverTyping
<1>3. CASE files' = files
  BY <1>1, <1>2, <1>3
<1>4. CASE files' # files
  <2>1. at = "preprocess" /\ Output # NoFile /\ Write(Output, Made("text", <<unit>>, FALSE))
    BY <1>4, StopDoes
  <2>2. Mode = "preprocess"
    BY <2>1 DEF Control, Route
  <2>3. Output \in Names /\ IsName(Output) /\ ~Several
    BY <1>2, <2>1, <2>2, Written, Products
  <2>4. Kept({Output}) /\ files'[Output] = Made("text", <<unit>>, FALSE)
    BY <1>2, <2>1, <2>3, Writing DEF Kept
  <2>5. QED
    BY <1>1, <1>2, <2>2, <2>3, <2>4
<1>5. QED
  BY <1>3, <1>4

(* Nothing comes between opening the assembly and writing it                *)
(* (driver.c:428-438).                                                      *)
LEMMA EmptiedHolds == DriverSpec => []Emptied
<1>1. ASSUME DriverInit PROVE Emptied
  BY <1>1 DEF DriverInit, Emptied
<1>2. ASSUME Control, Emptied, [DriverNext]_driverVars PROVE Emptied'
  <2> USE <1>2
  <2>1. CASE OpenAssembly /\ ~Fails
    <3>1. files'[AssemblyFile] = Torn("assembly") /\ UNCHANGED <<config, unit>>
      BY <2>1, OpenFiles DEF Same
    <3>2. AssemblyFile' = AssemblyFile
      BY <3>1, SameUnit
    <3>3. QED
      BY <3>1, <3>2 DEF Emptied
  <2>2. CASE UNCHANGED driverVars
    <3>1. UNCHANGED <<config, at, unit, files>> /\ AssemblyFile' = AssemblyFile
      BY <2>2, SameUnit
    <3>2. QED
      BY <3>1 DEF Emptied
  <2>3. CASE at' # "emit"
    BY <2>3 DEF Emptied
  <2>4. Early => at' # "emit"
    BY DEF Early, GoesOn, IsDone, Fails
  <2>5. /\ Reject => at' # "emit"
        /\ LinkOnly => at' # "emit"
        /\ Preprocess => at' # "emit"
        /\ EmitAssembly => at' # "emit"
        /\ OpenAssembly /\ Fails => at' # "emit"
        /\ Stop => at' # "emit"
    BY <2>4, LinkOnlyFiles, PreprocessFiles, EmitFiles, StopDoes DEF Reject, Exit, Early, Fails
  <2>6. /\ Assemble => at' # "emit"
        /\ Discard => at' # "emit"
        /\ Link => at' # "emit"
        /\ Dependencies => at' # "emit"
        /\ RunProgram => at' # "emit"
    BY AssembleFiles, DiscardFiles, LinkFiles, DependenciesFiles, RunFiles
  <2>7. /\ SingleReturned => at' # "emit"
        /\ UnitFailed => at' # "emit"
        /\ NextUnit => at' # "emit"
        /\ LastUnit => at' # "emit"
        /\ LinkObjects => at' # "emit"
    BY DEF SingleReturned, UnitFailed, NextUnit, LastUnit, LinkObjects, Exit, Go
  <2>8. QED
    BY <2>1, <2>2, <2>3, <2>4, <2>5, <2>6, <2>7, EarlyStages DEF DriverNext
<1>3. QED
  BY <1>1, <1>2, ControlHolds, PTL DEF DriverSpec

-----------------------------------------------------------------------------
(* The temporaries: each is gone once nothing needs it any more.           *)
LEMMA TidyAfter ==
  ASSUME Control, Tidy, config' = config,
         \A t \in Temporaries \ Debris' :
           files'[t] = Absent \/ (at' \in {"discard", "return", "exit"} /\ CutShort(t)')
  PROVE  Tidy'
BY SameNames DEF Tidy

(* A step that keeps the temporaries and needs no fewer of them.           *)
LEMMA TidyKept ==
  ASSUME Control, Tidy, config' = config, Debris \subseteq Debris',
         at \notin {"discard", "return", "exit", "stopped"},
         NEW S, S \cap (Temporaries \ Debris') = {}, Kept(S)
  PROVE  Tidy'
<1>1. \A t \in Temporaries \ Debris' : t \in Names /\ t \notin S /\ files[t] = Absent
  BY TemporaryNames DEF Control, Tidy, BrokenOff
<1>2. QED
  BY <1>1, TidyAfter DEF Kept

(* No step leaves a temporary file that no later stage will need.           *)
LEMMA TidyStep ==
  ASSUME Control, Control', Emptied, Tidy, DriverNext \/ UNCHANGED driverVars
  PROVE  Tidy'
<1> USE DEF Control
<1>0. /\ DriverTyping /\ Temporaries \subseteq Names
      /\ \A t \in Temporaries : ~IsName(t)
  BY TemporaryNames
<1>1. CASE Reject
  <2>1. at = "start" /\ at' = "exit" /\ config' = config /\ files' = files
    BY <1>1 DEF Reject, Exit
  <2>2. Debris \subseteq Debris' /\ Kept({})
    BY <2>1 DEF Debris, Kept
  <2>3. QED
    BY <2>1, <2>2, TidyKept
<1>2. CASE LinkOnly
  <2>1. Debris \subseteq Debris'
    BY <1>2, LinkOnlyFiles DEF Debris
  <2>2. QED
    BY <1>0, <1>2, <2>1, LinkOnlyFiles, TidyKept
<1>3. CASE Early
  <2>1. /\ config' = config /\ unit' = unit /\ files' = files /\ Mode' = Mode /\ Several' = Several
        /\ at \in {"start", "read", "preprocess", "parse", "analyze", "lower", "open"}
        /\ at' \in {"read", "preprocess", "parse", "analyze", "lower", "open", "return"}
    BY <1>3, SameUnit DEF Early, GoesOn, IsDone, Fails, FilesAside
  <2>2. Finished' = Finished \/ (Finished' = unit /\ ~Several)
    <3>1. Finished = unit - 1
      BY <2>1 DEF Finished
    <3>2. CASE GoesOn \/ Fails
      <4>1. at' \in {"read", "preprocess", "parse", "analyze", "lower", "open"} \/ (at' = "return" /\ ret' = 1)
        BY <3>2 DEF GoesOn, Fails
      <4>2. ret' # 0 \/ at' # "return"
        BY <4>1
      <4>3. /\ at' \notin {"dependencies", "discard", "run", "link objects", "exit"}
        BY <2>1
      <4>4. Finished' = unit' - 1
        BY <4>2, <4>3 DEF Finished
      <4>5. QED
        BY <2>1, <3>1, <4>4
    <3>3. CASE IsDone
      <4>1. Mode \in {"preprocess", "ast", "ir"}
        BY <3>3 DEF IsDone, Route
      <4>2. ~Several
        BY <4>1 DEF Mode
      <4>3. QED
        BY <3>3, <4>2, <2>1 DEF IsDone, Finished
    <3>4. QED
      BY <1>3, <3>2, <3>3 DEF Early
  <2>3. Debris \subseteq Debris' /\ Kept({})
    BY <2>1, <2>2 DEF Debris, Kept
  <2>4. QED
    BY <2>1, <2>3, TidyKept
<1>4. CASE Preprocess
  <2>1. CASE IsDone \/ Fails
    BY <1>3, <2>1 DEF Early
  <2>2. CASE ~(IsDone \/ Fails)
    <3>1. /\ at = "preprocess" /\ config' = config /\ unit' = unit /\ ~Several /\ IsName(Output)
          /\ Kept({Output}) /\ Mode' = Mode /\ Several' = Several
      BY <1>4, <2>2, PreprocessFiles, SameUnit DEF Same
    <3>2. Debris \subseteq Debris'
      BY <3>1 DEF Debris
    <3>3. QED
      BY <1>0, <3>1, <3>2, TidyKept
  <2>3. QED
    BY <2>1, <2>2
<1>5. CASE OpenAssembly
  <2>1. CASE Fails
    BY <1>3, <2>1 DEF Early
  <2>2. CASE ~Fails
    <3>1. /\ at = "open" /\ at' = "emit" /\ config' = config /\ unit' = unit /\ Kept({AssemblyFile})
          /\ Mode' = Mode /\ Several' = Several
      BY <1>5, <2>2, OpenFiles, SameUnit DEF Same
    <3>2. Mode = "assembly" => IsName(AssemblyFile)
      BY <3>1, Written DEF Route
    <3>3. Mode # "assembly" => AssemblyFile \in Debris'
      BY <3>1 DEF AssemblyFile, Debris
    <3>4. Debris \subseteq Debris'
      BY <3>1 DEF Debris, Finished
    <3>5. QED
      BY <1>0, <3>1, <3>2, <3>3, <3>4, TidyKept
  <2>3. QED
    BY <2>1, <2>2
<1>6. CASE EmitAssembly
  <2>1. /\ at = "emit" /\ config' = config /\ unit' = unit /\ Kept({AssemblyFile})
        /\ Mode = "assembly" => at' = "dependencies"
        /\ Mode = "object" => at' = "assemble"
        /\ Mode \in {"run", "link"} => at' = "link"
        /\ Mode \in {"assembly", "object", "run", "link"}
        /\ Mode' = Mode /\ Several' = Several
    BY <1>6, EmitFiles, SameUnit
  <2>2. Mode = "assembly" => IsName(AssemblyFile)
    BY <2>1, Written DEF Route
  <2>3. Mode # "assembly" => AssemblyFile \in Debris'
    BY <2>1 DEF AssemblyFile, Debris
  <2>4. Debris \subseteq Debris'
    <3>1. Several => Mode = "object"
      BY DEF Mode
    <3>2. QED
      BY <2>1, <3>1 DEF Debris, Finished
  <2>5. QED
    BY <1>0, <2>1, <2>2, <2>3, <2>4, TidyKept
<1>7. CASE Assemble
  <2>1. /\ at = "assemble" /\ config' = config /\ unit' = unit /\ status' = ret' /\ Mode = "object"
        /\ at' = IF ret' = 0 THEN "dependencies" ELSE "discard"
        /\ Output \in Names /\ (IsName(Output) \/ Output = TempObject(unit)) /\ Kept({Output})
        /\ Outcome(ret', Output, Made("object", <<unit>>, files[AssemblyFile].whole))
        /\ Mode' = Mode /\ Several' = Several
    BY <1>7, AssembleFiles, SameUnit DEF Same
  <2>2. config.inputs # << >> /\ unit \in Units /\ unit \in Nat
    BY <2>1, Products DEF Route, DriverTyping
  <2>3. /\ Finished = unit - 1
        /\ ret' # 0 => Finished' = unit - 1
        /\ ret' = 0 => Finished' = unit
    BY <2>1 DEF Finished
  <2>4. Debris \subseteq Debris'
    BY <2>1, <2>2, <2>3 DEF Debris, Objects
  <2>5. ASSUME NEW t \in Temporaries \ Debris'
        PROVE  files'[t] = Absent \/ (at' \in {"discard", "return", "exit"} /\ CutShort(t)')
    <3>1. files[t] = Absent /\ t \in Names
      BY <1>0, <2>1, <2>4, <2>5 DEF Tidy, BrokenOff
    <3>2. CASE t # Output
      BY <2>1, <3>1, <3>2 DEF Kept
    <3>3. CASE t = Output
      <4>1. Output = TempObject(unit)
        BY <1>0, <2>1, <3>3
      <4>2. Several /\ config.mode = "link"
        <5>1. ~IsName(Output)
          BY <1>0, <3>3
        <5>2. config.inputs # << >> /\ Mode = "object"
          BY <2>1, <2>2
        <5>3. /\ ~Several => IsName(Output)
              /\ Several /\ config.mode = "object" => IsName(Output)
          BY <5>2, <2>2, Products, OfConfig, NamesDerived DEF DriverTyping
        <5>4. Several => config.mode \in {"object", "link"}
          BY <2>1 DEF Route, Refused
        <5>5. QED
          BY <5>1, <5>3, <5>4
      <4>3. CASE ret' = 0
        <5>1. TempObject(unit) \in Objects(unit)
          <6>1. unit \in 1..unit
            BY <2>1, <2>2, Products
          <6>2. QED
            BY <6>1 DEF Objects
        <5>2. t \in Debris'
          BY <2>1, <2>3, <3>3, <4>1, <4>2, <4>3, <5>1 DEF Debris
        <5>3. QED
          BY <5>2
      <4>4. CASE ret' = 1
        BY <2>1, <3>1, <3>3, <4>4 DEF Outcome
      <4>5. CASE ret' = Signalled
        <5>1. files'[t] = Absent \/ ~files'[t].whole
          BY <2>1, <3>1, <3>3, <4>5, Contents DEF Outcome
        <5>2. at' = "discard" /\ t = TempObject(unit') /\ status' = Signalled
          BY <2>1, <3>3, <4>1, <4>5 DEF Signalled
        <5>3. QED
          BY <5>1, <5>2 DEF CutShort, TempObject
      <4>6. QED
        BY <2>1, <4>3, <4>4, <4>5 DEF Outcome
    <3>4. QED
      BY <3>2, <3>3
  <2>6. QED
    BY <2>1, <2>5, TidyAfter
<1>8. CASE Discard
  <2>1. /\ at = "discard" /\ at' = "return" /\ config' = config /\ unit' = unit /\ ret' = ret /\ status' = status
        /\ TempAssembly \in Names /\ Kept({TempAssembly}) /\ files'[TempAssembly] = Absent
        /\ Mode' = Mode /\ Several' = Several
    BY <1>8, DiscardFiles, SameUnit DEF Same
  <2>2. Finished' = Finished
    BY <2>1 DEF Finished
  <2>3. Debris \subseteq Debris' \cup {TempAssembly}
    BY <2>1, <2>2 DEF Debris
  <2>4. ASSUME NEW t \in Temporaries \ Debris', t # TempAssembly
        PROVE  files'[t] = Absent \/ (at' \in {"discard", "return", "exit"} /\ CutShort(t)')
    <3>1. files'[t] = files[t] /\ (files[t] = Absent \/ CutShort(t))
      BY <1>0, <2>1, <2>3, <2>4 DEF Tidy, Kept, BrokenOff
    <3>2. CutShort(t) => CutShort(t)'
      BY <2>1, <3>1 DEF CutShort, TempObject
    <3>3. QED
      BY <2>1, <3>1, <3>2
  <2>5. QED
    BY <2>1, <2>4, TidyAfter
<1>9. CASE Link
  <2>1. /\ at = "link" /\ config' = config /\ unit' = unit /\ ~Several /\ Mode \in {"run", "link"}
        /\ at' = IF ret' = 0 THEN "dependencies" ELSE "return"
        /\ Mode = "run" => Product = TempProgram
        /\ Mode = "link" => IsName(Product)
        /\ Kept({Product, TempAssembly, TempProgram}) /\ files'[TempAssembly] = Absent
        /\ ret' # 0 => files'[TempProgram] = Absent
        /\ ret' = 0 /\ Mode = "link" => files'[TempProgram] = files[TempProgram]
        /\ Mode' = Mode /\ Several' = Several
    BY <1>9, LinkFiles, SameUnit DEF Same
  <2>2. Debris = {TempAssembly}
    BY <2>1 DEF Debris
  <2>3. ret' = 0 /\ Mode = "run" => TempProgram \in Debris'
    BY <2>1 DEF Debris
  <2>4. ASSUME NEW t \in Temporaries \ Debris' PROVE files'[t] = Absent
    <3>1. t # TempAssembly => files[t] = Absent
      BY <2>1, <2>2, <2>4 DEF Tidy, BrokenOff
    <3>2. t \in Names /\ ~IsName(t)
      BY <1>0
    <3>3. QED
      BY <2>1, <2>3, <2>4, <3>1, <3>2 DEF Kept
  <2>5. QED
    BY <2>1, <2>4, TidyAfter
<1>10. CASE Dependencies
  <2>1. /\ at = "dependencies" /\ at' \in {"discard", "run", "return"}
        /\ Mode = "object" => at' = "discard"
        /\ Mode = "run" => at' = "run"
        /\ config' = config /\ unit' = unit /\ ret = 0 /\ ret' = 0 /\ Mode' = Mode /\ Several' = Several
    BY <1>10, DependenciesFiles, SameUnit DEF Same
  <2>2. Debris \subseteq Debris'
    BY <2>1 DEF Debris, Finished
  <2>3. Kept({}) \/ (Kept({DepFile}) /\ IsName(DepFile))
    BY <1>10, DependenciesFiles DEF Kept
  <2>4. QED
    BY <1>0, <2>1, <2>2, <2>3, TidyKept
<1>11. CASE RunProgram
  <2>1. /\ at = "run" /\ at' = "return" /\ config' = config /\ unit' = unit /\ ~Several /\ Mode = "run"
        /\ Kept({TempProgram}) /\ files'[TempProgram] = Absent
    BY <1>11, RunFiles DEF Same
  <2>2. Debris = {TempProgram}
    BY <2>1 DEF Debris
  <2>3. \A t \in Temporaries \ Debris' : files'[t] = Absent
    BY <1>0, <2>1, <2>2 DEF Tidy, Kept, BrokenOff
  <2>4. QED
    BY <2>1, <2>3, TidyAfter
<1>12. CASE SingleReturned
  <2>1. /\ at = "return" /\ at' = "exit" /\ ~Several
        /\ UNCHANGED <<config, unit, status, files>>
    BY <1>12 DEF SingleReturned, Exit, Quiet
  <2>2. Debris = {}
    BY <2>1 DEF Debris
  <2>3. \A t : CutShort(t) => CutShort(t)'
    BY <2>1 DEF CutShort, TempObject
  <2>4. QED
    BY <1>0, <2>1, <2>2, <2>3, TidyAfter DEF Tidy, BrokenOff
<1>13. CASE UnitFailed
  <2>1. /\ at = "return" /\ at' = "exit" /\ ret # 0 /\ Several
        /\ UNCHANGED <<config, unit, status>>
        /\ \A m \in Names : files'[m] \in {files[m], Absent}
        /\ config.mode # "object" => \A m \in Objects(unit - 1) \cap Names : files'[m] = Absent
    BY <1>13, UnitFailedFiles
  <2>2. Debris \subseteq (IF config.mode = "link" THEN Objects(unit - 1) ELSE {})
    BY <2>1 DEF Debris, Finished
  <2>3. ASSUME NEW t \in Temporaries, files[t] = Absent \/ CutShort(t)
        PROVE  files'[t] = Absent \/ CutShort(t)'
    <3>1. files'[t] \in {files[t], Absent}
      BY <1>0, <2>1
    <3>2. QED
      BY <2>1, <2>3, <3>1 DEF CutShort, TempObject
  <2>4. \A t \in Temporaries : files'[t] = Absent \/ CutShort(t)'
    BY <1>0, <2>1, <2>2, <2>3 DEF Tidy, BrokenOff
  <2>5. QED
    BY <2>1, <2>4, TidyAfter
<1>14. CASE NextUnit
  <2>1. /\ at = "return" /\ at' = "read" /\ unit' = unit + 1 /\ ret = 0
        /\ UNCHANGED <<config, ret, status, files>> /\ unit \in Nat
    BY <1>14 DEF NextUnit, DriverTyping
  <2>2. Finished' = Finished /\ status = 0 /\ Several' = Several
    BY <2>1 DEF Finished, ReturnCodes, Several
  <2>3. Mode = "object"
    BY <1>14 DEF NextUnit, Mode
  <2>4. Debris \subseteq Debris'
    BY <2>1, <2>2 DEF Debris
  <2>5. \A t \in Temporaries \ Debris' : files'[t] = Absent
    BY <2>1, <2>2, <2>4 DEF Tidy, CutShort, Signalled, BrokenOff
  <2>6. QED
    BY <2>1, <2>5, TidyAfter
<1>15. CASE LastUnit
  <2>1. /\ at = "return" /\ ret = 0 /\ Several
        /\ \/ config.mode = "object" /\ at' = "exit"
           \/ config.mode # "object" /\ at' = "link objects"
        /\ config' = config /\ unit' = unit /\ status' = status /\ files' = files
    BY <1>15 DEF LastUnit, Exit, Go, Quiet
  <2>2. Several' = Several /\ status = 0
    BY <2>1 DEF Several, ReturnCodes
  <2>3. Debris \subseteq Debris'
    BY <2>1, <2>2 DEF Debris, Finished
  <2>4. files' = files /\ status # Signalled /\ config' = config
    <3>1. status = 0 /\ Signalled = 137
      BY <2>2 DEF Signalled
    <3>2. status # Signalled
      BY <3>1
    <3>3. files' = files /\ config' = config
      BY <2>1
    <3>4. QED
      BY <3>2, <3>3
  <2>5. \A t \in Temporaries \ Debris' : files'[t] = Absent
    BY <2>1, <2>3, <2>4 DEF Tidy, CutShort, BrokenOff
  <2>6. QED
    BY <2>4, <2>5, TidyAfter
<1>16. CASE LinkObjects
  <2>1. /\ at = "link objects" /\ at' = "exit" /\ config' = config
        /\ IsName(FinalProduct) /\ Kept({FinalProduct} \cup Objects(unit))
        /\ \A m \in Objects(unit) \cap Names : files'[m] = Absent
    BY <1>16, LinkObjectsFiles
  <2>2. Debris \subseteq Objects(unit)
    BY <2>1 DEF Debris, Finished
  <2>3. \A t \in Temporaries : files'[t] = Absent
    BY <1>0, <2>1, <2>2 DEF Tidy, Kept, BrokenOff
  <2>4. QED
    BY <2>1, <2>3, TidyAfter
<1>17. CASE UNCHANGED driverVars
  <2>1. UNCHANGED <<config, at, unit, ret, exit, status, files>>
    BY <1>17
  <2>2. Debris' = Debris /\ Temporaries' = Temporaries
    BY <2>1, SameNames, SameUnit DEF Debris, Finished, Objects, TempObject
  <2>3. \A t : CutShort(t)' <=> CutShort(t)
    BY <2>1 DEF CutShort, TempObject
  <2>4. \A t : BrokenOff(t)' <=> BrokenOff(t)
    BY <2>1, SameUnit DEF BrokenOff
  <2>5. QED
    BY <2>1, <2>2, <2>3, <2>4 DEF Tidy
<1>18. CASE Stop
  <2>1. /\ at \in {"read", "preprocess", "parse", "analyze", "lower", "emit"} /\ at' = "stopped"
        /\ UNCHANGED <<config, unit, ret, status>>
        /\ files' = files \/ (Kept({Output}) /\ IsName(Output))
    BY <1>18, StopFiles
  <2>2. Several' = Several /\ AssemblyFile' = AssemblyFile /\ Finished' = Finished
    BY <2>1, SameUnit DEF Finished
  <2>3. ASSUME NEW t \in Temporaries \ Debris'
        PROVE  files'[t] = Absent \/ BrokenOff(t)'
    <3>1. files'[t] = files[t] /\ t \in Names
      BY <1>0, <2>1, <2>3 DEF Kept
    <3>2. CASE t \in Debris
      <4>1. at = "emit" /\ Mode # "assembly" /\ t = TempAssembly
        BY <2>1, <2>2, <2>3, <3>2 DEF Debris, Objects, TempObject
      <4>2. t = AssemblyFile /\ files[t] = Torn("assembly")
        BY <4>1 DEF AssemblyFile, Emptied
      <4>3. QED
        BY <2>1, <2>2, <3>1, <4>2 DEF BrokenOff
    <3>3. CASE t \notin Debris
      BY <2>1, <2>3, <3>1, <3>3 DEF Tidy, BrokenOff
    <3>4. QED
      BY <3>2, <3>3
  <2>4. QED
    BY <2>1, <2>3, SameNames DEF Tidy
<1>19. QED
  BY <1>18, <1>1, <1>2, <1>3, <1>4, <1>5, <1>6, <1>7, <1>8, <1>9, <1>10, <1>11, <1>12, <1>13, <1>14, <1>15,
     <1>16, <1>17, EarlyStages DEF DriverNext

(* They are always as they should be (driver.c:464-536, 594-606).           *)
LEMMA TidyHolds == DriverSpec => []Tidy
<1>1. ASSUME DriverInit PROVE Tidy
  <2>1. \A t \in Temporaries : files[t] = Absent
    BY <1>1 DEF DriverInit, Temporaries, Names
  <2>2. QED
    BY <2>1 DEF Tidy
<1>2. ASSUME Control, Control', Emptied, Tidy, [DriverNext]_driverVars PROVE Tidy'
  BY <1>2, TidyStep
<1>3. QED
  BY <1>1, <1>2, ControlHolds, EmptiedHolds, PTL DEF DriverSpec

-----------------------------------------------------------------------------
(* Sources are finished one after the other; only a script that fails      *)
(* undoes what was made.                                                   *)
LEMMA Progress ==
  ASSUME Control, Control', DriverNext \/ UNCHANGED driverVars
  PROVE  /\ Finished \in Int /\ Finished' \in Int /\ Reached \in Int /\ Reached' \in Int
         /\ Finished \in {unit - 1, unit}
         /\ Finished <= Finished' \/ (RunProgram /\ ret' # 0)
         /\ Reached <= Reached'
         /\ config' = config
<1> USE DEF Control
<1>0. /\ unit \in Nat /\ unit' \in Nat
      /\ Finished \in Int /\ Finished' \in Int /\ Reached \in Int /\ Reached' \in Int
      /\ Finished \in {unit - 1, unit} /\ Reached \in {Finished, unit}
      /\ Finished' \in {unit' - 1, unit'} /\ Reached' \in {Finished', unit'}
      /\ Finished <= Reached
      /\ Finished' <= Reached'
  <2>1. unit \in Nat /\ unit' \in Nat
    BY DEF DriverTyping
  <2>2. (Finished = unit - 1 \/ Finished = unit) /\ (Finished' = unit' - 1 \/ Finished' = unit')
    BY Zenon DEF Finished
  <2>3. (Reached = Finished \/ Reached = unit) /\ (Reached' = Finished' \/ Reached' = unit')
    BY Zenon DEF Reached
  <2>4. QED
    BY <2>1, <2>2, <2>3
<1> DEFINE Advances == /\ config' = config /\ Reached <= Reached'
                       /\ Finished <= Finished' \/ (RunProgram /\ ret' # 0)
<1>1. CASE Reject
  <2>1. /\ at = "start" /\ at' = "exit" /\ exit' = 1 /\ config' = config /\ unit' = unit
    BY <1>1 DEF Reject, Exit
  <2>2. Finished = unit - 1 /\ Reached = unit - 1
    BY <2>1 DEF Finished, Reached, Failed
  <2>3. QED
    BY <1>0, <2>1, <2>2
<1>2. CASE LinkOnly
  <2>1. /\ at = "start" /\ config' = config /\ unit' = unit
    BY <1>2, LinkOnlyFiles
  <2>2. Finished = unit - 1 /\ Reached = unit - 1
    BY <2>1 DEF Finished, Reached, Failed
  <2>3. QED
    BY <1>0, <2>1, <2>2
<1>3. CASE at \in {"start", "read", "preprocess", "parse", "analyze", "lower", "open", "emit", "assemble", "link"}
           /\ config' = config /\ unit' = unit
  <2>1. Finished = unit - 1 /\ Reached = unit - 1
    BY <1>3 DEF Finished, Reached, Failed
  <2>2. QED
    BY <1>0, <1>3, <2>1
<1>4. CASE Early
  BY <1>3, <1>4 DEF Early, GoesOn, IsDone, Fails, FilesAside
<1>5. CASE Preprocess
  BY <1>3, <1>4, <1>5, PreprocessFiles DEF Early, Same
<1>6. CASE OpenAssembly
  BY <1>3, <1>4, <1>6, OpenFiles DEF Early, Same
<1>7. CASE EmitAssembly
  BY <1>3, <1>7, EmitFiles
<1>8. CASE Assemble
  BY <1>3, <1>8, AssembleFiles DEF Same
<1>9. CASE Link
  BY <1>3, <1>9, LinkFiles DEF Same
<1>10. CASE Discard
  <2>1. /\ at = "discard" /\ at' = "return" /\ config' = config /\ unit' = unit /\ ret' = ret
    BY <1>10, DiscardFiles DEF Same
  <2>2. Finished' = Finished /\ (Failed' <=> Failed)
    BY <2>1 DEF Finished, Failed
  <2>3. QED
    BY <1>0, <2>1, <2>2 DEF Reached
<1>11. CASE Dependencies
  <2>1. /\ at = "dependencies" /\ at' \in {"discard", "run", "return"} /\ config' = config /\ unit' = unit
        /\ ret = 0 /\ ret' = 0
    BY <1>11, DependenciesFiles DEF Same
  <2>2. Finished = unit /\ Finished' = unit /\ ~Failed /\ ~Failed'
    BY <2>1 DEF Finished, Failed
  <2>3. QED
    BY <1>0, <2>1, <2>2 DEF Reached
<1>12. CASE RunProgram
  <2>1. /\ at = "run" /\ at' = "return" /\ config' = config /\ unit' = unit
    BY <1>12, RunFiles DEF Same
  <2>2. ret = 0
    BY <2>1 DEF ReturnCodes
  <2>3. Finished = unit /\ Reached = unit
    BY <2>1, <2>2 DEF Finished, Failed, Reached
  <2>4. Reached' = unit /\ (ret' = 0 => Finished' = unit)
    BY <2>1 DEF Finished, Failed, Reached
  <2>5. QED
    BY <1>0, <1>12, <2>1, <2>3, <2>4
<1>13. CASE SingleReturned
  <2>1. /\ at = "return" /\ at' = "exit" /\ exit' = ret /\ config' = config /\ unit' = unit /\ ~Several /\ ~Several'
    BY <1>13 DEF SingleReturned, Exit, Quiet, Several
  <2>2. Finished' = Finished /\ Reached' = Reached
    BY <2>1 DEF Finished, Failed, Reached
  <2>3. QED
    BY <1>0, <2>1, <2>2
<1>14. CASE UnitFailed
  <2>1. at = "return" /\ at' = "exit" /\ exit' = ret /\ ret # 0 /\ config' = config /\ unit' = unit
    BY <1>14, UnitFailedFiles
  <2>2. Finished = unit - 1 /\ Reached = unit /\ Reached' = unit
    BY <2>1 DEF Finished, Failed, Reached
  <2>3. QED
    BY <1>0, <2>1, <2>2
<1>15. CASE NextUnit
  <2>1. at = "return" /\ at' = "read" /\ ret = 0 /\ config' = config /\ unit' = unit + 1
    BY <1>15 DEF NextUnit
  <2>2. Finished = unit /\ Finished' = unit' - 1 /\ Reached = unit
    BY <2>1 DEF Finished, Failed, Reached
  <2>3. QED
    BY <1>0, <2>1, <2>2
<1>16. CASE LastUnit
  <2>1. /\ at = "return" /\ ret = 0 /\ config' = config /\ unit' = unit
        /\ (at' = "exit" /\ exit' = 0) \/ at' = "link objects"
    BY <1>16 DEF LastUnit, Exit, Go, Quiet
  <2>2. Finished = unit /\ Finished' = unit /\ Reached = unit
    BY <2>1 DEF Finished, Failed, Reached
  <2>3. QED
    BY <1>0, <2>1, <2>2
<1>17. CASE LinkObjects
  <2>1. /\ at = "link objects" /\ at' = "exit" /\ config' = config /\ unit' = unit /\ status' = exit'
        /\ Several /\ config.mode = "link" /\ (Several' <=> Several)
    BY <1>17, LinkObjectsFiles DEF Several
  <2>2. Finished = unit /\ Finished' = unit /\ Reached = unit
    BY <2>1 DEF Finished, Failed, Reached
  <2>3. QED
    BY <1>0, <2>1, <2>2
<1>18. CASE UNCHANGED driverVars
  <2>1. config' = config /\ at' = at /\ unit' = unit /\ ret' = ret /\ exit' = exit /\ status' = status
    BY <1>18
  <2>2. Finished' = Finished /\ Reached' = Reached
    BY <2>1 DEF Finished, Failed, Reached, Several
  <2>3. QED
    BY <1>0, <2>1, <2>2
<1>19. CASE Stop
  BY <1>3, <1>19, StopFiles
<1>20. Advances
  BY <1>19, <1>1, <1>2, <1>4, <1>5, <1>6, <1>7, <1>8, <1>9, <1>10, <1>11, <1>12, <1>13, <1>14, <1>15,
     <1>16, <1>17, <1>18, EarlyStages DEF DriverNext
<1>21. QED
  BY <1>0, <1>20

-----------------------------------------------------------------------------
(* The assembly handed to the assembler or linker is the source's own.     *)
LEMMA AssemblyGoodStep ==
  ASSUME Control, AssemblyGood, DriverNext \/ UNCHANGED driverVars
  PROVE  AssemblyGood'
<1>1. CASE EmitAssembly
  <2>1. /\ FromThisRun(AssemblyFile, <<unit>>)' /\ unit' = unit
        /\ files'[AssemblyFile].whole \/ truncated'
    BY <1>1, EmitFiles
  <2>2. AssemblyFile' = AssemblyFile
    BY <1>1, EmitFiles, SameUnit
  <2>3. QED
    BY <2>1, <2>2 DEF AssemblyGood
<1>2. CASE UNCHANGED driverVars
  <2>1. UNCHANGED <<config, at, unit, files, truncated>> /\ AssemblyFile' = AssemblyFile
    BY <1>2, SameUnit
  <2>2. QED
    BY <2>1 DEF AssemblyGood, FromThisRun, Fresh
<1>3. CASE at' \notin {"assemble", "link"}
  BY <1>3 DEF AssemblyGood
<1>4. Early => <1>3!1
  BY DEF Early, GoesOn, IsDone, Fails
<1>5. /\ Reject => <1>3!1
      /\ LinkOnly => <1>3!1
      /\ Preprocess => <1>3!1
      /\ OpenAssembly => <1>3!1
      /\ Stop => <1>3!1
  BY <1>4, LinkOnlyFiles, PreprocessFiles, OpenFiles, StopFiles DEF Reject, Exit, Early
<1>6. /\ Assemble => <1>3!1
      /\ Discard => <1>3!1
      /\ Link => <1>3!1
      /\ Dependencies => <1>3!1
      /\ RunProgram => <1>3!1
  BY AssembleFiles, DiscardFiles, LinkFiles, DependenciesFiles, RunFiles
<1>7. /\ SingleReturned => <1>3!1
      /\ UnitFailed => <1>3!1
      /\ NextUnit => <1>3!1
      /\ LastUnit => <1>3!1
      /\ LinkObjects => <1>3!1
  BY DEF SingleReturned, UnitFailed, NextUnit, LastUnit, LinkObjects, Exit, Go
<1>8. QED
  BY <1>1, <1>2, <1>3, <1>4, <1>5, <1>6, <1>7, EarlyStages DEF DriverNext

(* Where what is new comes from.                                           *)
LEMMA ProvenanceAfter ==
  ASSUME config' = config, \A n \in Names : Fresh(n)' => Explained(n)'
  PROVE  Provenance'
BY SameNames DEF Provenance

(* What was explained by a finished source still is.                       *)
LEMMA StillExplained ==
  ASSUME Control, Control', DriverNext \/ UNCHANGED driverVars, ~(RunProgram /\ ret' # 0),
         NEW n, files'[n] = files[n], \E k \in 1..Finished : files[n].from = <<k>>
  PROVE  Explained(n)'
<1>1. PICK k \in 1..Finished : files[n].from = <<k>>
  OBVIOUS
<1>2. k \in 1..Finished'
  BY <1>1, Progress
<1>3. QED
  BY <1>1, <1>2 DEF Explained

(* Whatever a step leaves that is new can be explained.                     *)
LEMMA ProvenanceStep ==
  ASSUME Control, Control', Emptied, Provenance, AssemblyGood, DriverNext \/ UNCHANGED driverVars
  PROVE  Provenance'
<1> USE DEF Control
(* Before the assembly is made, only finished sources explain.             *)
<1>0. ASSUME at \in {"start", "read", "preprocess", "parse", "analyze", "lower", "open", "dependencies",
                     "run", "link objects"},
             NEW n \in Names, Fresh(n)
      PROVE  \E k \in 1..Finished : files[n].from = <<k>>
  BY <1>0 DEF Provenance, Explained, Failed, BrokenOff
<1>1. ASSUME NEW n \in Names, files'[n] = files[n]
      PROVE  Fresh(n)' <=> Fresh(n)
  BY <1>1 DEF Fresh
<1>2. ASSUME NEW n \in Names, files'[n].kind = "absent"
      PROVE  ~Fresh(n)'
  BY <1>2 DEF Fresh
<1>3. CASE Reject
  <2>1. at = "start" /\ config' = config /\ files' = files /\ ~RunProgram
    BY <1>3 DEF Reject, Exit, RunProgram
  <2>2. QED
    BY <1>0, <1>1, <2>1, StillExplained, ProvenanceAfter
<1>4. CASE LinkOnly
  <2>1. /\ at = "start" /\ at' = "exit" /\ config' = config /\ status' = exit' /\ Kept({FinalProduct})
        /\ Outcome(exit', FinalProduct, Made("program", << >>, TRUE)) /\ ~RunProgram
    BY <1>4, LinkOnlyFiles DEF RunProgram
  <2>2. ASSUME NEW n \in Names, Fresh(n)' PROVE Explained(n)'
    <3>1. CASE files'[n] = files[n]
      BY <1>0, <1>1, <2>1, <2>2, <3>1, StillExplained
    <3>2. CASE exit' = 0
      BY <2>1, <3>2 DEF Explained
    <3>3. CASE files'[n] # files[n] /\ exit' # 0
      <4>1. n = FinalProduct /\ files'[n] # Absent
        BY <1>2, <2>1, <2>2, <3>3, Contents DEF Kept
      <4>2. files'[n] = Torn(Made("program", << >>, TRUE).kind)
        BY <2>1, <3>3, <4>1 DEF Outcome
      <4>3. Failed' /\ ~files'[n].whole /\ status' # 0
        BY <2>1, <3>3, <4>2, Contents DEF Failed
      <4>4. QED
        BY <4>3 DEF Explained
    <3>4. QED
      BY <3>1, <3>2, <3>3
  <2>3. QED
    BY <2>1, <2>2, ProvenanceAfter
<1>5. CASE Early
  <2>1. /\ at \in {"start", "read", "preprocess", "parse", "analyze", "lower", "open"}
        /\ config' = config /\ files' = files
    BY <1>5 DEF Early, GoesOn, IsDone, Fails, FilesAside
  <2>2. ~RunProgram
    BY <2>1 DEF RunProgram
  <2>3. QED
    BY <1>0, <1>1, <2>1, <2>2, StillExplained, ProvenanceAfter
<1>6. CASE Preprocess
  <2>1. CASE IsDone \/ Fails
    BY <1>5, <2>1 DEF Early
  <2>2. CASE ~(IsDone \/ Fails)
    <3>1. /\ at = "preprocess" /\ at' = "return" /\ config' = config /\ unit' = unit /\ Mode' = "preprocess"
          /\ Output \in Names /\ Kept({Output})
          /\ ret' \in {0, 1} /\ files'[Output] = Made("text", <<unit>>, ret' = 0)
          /\ ~RunProgram /\ config.inputs # << >>
      BY <1>6, <2>2, PreprocessFiles, SameUnit DEF Same, RunProgram, Route
    <3>2. ASSUME NEW n, n = Output PROVE Explained(n)'
      <4>1. CASE ret' = 0
        <5>1. files'[n].from = <<unit>> /\ Finished' = unit
          BY <3>1, <3>2, <4>1, Contents DEF Finished
        <5>2. unit \in 1..Finished'
          BY <3>1, <5>1, Products DEF DriverTyping
        <5>3. QED
          BY <5>1, <5>2 DEF Explained
      <4>2. CASE ret' = 1
        <5>1. ~files'[n].whole
          <6>1. files'[n].whole = (ret' = 0)
            BY <3>1, <3>2 DEF Made
          <6>2. ret' # 0
            BY <4>2
          <6>3. QED
            BY <6>1, <6>2
        <5>2. Failed' /\ ~files'[n].whole
          BY <3>1, <4>2, <5>1 DEF Failed
        <5>3. QED
          BY <3>1, <5>2 DEF Explained
      <4>3. QED
        BY <3>1, <4>1, <4>2
    <3>3. ASSUME NEW n \in Names, n # Output, Fresh(n)' PROVE Explained(n)'
      BY <1>0, <1>1, <3>1, <3>3, StillExplained DEF Kept
    <3>4. QED
      BY <3>1, <3>2, <3>3, ProvenanceAfter
  <2>3. QED
    BY <2>1, <2>2
<1>7. CASE OpenAssembly
  <2>1. CASE Fails
    BY <1>5, <2>1 DEF Early
  <2>2. CASE ~Fails
    <3>1. /\ at = "open" /\ at' = "emit" /\ config' = config /\ Kept({AssemblyFile})
          /\ AssemblyFile' = AssemblyFile /\ ~RunProgram
      BY <1>7, <2>2, OpenFiles, SameUnit DEF Same, RunProgram
    <3>2. ASSUME NEW n, n = AssemblyFile PROVE Explained(n)'
      BY <3>1, <3>2 DEF Explained
    <3>3. ASSUME NEW n \in Names, n # AssemblyFile, Fresh(n)' PROVE Explained(n)'
      BY <1>0, <1>1, <3>1, <3>3, StillExplained DEF Kept
    <3>4. QED
      BY <3>1, <3>2, <3>3, ProvenanceAfter
  <2>3. QED
    BY <2>1, <2>2
<1>8. CASE EmitAssembly
  <2>1. /\ at = "emit" /\ config' = config /\ unit' = unit /\ ret' = ret /\ Kept({AssemblyFile})
        /\ Mode = "assembly" => at' = "dependencies"
        /\ Mode # "assembly" => at' \in {"assemble", "link"}
        /\ FromThisRun(AssemblyFile, <<unit>>)' /\ AssemblyFile' = AssemblyFile
        /\ ~RunProgram /\ config.inputs # << >>
    BY <1>8, EmitFiles, SameUnit DEF RunProgram, Route
  <2>2. ASSUME NEW n, n = AssemblyFile PROVE Explained(n)'
    <3>1. CASE Mode = "assembly"
      <4>1. Finished' = unit
        BY <2>1, <3>1 DEF Finished, ReturnCodes
      <4>2. unit \in 1..Finished'
        BY <2>1, <4>1, Products DEF DriverTyping
      <4>3. files'[n].from = <<unit>>
        BY <2>1, <2>2 DEF FromThisRun
      <4>4. QED
        BY <4>2, <4>3 DEF Explained
    <3>2. CASE Mode # "assembly"
      BY <2>1, <2>2, <3>2 DEF Explained
    <3>3. QED
      BY <3>1, <3>2
  <2>3. ASSUME NEW n \in Names, n # AssemblyFile, Fresh(n)' PROVE Explained(n)'
    <3>1. files'[n] = files[n] /\ Fresh(n)
      BY <1>1, <2>1, <2>3 DEF Kept
    <3>2. \E k \in 1..Finished : files[n].from = <<k>>
      BY <2>1, <2>3, <3>1 DEF Provenance, Explained, Failed, BrokenOff
    <3>3. QED
      BY <2>1, <3>1, <3>2, StillExplained
  <2>4. QED
    BY <2>1, <2>2, <2>3, ProvenanceAfter
<1>9. CASE Assemble
  <2>1. /\ at = "assemble" /\ config' = config /\ unit' = unit /\ status' = ret'
        /\ at' = IF ret' = 0 THEN "dependencies" ELSE "discard"
        /\ Output \in Names /\ AssemblyFile = TempAssembly /\ Output # TempAssembly /\ Kept({Output})
        /\ Outcome(ret', Output, Made("object", <<unit>>, files[AssemblyFile].whole))
        /\ AssemblyFile' = AssemblyFile /\ ~RunProgram /\ config.inputs # << >>
    BY <1>9, AssembleFiles, SameUnit DEF Same, RunProgram, Route
  <2>2. unit \in 1..unit
    BY <2>1, Products DEF DriverTyping
  <2>3. ret' = 0 => Finished' = unit
    BY <2>1 DEF Finished
  <2>4. ASSUME NEW n \in Names, files'[n] = files[n], Fresh(n)' PROVE Explained(n)'
    <3>1. CASE n = AssemblyFile
      <4>1. CASE ret' = 0
        <5>1. files[n].from = <<unit>>
          BY <2>1, <3>1 DEF AssemblyGood, FromThisRun
        <5>2. QED
          BY <2>2, <2>3, <2>4, <4>1, <5>1 DEF Explained
      <4>2. CASE ret' # 0
        BY <2>1, <3>1, <4>2 DEF Explained
      <4>3. QED
        BY <4>1, <4>2
    <3>2. CASE n # AssemblyFile
      <4>1. \E k \in 1..Finished : files[n].from = <<k>>
        BY <1>1, <2>1, <2>4, <3>2 DEF Provenance, Explained, Failed, BrokenOff
      <4>2. QED
        BY <2>1, <2>4, <4>1, StillExplained
    <3>3. QED
      BY <3>1, <3>2
  <2>5. ASSUME NEW n \in Names, n = Output, Fresh(n)', files'[n] # files[n] PROVE Explained(n)'
    <3>1. CASE ret' = 0
      <4>1. files'[n].from = <<unit>>
        BY <2>1, <2>5, <3>1, Contents DEF Outcome
      <4>2. QED
        BY <2>2, <2>3, <3>1, <4>1 DEF Explained
    <3>2. CASE ret' # 0
      <4>1. files'[n] # Absent
        BY <1>2, <2>1, <2>5, Contents
      <4>2. files'[n] = Torn(Made("object", <<unit>>, files[AssemblyFile].whole).kind)
        BY <2>1, <2>5, <3>2, <4>1 DEF Outcome
      <4>3. Failed' /\ ~files'[n].whole /\ status' # 0
        BY <2>1, <3>2, <4>2, Contents DEF Failed
      <4>4. QED
        BY <4>3 DEF Explained
    <3>3. QED
      BY <3>1, <3>2
  <2>6. QED
    BY <2>1, <2>4, <2>5, ProvenanceAfter DEF Kept
<1>10. CASE Discard
  <2>1. /\ at = "discard" /\ at' = "return" /\ config' = config /\ unit' = unit /\ ret' = ret /\ status' = status
        /\ AssemblyFile = TempAssembly /\ Kept({TempAssembly}) /\ files'[TempAssembly] = Absent
        /\ Mode' = Mode /\ Several' = Several /\ ~RunProgram
    BY <1>10, DiscardFiles, SameUnit DEF Same, RunProgram
  <2>2. ASSUME NEW n \in Names, Fresh(n)' PROVE Explained(n)'
    <3>1. n # TempAssembly
      BY <1>2, <2>1, <2>2, Contents
    <3>2. files'[n] = files[n] /\ Explained(n)
      BY <1>1, <2>1, <2>2, <3>1 DEF Kept, Provenance
    <3>3. CASE \E k \in 1..Finished : files[n].from = <<k>>
      BY <2>1, <3>2, <3>3, StillExplained
    <3>4. CASE ~\E k \in 1..Finished : files[n].from = <<k>>
      <4>1. Failed' <=> Failed
        BY <2>1 DEF Failed
      <4>2. QED
        BY <2>1, <3>1, <3>2, <3>4, <4>1 DEF Explained, BrokenOff
    <3>5. QED
      BY <3>3, <3>4
  <2>3. QED
    BY <2>1, <2>2, ProvenanceAfter
<1>11. CASE Link
  <2>1. /\ at = "link" /\ config' = config /\ unit' = unit /\ status' = ret' /\ Mode \in {"run", "link"}
        /\ at' = IF ret' = 0 THEN "dependencies" ELSE "return"
        /\ Mode = "run" => Product = TempProgram
        /\ Kept({Product, TempAssembly, TempProgram}) /\ files'[TempAssembly] = Absent
        /\ ret' # 0 => files'[TempProgram] = Absent
        /\ ret' = 0 /\ Mode = "link" => files'[TempProgram] = files[TempProgram]
        /\ AssemblyFile = TempAssembly /\ ~RunProgram /\ config.inputs # << >>
    BY <1>11, LinkFiles DEF Same, RunProgram, Route
  <2>2. Mode = "link" \/ ret' = 0 =>
          Outcome(ret', Product, Made("program", <<unit>>, files[AssemblyFile].whole))
    BY <1>11, LinkFiles
  <2>3. unit \in 1..unit /\ (ret' = 0 => Finished' = unit)
    BY <2>1, Products DEF DriverTyping, Finished
  <2>4. ASSUME NEW n \in Names, Fresh(n)' PROVE Explained(n)'
    <3>1. n # TempAssembly /\ files'[n] # Absent
      BY <1>2, <2>1, <2>4, Contents
    <3>2. CASE files'[n] = files[n]
      <4>1. \E k \in 1..Finished : files[n].from = <<k>>
        BY <1>1, <2>1, <2>4, <3>1, <3>2 DEF Provenance, Explained, Failed, BrokenOff
      <4>2. QED
        BY <2>1, <3>2, <4>1, StillExplained
    <3>3. CASE files'[n] # files[n]
      <4>1. n = Product /\ (Mode = "link" \/ ret' = 0)
        BY <2>1, <3>1, <3>3 DEF Kept
      <4>2. CASE ret' = 0
        <5>1. files'[n].from = <<unit>>
          BY <2>2, <4>1, <4>2, Contents DEF Outcome
        <5>2. QED
          BY <2>3, <4>2, <5>1 DEF Explained
      <4>3. CASE ret' # 0
        <5>1. files'[n] = Torn(Made("program", <<unit>>, files[AssemblyFile].whole).kind)
          BY <2>2, <3>1, <3>3, <4>1, <4>3 DEF Outcome
        <5>2. Failed' /\ ~files'[n].whole /\ status' # 0
          BY <2>1, <4>3, <5>1, Contents DEF Failed
        <5>3. QED
          BY <5>2 DEF Explained
      <4>4. QED
        BY <4>2, <4>3
    <3>4. QED
      BY <3>2, <3>3
  <2>5. QED
    BY <2>1, <2>4, ProvenanceAfter
<1>12. CASE Dependencies
  <2>1. /\ at = "dependencies" /\ at' \in {"discard", "run", "return"} /\ config' = config /\ unit' = unit
        /\ ret' = 0 /\ ~RunProgram /\ config.inputs # << >>
    BY <1>12, DependenciesFiles DEF Same, RunProgram, Route
  <2>a. files' = files \/ (Kept({DepFile}) /\ files'[DepFile] = Made("dependencies", <<unit>>, TRUE))
    BY <1>12, DependenciesFiles
  <2>2. unit \in 1..Finished'
    <3>1. Finished' = unit
      BY <2>1 DEF Finished
    <3>2. unit \in 1..unit
      BY <2>1, Products DEF DriverTyping
    <3>3. QED
      BY <3>1, <3>2
  <2>3. ASSUME NEW n \in Names, Fresh(n)' PROVE Explained(n)'
    <3>1. CASE files'[n] = files[n]
      <4>1. \E k \in 1..Finished : files[n].from = <<k>>
        BY <1>0, <1>1, <2>1, <2>3, <3>1
      <4>2. QED
        BY <2>1, <3>1, <4>1, StillExplained
    <3>2. CASE files'[n] # files[n]
      <4>1. files'[n] = Made("dependencies", <<unit>>, TRUE)
        BY <2>a, <3>2 DEF Kept
      <4>2. files'[n].from = <<unit>>
        BY <4>1 DEF Made
      <4>3. QED
        BY <2>2, <4>2 DEF Explained
    <3>3. QED
      BY <3>1, <3>2
  <2>4. QED
    BY <2>1, <2>3, ProvenanceAfter
<1>13. CASE RunProgram
  <2>1. /\ at = "run" /\ at' = "return" /\ config' = config /\ status' = ret'
        /\ Mode = "run" /\ ~Several /\ ~Several' /\ config.inputs # << >>
        /\ Kept({TempProgram}) /\ files'[TempProgram] = Absent
    BY <1>13, RunFiles DEF Same, Several
  <2>2. config.mode = "run"
    BY <2>1 DEF Mode
  <2>3. ASSUME NEW n \in Names, Fresh(n)' PROVE Explained(n)'
    <3>1. files'[n] = files[n]
      BY <1>2, <2>1, <2>3, Contents DEF Kept
    <3>2. CASE ret' = 0
      BY <1>0, <1>1, <2>1, <2>3, <3>1, <3>2, StillExplained
    <3>3. CASE ret' # 0
      <4>1. Failed' /\ status' # 0
        BY <2>1, <3>3 DEF Failed
      <4>2. QED
        BY <2>1, <2>2, <4>1 DEF Explained
    <3>4. QED
      BY <3>2, <3>3
  <2>4. QED
    BY <2>1, <2>3, ProvenanceAfter
<1>14. CASE SingleReturned
  <2>1. /\ at = "return" /\ at' = "exit" /\ exit' = ret /\ config' = config /\ unit' = unit
        /\ status' = status /\ files' = files /\ Mode' = Mode /\ Several' = Several /\ ~RunProgram
    BY <1>14, SameUnit DEF SingleReturned, Exit, Quiet, RunProgram
  <2>2. ASSUME NEW n \in Names, Fresh(n)' PROVE Explained(n)'
    <3>1. files'[n] = files[n] /\ Explained(n)
      BY <1>1, <2>1, <2>2 DEF Provenance
    <3>2. CASE \E k \in 1..Finished : files[n].from = <<k>>
      BY <2>1, <3>1, <3>2, StillExplained
    <3>3. CASE ~\E k \in 1..Finished : files[n].from = <<k>>
      <4>1. Failed' <=> Failed
        BY <2>1 DEF Failed
      <4>2. QED
        BY <2>1, <3>1, <3>3, <4>1 DEF Explained, BrokenOff
    <3>4. QED
      BY <3>2, <3>3
  <2>3. QED
    BY <2>1, <2>2, ProvenanceAfter
<1>15. CASE UnitFailed
  <2>1. /\ at = "return" /\ at' = "exit" /\ exit' = ret /\ config' = config /\ unit' = unit /\ ret # 0
        /\ status' = status /\ \A m \in Names : files'[m] \in {files[m], Absent}
        /\ Mode' = Mode /\ Several' = Several /\ ~RunProgram
    BY <1>15, UnitFailedFiles, SameUnit DEF RunProgram
  <2>2. ASSUME NEW n \in Names, Fresh(n)' PROVE Explained(n)'
    <3>1. files'[n] = files[n]
      BY <1>2, <2>1, <2>2, Contents
    <3>2. Explained(n)
      BY <1>1, <2>1, <2>2, <3>1 DEF Provenance
    <3>3. CASE \E k \in 1..Finished : files[n].from = <<k>>
      BY <2>1, <3>1, <3>3, StillExplained
    <3>4. CASE ~\E k \in 1..Finished : files[n].from = <<k>>
      <4>1. Failed' /\ Failed
        BY <2>1 DEF Failed
      <4>2. QED
        BY <2>1, <3>1, <3>2, <3>4, <4>1 DEF Explained, BrokenOff
    <3>5. QED
      BY <3>3, <3>4
  <2>3. QED
    BY <2>1, <2>2, ProvenanceAfter
<1>16. CASE NextUnit \/ LastUnit
  <2>1. /\ at = "return" /\ ret = 0 /\ config' = config /\ files' = files /\ ~RunProgram
    BY <1>16 DEF NextUnit, LastUnit, Exit, Go, RunProgram
  <2>2. ASSUME NEW n \in Names, Fresh(n)' PROVE Explained(n)'
    <3>1. \E k \in 1..Finished : files[n].from = <<k>>
      BY <1>1, <2>1, <2>2 DEF Provenance, Explained, Failed, BrokenOff
    <3>2. QED
      BY <2>1, <3>1, StillExplained
  <2>3. QED
    BY <2>1, <2>2, ProvenanceAfter
<1>17. CASE LinkObjects
  <2>1. /\ at = "link objects" /\ at' = "exit" /\ config' = config /\ status' = exit' /\ ~RunProgram
        /\ Kept({FinalProduct} \cup Objects(unit))
        /\ FinalProduct \notin Objects(unit)
        /\ \A m \in Objects(unit) \cap Names : files'[m] = Absent
    BY <1>17, LinkObjectsFiles DEF RunProgram
  <2>2. Outcome(exit', FinalProduct, LinkedProgram)
    BY <1>17, LinkObjectsFiles
  <2>3. ASSUME NEW n \in Names, Fresh(n)' PROVE Explained(n)'
    <3>1. CASE files'[n] = files[n]
      BY <1>0, <1>1, <2>1, <2>3, <3>1, StillExplained
    <3>2. CASE exit' = 0
      BY <2>1, <3>2 DEF Explained
    <3>3. CASE files'[n] # files[n] /\ exit' # 0
      <4>1. files'[n] # Absent
        BY <1>2, <2>3, Contents
      <4>2. n = FinalProduct
        BY <2>1, <3>3, <4>1 DEF Kept
      <4>3. files'[n] = Torn(LinkedProgram.kind)
        BY <2>2, <3>3, <4>1, <4>2 DEF Outcome
      <4>4. Failed' /\ ~files'[n].whole /\ status' # 0
        BY <2>1, <3>3, <4>3, Contents DEF Failed
      <4>5. QED
        BY <4>4 DEF Explained
    <3>4. QED
      BY <3>1, <3>2, <3>3
  <2>4. QED
    BY <2>1, <2>3, ProvenanceAfter
<1>18. CASE UNCHANGED driverVars
  <2>1. /\ config' = config /\ at' = at /\ unit' = unit /\ ret' = ret /\ exit' = exit /\ status' = status
        /\ files' = files
    BY <1>18
  <2>2. /\ AssemblyFile' = AssemblyFile /\ Mode' = Mode /\ Several' = Several
        /\ Finished' = Finished /\ (Failed' <=> Failed)
    BY <2>1, SameUnit DEF Finished, Failed
  <2>3. ASSUME NEW n \in Names, Fresh(n)' PROVE Explained(n)'
    <3>1. Fresh(n) /\ (BrokenOff(n)' <=> BrokenOff(n))
      BY <1>1, <2>1, <2>2, <2>3 DEF BrokenOff
    <3>2. Explained(n)
      BY <2>3, <3>1 DEF Provenance
    <3>3. QED
      BY <2>1, <2>2, <3>1, <3>2 DEF Explained
  <2>4. QED
    BY <2>1, <2>3, ProvenanceAfter
<1>19. CASE Stop
  <2>1. /\ at \in {"read", "preprocess", "parse", "analyze", "lower", "emit"} /\ at' = "stopped"
        /\ UNCHANGED <<config, unit, ret, status>> /\ ~RunProgram
        /\ \/ files' = files
           \/ /\ Mode = "preprocess" /\ Kept({Output})
              /\ files'[Output] = Made("text", <<unit>>, FALSE)
    BY <1>19, StopFiles DEF RunProgram
  <2>2. Mode' = Mode /\ AssemblyFile' = AssemblyFile
    BY <2>1, SameUnit
  <2>3. ASSUME NEW n \in Names, Fresh(n)' PROVE Explained(n)'
    <3>1. CASE files'[n] # files[n]
      <4>1. Mode' = "preprocess" /\ files'[n] = Made("text", <<unit>>, FALSE)
        BY <2>1, <2>2, <3>1 DEF Kept
      <4>2. ~files'[n].whole
        BY <4>1, Contents
      <4>3. Failed' /\ Mode' = "preprocess"
        BY <2>1, <4>1 DEF Failed
      <4>4. QED
        BY <4>2, <4>3 DEF Explained
    <3>2. CASE files'[n] = files[n]
      <4>1. Fresh(n)
        BY <1>1, <2>3, <3>2
      <4>2. CASE at = "emit" /\ n = AssemblyFile
        <5>1. BrokenOff(n)'
          BY <2>1, <2>2, <3>2, <4>2 DEF BrokenOff, Emptied
        <5>2. QED
          BY <5>1 DEF Explained
      <4>3. CASE ~(at = "emit" /\ n = AssemblyFile)
        <5>1. \E k \in 1..Finished : files[n].from = <<k>>
          BY <2>1, <4>1, <4>3 DEF Provenance, Explained, Failed, BrokenOff
        <5>2. QED
          BY <2>1, <3>2, <5>1, StillExplained
      <4>4. QED
        BY <4>2, <4>3
    <3>3. QED
      BY <3>1, <3>2
  <2>4. QED
    BY <2>1, <2>3, ProvenanceAfter
<1>20. QED
  BY <1>19, <1>3, <1>4, <1>5, <1>6, <1>7, <1>8, <1>9, <1>10, <1>11, <1>12, <1>13, <1>14, <1>15,
     <1>16, <1>17, <1>18, EarlyStages DEF DriverNext

-----------------------------------------------------------------------------
(* What is good stays so while its file is left alone.                     *)
LEMMA Truncation ==
  ASSUME Control, DriverNext \/ UNCHANGED driverVars
  PROVE  truncated => truncated'
<1>1. Early => truncated' = truncated
  BY DEF Early, GoesOn, IsDone, Fails, FilesAside
<1>2. /\ Reject => truncated' = truncated
      /\ LinkOnly => truncated' = truncated
      /\ Preprocess => truncated' = truncated
      /\ OpenAssembly => truncated' = truncated
  BY <1>1, LinkOnlyFiles, PreprocessFiles, OpenFiles DEF Reject, Exit, Early, Same
<1>3. EmitAssembly => (truncated => truncated')
  BY EmitFiles
<1>4. /\ Assemble => truncated' = truncated
      /\ Discard => truncated' = truncated
      /\ Link => truncated' = truncated
      /\ Dependencies => truncated' = truncated
      /\ RunProgram => truncated' = truncated
  BY AssembleFiles, DiscardFiles, LinkFiles, DependenciesFiles, RunFiles DEF Same
<1>5. /\ SingleReturned => truncated' = truncated
      /\ UnitFailed => truncated' = truncated
      /\ NextUnit => truncated' = truncated
      /\ LastUnit => truncated' = truncated
      /\ LinkObjects => truncated' = truncated
  BY LinkObjectsFiles DEF SingleReturned, UnitFailed, NextUnit, LastUnit, Exit, Go
<1>6. (UNCHANGED driverVars => truncated' = truncated) /\ (Stop => truncated' = truncated)
  BY StopDoes
<1>7. QED
  BY <1>1, <1>2, <1>3, <1>4, <1>5, <1>6, EarlyStages DEF DriverNext

(* A file that is good and not touched stays good.                          *)
LEMMA GoodKept ==
  ASSUME Control, DriverNext \/ UNCHANGED driverVars,
         NEW n, NEW kind, NEW k, Good(n, kind, k), files'[n] = files[n]
  PROVE  Good(n, kind, k)'
BY Truncation DEF Good, FromThisRun, Fresh

(* A file is good that is made of a source, whole unless a write was cut    *)
(* short.                                                                   *)
LEMMA GoodMade ==
  ASSUME NEW n, NEW kind \in {"text", "assembly", "object", "program"}, NEW k, NEW whole,
         files'[n] = Made(kind, <<k>>, whole), whole \/ truncated'
  PROVE  Good(n, kind, k)'
<1>1. files'[n].kind = kind /\ files'[n].from = <<k>> /\ files'[n].whole = whole
  BY DEF Made
<1>2. files'[n].whole \/ truncated'
  BY <1>1
<1>3. QED
  BY <1>1, <1>2 DEF Good, FromThisRun, Fresh

(* While several sources are compiled, only the assembly and dependency    *)
(* files are written between one object and the next.                      *)
LEMMA SeveralKeep ==
  ASSUME Control, Control', Several, config.mode \in {"object", "link"},
         DriverNext \/ UNCHANGED driverVars, ~Assemble,
         at' # "exit" \/ config.mode = "object"
  PROVE  /\ Finished' = Finished
         /\ \A m \in Names : \/ files'[m] = files[m]
                             \/ m = TempAssembly
                             \/ IsName(m) /\ \A k \in Units : m # ObjectName(config.inputs[k])
<1> USE DEF Control
<1> DEFINE FilesKept ==
      \A m \in Names : \/ files'[m] = files[m]
                       \/ m = TempAssembly
                       \/ IsName(m) /\ \A k \in Units : m # ObjectName(config.inputs[k])
<1>0. config.inputs # << >> /\ Mode = "object"
  <2>1. Len(<< >>) = 0
    OBVIOUS
  <2>2. QED
    BY <2>1 DEF Several, Mode
<1>1. CASE Reject
  <2>1. /\ at = "start" /\ at' = "exit" /\ exit' = 1 /\ config' = config /\ files' = files /\ unit' = unit
        /\ status' = status /\ status = 0
    BY <1>1 DEF Reject, Exit, ReturnCodes
  <2>2. Finished' = Finished
    BY <2>1 DEF Finished
  <2>3. QED
    BY <2>1, <2>2
<1>2. CASE LinkOnly
  BY <1>0, <1>2, LinkOnlyFiles
<1>3. CASE Early
  <2>1. ~IsDone
    BY <1>0 DEF IsDone, Route
  <2>2. /\ at \in {"start", "read", "preprocess", "parse", "analyze", "lower", "open"}
        /\ unit' = unit /\ files' = files
    BY <1>3 DEF Early, GoesOn, IsDone, Fails, FilesAside
  <2>3. at' \in {"read", "preprocess", "parse", "analyze", "lower", "open"} \/ (at' = "return" /\ ret' # 0)
    BY <1>3, <2>1 DEF Early, GoesOn, Fails
  <2>4. Finished = unit - 1 /\ Finished' = unit - 1
    BY <2>2, <2>3 DEF Finished
  <2>5. QED
    BY <2>2, <2>4
<1>4. CASE Preprocess
  BY <1>0, <1>3, <1>4, PreprocessFiles DEF Early
<1>5. CASE OpenAssembly
  <2>1. CASE Fails
    BY <1>3, <2>1 DEF Early
  <2>2. CASE ~Fails
    <3>1. at = "open" /\ at' = "emit" /\ unit' = unit /\ Kept({AssemblyFile}) /\ AssemblyFile = TempAssembly
      BY <1>0, <1>5, <2>2, OpenFiles, Written DEF Same
    <3>2. Finished' = Finished
      BY <3>1 DEF Finished
    <3>3. QED
      BY <3>1, <3>2 DEF Kept
  <2>3. QED
    BY <2>1, <2>2
<1>6. CASE EmitAssembly
  <2>1. at = "emit" /\ at' = "assemble" /\ unit' = unit /\ Kept({AssemblyFile}) /\ AssemblyFile = TempAssembly
    BY <1>0, <1>6, EmitFiles, Written
  <2>2. Finished' = Finished
    BY <2>1 DEF Finished
  <2>3. QED
    BY <2>1, <2>2 DEF Kept
<1>7. CASE Discard
  <2>1. at = "discard" /\ at' = "return" /\ unit' = unit /\ ret' = ret /\ Kept({TempAssembly})
    BY <1>7, DiscardFiles DEF Same
  <2>2. Finished' = Finished
    BY <2>1 DEF Finished
  <2>3. QED
    BY <2>1, <2>2 DEF Kept
<1>8. CASE Link \/ RunProgram
  BY <1>0, <1>8, LinkFiles, RunFiles
<1>9. CASE Dependencies
  <2>1. at = "dependencies" /\ at' \in {"discard", "run", "return"} /\ unit' = unit /\ ret = 0 /\ ret' = 0
    BY <1>9, DependenciesFiles DEF Same
  <2>2. Finished' = Finished
    BY <2>1 DEF Finished
  <2>3. \/ files' = files
        \/ /\ Kept({DepFile}) /\ IsName(DepFile)
           /\ \A k \in Units : DepFile # ObjectName(config.inputs[k])
    BY <1>9, DependenciesFiles
  <2>4. QED
    BY <2>2, <2>3 DEF Kept
<1>10. CASE SingleReturned
  BY <1>10 DEF SingleReturned
<1>11. CASE UnitFailed
  <2>1. /\ at = "return" /\ at' = "exit" /\ exit' = ret /\ ret # 0 /\ unit' = unit /\ config' = config
        /\ config.mode = "object" /\ \A m \in Names : files'[m] = files[m]
    BY <1>11, UnitFailedFiles
  <2>2. Finished' = Finished
    BY <2>1 DEF Finished
  <2>3. QED
    BY <2>1, <2>2
<1>12. CASE NextUnit
  <2>1. at = "return" /\ at' = "read" /\ ret = 0 /\ unit' = unit + 1 /\ files' = files /\ unit \in Nat
    BY <1>12 DEF NextUnit, DriverTyping
  <2>2. Finished = unit /\ Finished' = unit' - 1
    BY <2>1 DEF Finished
  <2>3. QED
    BY <2>1, <2>2
<1>13. CASE LastUnit
  <2>1. /\ at = "return" /\ ret = 0 /\ unit' = unit /\ files' = files
        /\ (at' = "exit" /\ exit' = 0) \/ at' = "link objects"
    BY <1>13 DEF LastUnit, Exit, Go, Quiet
  <2>2. Finished = unit /\ Finished' = unit
    BY <2>1 DEF Finished
  <2>3. QED
    BY <2>1, <2>2
<1>14. CASE LinkObjects
  BY <1>14, LinkObjectsFiles
<1>15. CASE UNCHANGED driverVars
  <2>1. /\ config' = config /\ at' = at /\ unit' = unit /\ ret' = ret /\ exit' = exit /\ status' = status
        /\ files' = files
    BY <1>15
  <2>2. Finished' = Finished
    BY <2>1 DEF Finished, Several
  <2>3. QED
    BY <2>1, <2>2
<1>16. CASE Stop
  <2>1. /\ at \in {"read", "preprocess", "parse", "analyze", "lower", "emit"} /\ at' = "stopped"
        /\ unit' = unit /\ files' = files
    BY <1>0, <1>16, StopFiles
  <2>2. Finished' = Finished
    BY <2>1 DEF Finished
  <2>3. QED
    BY <2>1, <2>2
<1>17. QED
  BY <1>16, <1>1, <1>2, <1>3, <1>4, <1>5, <1>6, <1>7, <1>8, <1>9, <1>10, <1>11, <1>12, <1>13, <1>14, <1>15,
     EarlyStages DEF DriverNext

(* The source just assembled is the next one finished.                     *)
LEMMA AssembledNext ==
  ASSUME Control, Assemble
  PROVE  /\ Finished = unit - 1 /\ Reached' = unit
         /\ ret' = 0 => Finished' = unit
         /\ ret' # 0 => Finished' = unit - 1
         /\ unit \in Units /\ unit \in Nat
<1>1. /\ at = "assemble" /\ at' = IF ret' = 0 THEN "dependencies" ELSE "discard"
      /\ unit' = unit
  BY AssembleFiles DEF Same
<1>2. /\ Finished = unit - 1
      /\ ret' = 0 => Finished' = unit
      /\ ret' # 0 => Finished' = unit - 1 /\ Failed'
  BY <1>1 DEF Finished, Failed
<1>3. Reached' = unit
  BY <1>1, <1>2 DEF Reached
<1>4. unit \in Units /\ unit \in Nat
  BY <1>1, Products DEF Control, Route, DriverTyping
<1>5. QED
  BY <1>2, <1>3, <1>4

(* A source that is finished is one of those on the command line.          *)
LEMMA FinishedUnits ==
  ASSUME Control, Control', config.inputs # << >>, DriverNext \/ UNCHANGED driverVars
  PROVE  \A k \in 1..Finished' : k \in Units /\ k \in Nat
<1>1. config' = config /\ Units' = Units /\ Units = 1..Len(config.inputs)
  BY Progress, SameNames, OfConfig DEF Control, DriverTyping
<1>2. unit' \in 1..Len(config.inputs) /\ unit' \in Nat
  BY <1>1 DEF Control, DriverTyping
<1>3. Finished' = unit' - 1 \/ Finished' = unit'
  BY Zenon DEF Finished
<1> DEFINE n == Len(config.inputs)
<1>4. n \in Nat /\ unit' \in 1..n
  BY <1>2, OfConfig DEF Control, DriverTyping
<1> HIDE DEF n
<1>5. \A k \in 1..Finished' : k \in 1..n /\ k \in Nat
  BY <1>2, <1>3, <1>4
<1>6. QED
  BY <1>1, <1>5 DEF n

(* No step touches an object that waits for the linker.                     *)
LEMMA ObjectsWaitStep ==
  ASSUME Control, Control', AssemblyGood, ObjectsWait, DriverNext \/ UNCHANGED driverVars
  PROVE  ObjectsWait'
<1>1. config' = config /\ Several' = Several
  BY Progress DEF Several
<1>2. SUFFICES ASSUME Several, config.mode = "link", at' # "exit", NEW k \in 1..Finished',
                      NEW n, n = TempObject(k)
               PROVE  Good(n, "object", k)'
  BY <1>1 DEF ObjectsWait, TempObject
<1>3. config.inputs # << >> /\ k \in Units /\ n \in Names /\ ~IsName(n) /\ n # TempAssembly
  <2>1. Len(<< >>) = 0
    OBVIOUS
  <2>2. config.inputs # << >>
    BY <1>2, <2>1 DEF Several
  <2>3. k \in Units
    BY <2>2, FinishedUnits
  <2>4. QED
    BY <1>2, <2>2, <2>3, TemporaryNames, NamesApart DEF Control
<1>4. at # "exit" \/ UNCHANGED driverVars
  BY StopFiles, LinkOnlyFiles, PreprocessFiles, OpenFiles, EmitFiles, AssembleFiles, DiscardFiles, LinkFiles,
     DependenciesFiles, RunFiles, UnitFailedFiles, LinkObjectsFiles, EarlyStages
     DEF DriverNext, Reject, Early, GoesOn, IsDone, Fails, SingleReturned, NextUnit, LastUnit
<1>5. at # "exit"
  BY <1>2, <1>4
<1>6. ASSUME k \in 1..Finished, files'[n] = files[n]
      PROVE  Good(n, "object", k)'
  <2>1. Good(n, "object", k)
    BY <1>2, <1>5, <1>6 DEF ObjectsWait
  <2>2. QED
    BY <1>6, <2>1, GoodKept
<1>7. CASE ~Assemble
  <2>1. Finished' = Finished /\ files'[n] = files[n]
    BY <1>2, <1>3, <1>7, SeveralKeep
  <2>2. QED
    BY <1>2, <1>6, <2>1
<1>8. CASE Assemble
  <2>1. /\ Kept({Output}) /\ Outcome(ret', Output, Made("object", <<unit>>, files[AssemblyFile].whole))
        /\ at = "assemble" /\ truncated' = truncated
    BY <1>8, AssembleFiles DEF Same
  <2>2. Output = TempObject(unit)
    BY <1>2, <1>3, Products DEF Control
  <2>3. CASE k = unit
    <3>1. ret' = 0
      BY <1>2, <1>8, <2>3, AssembledNext
    <3>2. files'[n] = Made("object", <<k>>, files[AssemblyFile].whole)
      BY <1>2, <2>1, <2>2, <2>3, <3>1 DEF Outcome
    <3>3. files[AssemblyFile].whole \/ truncated'
      BY <2>1 DEF AssemblyGood
    <3>4. QED
      BY <3>2, <3>3, GoodMade
  <2>4. CASE k # unit
    <3>1. k \in 1..Finished
      BY <1>2, <1>8, <2>4, AssembledNext
    <3>2. files'[n] = files[n]
      BY <1>2, <1>3, <2>1, <2>2, <2>4, NamesApart DEF Kept
    <3>3. QED
      BY <1>6, <3>1, <3>2
  <2>5. QED
    BY <2>3, <2>4
<1>9. QED
  BY <1>7, <1>8

(* An object file stays that of the last source of its name so far,         *)
(* whichever source comes next.                                             *)
LEMMA ObjectsKeptStep ==
  ASSUME Control, Control', AssemblyGood, ObjectsKept, DriverNext \/ UNCHANGED driverVars
  PROVE  ObjectsKept'
<1>1. config' = config /\ Several' = Several /\ \A j : SameObject(j)' = SameObject(j)
  BY Progress, SameNames DEF Several
<1>2. SUFFICES ASSUME Several, config.mode = "object", NEW j \in 1..Finished',
                      \A i \in SameObject(j) \cap 1..Reached' : i <= j,
                      NEW n, n = ObjectName(config.inputs[j])
               PROVE  Good(n, "object", j)'
  BY <1>1 DEF ObjectsKept
<1>3. config.inputs # << >> /\ j \in Units /\ j \in Nat /\ n \in Names /\ IsName(n) /\ n # TempAssembly
  <2>1. Len(<< >>) = 0
    OBVIOUS
  <2>2. config.inputs # << >>
    BY <1>2, <2>1 DEF Several
  <2>3. j \in Units /\ j \in Nat
    BY <2>2, FinishedUnits
  <2>4. n \in Names
    BY <1>2, <2>3 DEF Names, Units, ToSet
  <2>5. QED
    BY <1>2, <2>2, <2>3, <2>4, NamesApart, NamesDerived
<1>4. ASSUME j \in 1..Finished, files'[n] = files[n]
      PROVE  Good(n, "object", j)'
  <2>1. Reached \in Int /\ Reached' \in Int /\ Reached <= Reached'
    BY Progress
  <2>2. \A i \in SameObject(j) \cap 1..Reached : i <= j
    BY <1>2, <2>1
  <2>3. Good(n, "object", j)
    BY <1>2, <1>4, <2>2 DEF ObjectsKept
  <2>4. QED
    BY <1>4, <2>3, GoodKept
<1>5. CASE ~Assemble
  <2>1. Finished' = Finished /\ files'[n] = files[n]
    BY <1>2, <1>3, <1>5, SeveralKeep
  <2>2. QED
    BY <1>2, <1>4, <2>1
<1>6. CASE Assemble
  <2>1. /\ Kept({Output}) /\ Outcome(ret', Output, Made("object", <<unit>>, files[AssemblyFile].whole))
        /\ at = "assemble" /\ truncated' = truncated
    BY <1>6, AssembleFiles DEF Same
  <2>2. Output = ObjectName(config.inputs[unit])
    BY <1>2, <1>3, Products DEF Control, Source
  <2>3. CASE j = unit
    <3>1. ret' = 0
      BY <1>2, <1>6, <2>3, AssembledNext
    <3>2. files'[n] = Made("object", <<j>>, files[AssemblyFile].whole)
      BY <1>2, <2>1, <2>2, <2>3, <3>1 DEF Outcome
    <3>3. files[AssemblyFile].whole \/ truncated'
      BY <2>1 DEF AssemblyGood
    <3>4. QED
      BY <3>2, <3>3, GoodMade
  <2>4. CASE j # unit
    <3>1. j \in 1..Finished /\ j < unit /\ unit \in 1..Reached'
      BY <1>2, <1>3, <1>6, <2>4, AssembledNext
    <3>2. unit \notin SameObject(j)
      BY <1>2, <1>3, <1>6, <3>1, AssembledNext
    <3>3. n # Output
      BY <1>2, <1>6, <2>2, <3>2, AssembledNext DEF SameObject
    <3>4. files'[n] = files[n]
      BY <1>3, <2>1, <3>3 DEF Kept
    <3>5. QED
      BY <1>4, <3>1, <3>4
  <2>5. QED
    BY <2>3, <2>4
<1>7. QED
  BY <1>5, <1>6

(* A single source: what is made of it, and that it stays.                 *)
LEMMA SingleKeep ==
  ASSUME Control, ~Several, config.inputs # << >>, Finished = unit, config.mode # "run",
         DriverNext \/ UNCHANGED driverVars
  PROVE  /\ files'[FinalProduct] = files[FinalProduct]
         /\ config.mode \in {"object", "assembly"} => files'[Output] = files[Output]
         /\ config.mode = "preprocess" /\ Output # NoFile => files'[Output] = files[Output]
<1> USE DEF Control
<1>1. /\ Mode = config.mode /\ FinalProduct \in Names /\ IsName(FinalProduct) /\ unit \in Nat
      /\ config.mode \in {"object", "assembly"} => Output \in Names /\ IsName(Output)
      /\ config.mode = "preprocess" /\ Output # NoFile => Output \in Names /\ IsName(Output)
  BY Products, Written, OfConfig, NamesDerived DEF DriverTyping
<1>2. at \in {"discard", "dependencies", "return", "run", "link objects", "exit"} /\ ~Stop
  <2>1. SUFFICES ASSUME at \notin {"discard", "dependencies", "return", "run", "link objects", "exit"}
                 PROVE  FALSE
    BY StopDoes
  <2>2. Finished = unit - 1
    BY <2>1 DEF Finished
  <2>3. QED
    BY <1>1, <2>2, StopDoes
<1>3. at \notin {"run", "link objects"}
  BY <1>1 DEF Route
<1>4. CASE Discard
  <2>1. Kept({TempAssembly})
    BY <1>4, DiscardFiles
  <2>2. QED
    BY <1>1, <2>1, NamesApart DEF Kept
<1>5. CASE Dependencies
  <2>1. at = "dependencies"
    BY <1>5, DependenciesFiles
  <2>2. \/ files' = files
        \/ /\ Kept({DepFile}) /\ DepFile # FinalProduct
           /\ Mode \in {"object", "assembly"} => DepFile # Output
    BY <1>5, DependenciesFiles
  <2>3. Mode # "preprocess"
    BY <2>1 DEF Route
  <2>4. QED
    BY <1>1, <2>2, <2>3 DEF Kept
<1>6. CASE SingleReturned \/ UNCHANGED driverVars
  BY <1>6 DEF SingleReturned
<1>7. /\ ~Reject /\ ~LinkOnly /\ ~Start /\ ~ReadSource /\ ~Preprocess /\ ~Parse /\ ~Analyze /\ ~Lower
      /\ ~OpenAssembly /\ ~EmitAssembly /\ ~Assemble /\ ~Link /\ ~RunProgram
      /\ ~UnitFailed /\ ~NextUnit /\ ~LastUnit /\ ~LinkObjects
  BY <1>2, <1>3 DEF Reject, LinkOnly, Start, ReadSource, Preprocess, Parse, Analyze, Lower, OpenAssembly,
    EmitAssembly, Assemble, Link, RunProgram, UnitFailed, NextUnit, LastUnit, LinkObjects
<1>8. QED
  BY <1>2, <1>4, <1>5, <1>6, <1>7 DEF DriverNext

(* What a single source asks for stays made until the driver returns.       *)
LEMMA SingleMadeStep ==
  ASSUME Control, Control', AssemblyGood, SingleMade, DriverNext \/ UNCHANGED driverVars
  PROVE  SingleMade'
<1> USE DEF Control
<1>1. config' = config /\ Several' = Several
  BY Progress DEF Several
<1>2. SUFFICES ASSUME ~Several, config.inputs # << >>, Finished' = unit'
               PROVE  SingleMade'
  BY <1>1 DEF SingleMade
<1>3. /\ unit' = unit /\ unit = 1 /\ Mode = config.mode
      /\ FinalProduct' = FinalProduct /\ Output' = Output
  <2>1. unit \in 1..Len(config.inputs) /\ unit = 1 /\ Mode = config.mode /\ Len(config.inputs) = 1
    BY <1>2, Products
  <2>2. unit' \in 1..Len(config.inputs)
    BY <1>1, <1>2, SameNames, OfConfig DEF DriverTyping
  <2>3. unit' = unit
    BY <2>1, <2>2
  <2>4. QED
    BY <1>1, <2>1, <2>3, SameNames, SameUnit
(* It is enough that each product is good.                                 *)
<1>4. ASSUME /\ \A n : config.mode = "link" /\ n = FinalProduct => Good(n, "program", 1)'
             /\ \A n : config.mode = "object" /\ n = Output => Good(n, "object", 1)'
             /\ \A n : config.mode = "assembly" /\ n = Output => Good(n, "assembly", 1)'
             /\ \A n : config.mode = "preprocess" /\ Output # NoFile /\ n = Output => Good(n, "text", 1)'
      PROVE  SingleMade'
  <2>1. /\ config.mode = "link" => Good(FinalProduct, "program", unit)'
        /\ config.mode = "object" => Good(Output, "object", unit)'
        /\ config.mode = "assembly" => Good(Output, "assembly", unit)'
        /\ config.mode = "preprocess" /\ Output # NoFile => Good(Output, "text", unit)'
    BY <1>3, <1>4 DEF Good, FromThisRun, Fresh
  <2>2. QED
    BY <1>1, <1>3, <2>1 DEF SingleMade
<1>5. CASE Finished = unit /\ config.mode # "run"
  <2>1. /\ config.mode = "link" => Good(FinalProduct, "program", 1)
        /\ config.mode = "object" => Good(Output, "object", 1)
        /\ config.mode = "assembly" => Good(Output, "assembly", 1)
        /\ config.mode = "preprocess" /\ Output # NoFile => Good(Output, "text", 1)
    BY <1>2, <1>3, <1>5 DEF SingleMade
  <2>2. /\ files'[FinalProduct] = files[FinalProduct]
        /\ config.mode \in {"object", "assembly"} => files'[Output] = files[Output]
        /\ config.mode = "preprocess" /\ Output # NoFile => files'[Output] = files[Output]
    BY <1>2, <1>5, SingleKeep
  <2>3. QED
    BY <1>4, <2>1, <2>2, GoodKept
<1>6. CASE config.mode = "run"
  BY <1>4, <1>6
<1>7. CASE Finished # unit /\ config.mode # "run"
  <2>0. Finished # Finished'
    BY <1>3, <1>2, <1>7
  <2>1. CASE IsDone
    <3>1. \/ config.mode = "preprocess" /\ Output = NoFile
          \/ config.mode \in {"ast", "ir"}
      BY <1>3, <2>1 DEF IsDone, Route
    <3>2. QED
      BY <1>4, <3>1
  <2>2. CASE Fails \/ GoesOn
    <3>1. at' \in {"read", "preprocess", "parse", "analyze", "lower", "open"} \/ (at' = "return" /\ ret' # 0)
      BY <2>2 DEF Fails, GoesOn
    <3>2. Finished' = unit' - 1
      BY <3>1 DEF Finished
    <3>3. QED
      BY <1>2, <1>3, <3>2
  <2>3. CASE Preprocess /\ ~(IsDone \/ Fails)
    <3>1. at' = "return" /\ Mode = "preprocess" /\ ret' \in {0, 1} /\ unit' = unit
      BY <2>3, PreprocessFiles DEF Same
    <3>2. ret' = 0
      BY <1>2, <1>3, <3>1 DEF Finished
    <3>3. files'[Output] = Made("text", <<1>>, ret' = 0)
      BY <1>3, <2>3, PreprocessFiles
    <3>4. \A n : n = Output => Good(n, "text", 1)'
      BY <3>2, <3>3, GoodMade
    <3>5. QED
      BY <1>3, <1>4, <3>1, <3>4
  <2>4. CASE OpenAssembly /\ ~Fails
    <3>1. at' = "emit"
      BY <2>4, OpenFiles
    <3>2. QED
      BY <1>2, <1>3, <3>1 DEF Finished
  <2>5. CASE EmitAssembly
    <3>1. /\ Mode = "assembly" => at' = "dependencies" /\ AssemblyFile = Output
          /\ Mode # "assembly" => at' \in {"assemble", "link"}
          /\ FromThisRun(AssemblyFile, <<unit>>)' /\ files'[AssemblyFile].kind = "assembly"
          /\ files'[AssemblyFile].whole \/ truncated'
      BY <2>5, EmitFiles
    <3>2. AssemblyFile' = AssemblyFile
      BY <1>1, <1>3, SameUnit
    <3>3. Mode = "assembly"
      <4>1. at' \in {"assemble", "link"} => Finished' = unit' - 1
        BY DEF Finished
      <4>2. QED
        BY <1>2, <1>3, <3>1, <4>1
    <3>4. \A n : n = Output => Good(n, "assembly", 1)'
      BY <1>3, <3>1, <3>2, <3>3 DEF Good, FromThisRun, Fresh
    <3>5. QED
      BY <1>3, <1>4, <3>3, <3>4
  <2>6. CASE Assemble
    <3>1. /\ Mode = "object" /\ ret' \in {0, 1, Signalled} /\ at = "assemble" /\ truncated' = truncated
      BY <2>6, AssembleFiles DEF Outcome, Same
    <3>2. ret' = 0
      BY <1>2, <1>3, <2>6, <3>1, AssembledNext
    <3>3. files'[Output] = Made("object", <<1>>, files[AssemblyFile].whole)
      BY <1>3, <2>6, <3>2, AssembleFiles DEF Outcome
    <3>4. files[AssemblyFile].whole \/ truncated'
      BY <3>1 DEF AssemblyGood
    <3>5. \A n : n = Output => Good(n, "object", 1)'
      BY <3>3, <3>4, GoodMade
    <3>6. QED
      BY <1>3, <1>4, <3>1, <3>5
  <2>7. CASE Link
    <3>1. /\ Mode \in {"run", "link"} /\ at = "link" /\ truncated' = truncated
          /\ at' = IF ret' = 0 THEN "dependencies" ELSE "return"
          /\ Mode = "link" => Product = FinalProduct
      BY <2>7, LinkFiles DEF Same
    <3>2. ret' = 0 /\ Mode = "link"
      BY <1>2, <1>3, <1>7, <3>1 DEF Finished
    <3>3. files'[FinalProduct] = Made("program", <<1>>, files[AssemblyFile].whole)
      BY <1>3, <2>7, <3>1, <3>2, LinkFiles DEF Outcome
    <3>4. files[AssemblyFile].whole \/ truncated'
      BY <3>1 DEF AssemblyGood
    <3>5. \A n : n = FinalProduct => Good(n, "program", 1)'
      BY <3>3, <3>4, GoodMade
    <3>6. QED
      BY <1>3, <1>4, <3>2, <3>5
  <2>8. CASE Reject \/ LinkOnly
    <3>1. at' = "exit" /\ exit' = 1
      BY <1>2, <2>8, LinkOnlyFiles DEF Reject, Exit
    <3>2. QED
      BY <1>1, <1>2, <1>3, <3>1 DEF Finished
  <2>9. CASE Discard \/ Dependencies
    <3>1. Finished' = Finished
      <4>1. CASE Discard
        <5>1. at = "discard" /\ at' = "return" /\ unit' = unit /\ ret' = ret
          BY <4>1, DiscardFiles DEF Same
        <5>2. QED
          BY <5>1 DEF Finished
      <4>2. CASE Dependencies
        <5>1. at = "dependencies" /\ at' \in {"discard", "run", "return"} /\ unit' = unit /\ ret = 0 /\ ret' = 0
          BY <4>2, DependenciesFiles DEF Same
        <5>2. QED
          BY <5>1 DEF Finished
      <4>3. QED
        BY <2>9, <4>1, <4>2
    <3>2. QED
      BY <2>0, <3>1
  <2>10. CASE RunProgram \/ UnitFailed \/ NextUnit \/ LastUnit \/ LinkObjects
    BY <1>2, <1>3, <1>7, <2>10, RunFiles, LinkObjectsFiles DEF UnitFailed, NextUnit, LastUnit
  <2>11. CASE SingleReturned
    <3>1. at = "return" /\ at' = "exit" /\ exit' = ret /\ unit' = unit
      BY <2>11 DEF SingleReturned, Exit
    <3>2. Finished' = Finished
      BY <1>1, <1>2, <3>1 DEF Finished
    <3>3. QED
      BY <2>0, <3>2
  <2>12. CASE UNCHANGED driverVars
    <3>1. /\ config' = config /\ at' = at /\ unit' = unit /\ ret' = ret /\ exit' = exit /\ status' = status
      BY <2>12
    <3>2. Finished' = Finished
      BY <1>1, <3>1 DEF Finished
    <3>3. QED
      BY <2>0, <3>2
  <2>13. CASE Stop
    <3>1. at' = "stopped" /\ unit' = unit
      BY <2>13, StopFiles
    <3>2. Finished' = unit' - 1
      BY <3>1 DEF Finished
    <3>3. QED
      BY <1>2, <1>3, <3>1, <3>2
  <2>14. QED
    BY <2>13, <2>1, <2>2, <2>3, <2>4, <2>5, <2>6, <2>7, <2>8, <2>9, <2>10, <2>11, <2>12, EarlyStages
       DEF DriverNext, Early
<1>8. QED
  BY <1>5, <1>6, <1>7

-----------------------------------------------------------------------------
(* Numbers that are not all left out have a least one.                     *)
LEMMA LeastUnit ==
  ASSUME NEW S, S \subseteq Nat, S # {}
  PROVE  \E i \in S : \A j \in S : i <= j
<1>1. PICK i \in S : \A j \in S : ~(<<j, i>> \in OpToRel(<, Nat))
  BY WFMin, NatLessThanWellFounded
<1>2. \A j \in S : ~(j < i)
  BY <1>1 DEF OpToRel
<1>3. QED
  BY <1>2

(* A set of numbers up to n that has an element has a last one.             *)
LEMMA LastOfSome ==
  ASSUME NEW n \in Nat, NEW S, S \subseteq 1..n, S # {}
  PROVE  \E j \in S : \A i \in S : i <= j
<1> DEFINE R == {n - i : i \in S}
<1>1. R \subseteq Nat /\ R # {}
  <2>1. \A i \in S : i \in 1..n /\ n - i \in Nat
    OBVIOUS
  <2>2. QED
    BY <2>1
<1>2. PICK r \in R : \A x \in R : r <= x
  BY <1>1, LeastUnit
<1>3. PICK j \in S : r = n - j
  OBVIOUS
<1>4. ASSUME NEW i \in S PROVE i <= j
  <2>1. n - i \in R /\ i \in Nat /\ j \in Nat
    OBVIOUS
  <2>2. n - j <= n - i
    BY <1>2, <1>3, <2>1
  <2>3. QED
    BY <2>1, <2>2
<1>5. QED
  BY <1>4

(* The linker's list: one by one, the sources in their order.              *)
LEMMA FlattenUnits ==
  ASSUME NEW n \in Nat \ {0}, NEW s, s = [k \in 1..n |-> <<k>>]
  PROVE  FlattenSeq(s) = [k \in 1..n |-> k]
<1> DEFINE Steps(f) == [i \in 1..n |-> IF i = 1 THEN s[i] ELSE f[i - 1] \o s[i]]
           flatten == CHOOSE f : f = Steps(f)
           upTo == [i \in 1..n |-> [k \in 1..i |-> k]]
<1>1. Len(s) = n
  OBVIOUS
<1>2. FlattenSeq(s) = flatten[n]
  BY <1>1 DEF FlattenSeq
<1>3. ASSUME NEW i \in 1..n, i # 1
      PROVE  [k \in 1..(i - 1) |-> k] \o s[i] = [k \in 1..i |-> k]
  <2> DEFINE b == [k \in 1..(i - 1) |-> k]
             a == [k \in 1..i |-> k]
  <2>1. s[i] = <<i>> /\ i - 1 \in Nat /\ i \in Nat
    BY <1>3
  <2>2. b \in Seq(Nat) /\ Len(b) = i - 1 /\ <<i>> \in Seq(Nat) /\ Len(<<i>>) = 1
    BY <2>1
  <2>3. b \o <<i>> \in Seq(Nat) /\ Len(b \o <<i>>) = i
    BY <2>1, <2>2, ConcatProperties
  <2>4. a \in Seq(Nat) /\ Len(a) = i
    BY <2>1
  <2>5. \A k \in 1..i : (b \o <<i>>)[k] = a[k]
    <3>1. TAKE k \in 1..i
    <3>2. CASE k <= i - 1
      BY <2>1, <2>2, <3>2, ConcatProperties
    <3>3. CASE k = i
      BY <2>1, <2>2, <3>3, ConcatProperties
    <3>4. QED
      BY <2>1, <3>2, <3>3
  <2>6. b \o <<i>> = a
    BY <2>3, <2>4, <2>5, SeqEqual
  <2>7. QED
    BY <2>1, <2>6
<1>4. upTo = Steps(upTo)
  <2>1. ASSUME NEW i \in 1..n
        PROVE  upTo[i] = IF i = 1 THEN s[i] ELSE upTo[i - 1] \o s[i]
    <3>1. CASE i = 1
      <4>1. s[i] = <<1>> /\ upTo[i] = [k \in 1..1 |-> k]
        BY <3>1
      <4>2. [k \in 1..1 |-> k] = <<1>>
        OBVIOUS
      <4>3. QED
        BY <3>1, <4>1, <4>2
    <3>2. CASE i # 1
      <4>1. i - 1 \in 1..n
        BY <3>2
      <4>2. upTo[i - 1] = [k \in 1..(i - 1) |-> k] /\ upTo[i] = [k \in 1..i |-> k]
        BY <4>1
      <4>3. QED
        BY <1>3, <3>2, <4>2
    <3>3. QED
      BY <3>1, <3>2
  <2>2. upTo = [i \in 1..n |-> upTo[i]]
    OBVIOUS
  <2> HIDE DEF upTo
  <2>3. QED
    BY <2>1, <2>2
<1>5. flatten = Steps(flatten)
  BY <1>4
<1> HIDE DEF flatten, upTo
<1>6. \A i \in 1..n : flatten[i] = [k \in 1..i |-> k]
  <2> DEFINE Wrong == {i \in 1..n : flatten[i] # [k \in 1..i |-> k]}
  <2>1. SUFFICES ASSUME Wrong # {} PROVE FALSE
    OBVIOUS
  <2>2. Wrong \subseteq Nat
    OBVIOUS
  <2>3. PICK i \in Wrong : \A j \in Wrong : i <= j
    BY <2>1, <2>2, LeastUnit
  <2>4. flatten[i] = IF i = 1 THEN s[i] ELSE flatten[i - 1] \o s[i]
    BY <1>5, <2>3
  <2>5. CASE i = 1
    <3>1. flatten[i] = <<1>>
      BY <2>4, <2>5
    <3>2. <<1>> = [k \in 1..1 |-> k]
      OBVIOUS
    <3>3. QED
      BY <2>3, <2>5, <3>1, <3>2
  <2>6. CASE i # 1
    <3>1. i - 1 \in 1..n /\ i - 1 \notin Wrong
      BY <2>3, <2>6
    <3>2. flatten[i - 1] = [k \in 1..(i - 1) |-> k]
      BY <3>1
    <3>3. flatten[i] = [k \in 1..i |-> k]
      BY <1>3, <2>3, <2>4, <2>6, <3>2
    <3>4. QED
      BY <2>3, <3>3
  <2>7. QED
    BY <2>5, <2>6
<1>7. QED
  BY <1>2, <1>6

(* A program linked from several objects is made of all of them.            *)
LEMMA LinkedStep ==
  ASSUME Control, Control', ObjectsWait, Linked, DriverNext \/ UNCHANGED driverVars
  PROVE  Linked'
<1> USE DEF Control
<1>1. config' = config /\ Several' = Several /\ FinalProduct' = FinalProduct /\ AllUnits' = AllUnits
  BY Progress, SameNames DEF Several
<1>2. SUFFICES ASSUME at' = "exit", exit' = 0, config.inputs = << >> \/ (Several /\ config.mode = "link"),
                      NEW n, n = FinalProduct
               PROVE  /\ files'[n].kind \notin {"absent", "old"} /\ files'[n].from = AllUnits
                      /\ files'[n].whole \/ truncated'
  BY <1>1 DEF Linked, FromThisRun, Fresh
<1>3. CASE LinkOnly
  <2>1. files'[n] = Made("program", << >>, TRUE)
    BY <1>2, <1>3, LinkOnlyFiles DEF Outcome
  <2>2. AllUnits = << >>
    <3>1. Units = {}
      BY <1>3, LinkOnlyFiles DEF Units
    <3>2. QED
      BY <3>1 DEF AllUnits
  <2>3. QED
    BY <2>1, <2>2 DEF Made
<1>4. CASE LinkObjects
  <2>1. files'[n] = LinkedProgram
    BY <1>2, <1>4, LinkObjectsFiles DEF Outcome
  <2>2. /\ at = "link objects" /\ truncated' = truncated /\ unit = Len(config.inputs) /\ Several
        /\ config.mode = "link"
    BY <1>4, LinkObjectsFiles
  <2>3. Units = 1..unit /\ unit \in Nat /\ unit # 0 /\ Finished = unit
    <3>1. Finished = unit
      BY <2>2 DEF Finished
    <3>2. Units = 1..unit /\ unit \in Nat
      BY <2>2, OfConfig DEF DriverTyping
    <3>3. unit > 1
      BY <2>2 DEF Several
    <3>4. QED
      BY <3>1, <3>2, <3>3
  <2>4. \A k \in Units : FromThisRun(TempObject(k), <<k>>) /\ (files[TempObject(k)].whole \/ truncated)
    BY <2>2, <2>3 DEF ObjectsWait, Good
  <2>5. FlattenSeq([k \in Units |-> files[TempObject(k)].from]) = AllUnits
    <3> DEFINE froms == [k \in Units |-> files[TempObject(k)].from]
    <3>1. froms = [k \in 1..unit |-> <<k>>]
      BY <2>3, <2>4 DEF FromThisRun
    <3> HIDE DEF froms
    <3>2. FlattenSeq(froms) = [k \in 1..unit |-> k]
      BY <2>3, <3>1, FlattenUnits
    <3>3. AllUnits = [k \in 1..unit |-> k]
      BY <2>3 DEF AllUnits
    <3>4. QED
      BY <3>2, <3>3 DEF froms
  <2>6. /\ files'[n].kind = "program" /\ files'[n].from = AllUnits
        /\ files'[n].whole = (\A k \in Units : files[TempObject(k)].whole)
    BY <2>1, <2>5 DEF LinkedProgram, Made
  <2>7. files'[n].whole \/ truncated'
    BY <2>2, <2>4, <2>6
  <2>8. QED
    BY <2>6, <2>7
<1>5. CASE UNCHANGED driverVars
  <2>1. at' = at /\ exit' = exit /\ files' = files /\ truncated' = truncated
    BY <1>5
  <2>2. QED
    BY <1>2, <2>1 DEF Linked, FromThisRun, Fresh
<1>6. CASE SingleReturned \/ LastUnit
  BY <1>2, <1>6 DEF SingleReturned, LastUnit, Route, Go
<1>7. ~Reject /\ ~UnitFailed
  BY <1>2, UnitFailedFiles DEF Reject, Exit
<1>8. ~Early /\ ~Preprocess /\ ~OpenAssembly /\ ~NextUnit /\ ~Stop
  BY <1>2, StopFiles, PreprocessFiles, OpenFiles DEF Early, GoesOn, IsDone, Fails, NextUnit
<1>9. ~EmitAssembly /\ ~Assemble /\ ~Discard /\ ~Link /\ ~Dependencies /\ ~RunProgram
  BY <1>2, EmitFiles, AssembleFiles, DiscardFiles, LinkFiles, DependenciesFiles, RunFiles
<1>10. QED
  BY <1>3, <1>4, <1>5, <1>6, <1>7, <1>8, <1>9, EarlyStages DEF DriverNext

(* No action but the one that writes dependencies leaves such a file.      *)
LEMMA OtherKinds ==
  ASSUME Control, DriverNext \/ UNCHANGED driverVars, ~Dependencies, NEW n \in Names
  PROVE  files'[n] = files[n] \/ files'[n].kind # "dependencies"
<1> USE DEF Control
<1>1. Early \/ Reject \/ SingleReturned \/ NextUnit \/ LastUnit \/ UNCHANGED driverVars => files' = files
  BY DEF Early, GoesOn, IsDone, Fails, FilesAside, Reject, SingleReturned, NextUnit, LastUnit
<1>2. ASSUME NEW code, NEW m, NEW c, c.kind # "dependencies", Outcome(code, m, c)
      PROVE  files'[m] = files[m] \/ files'[m].kind # "dependencies"
  BY <1>2, Contents DEF Outcome
<1>3. ASSUME NEW kind \in {"text", "object", "program"}, NEW from, NEW whole
      PROVE  Made(kind, from, whole).kind # "dependencies"
  BY <1>3, Contents
<1>4. CASE LinkOnly
  <2> DEFINE program == Made("program", << >>, TRUE)
  <2>1. program.kind # "dependencies"
    BY DEF Made
  <2>2. Kept({FinalProduct}) /\ Outcome(exit', FinalProduct, program)
    BY <1>4, LinkOnlyFiles
  <2> HIDE DEF program
  <2>3. QED
    BY <1>2, <2>1, <2>2 DEF Kept
<1>5. CASE Preprocess /\ ~Early
  <2>1. Kept({Output}) /\ files'[Output].kind = "text"
    <3>1. Kept({Output}) /\ files'[Output] = Made("text", <<unit>>, ret' = 0)
      BY <1>5, PreprocessFiles DEF Early
    <3>2. QED
      BY <3>1 DEF Made
  <2>2. QED
    BY <2>1 DEF Kept
<1>6. CASE OpenAssembly /\ ~Early
  BY <1>6, OpenFiles, Contents DEF Early, Kept
<1>7. CASE EmitAssembly
  BY <1>7, EmitFiles DEF Kept
<1>8. CASE Assemble
  <2> DEFINE object == Made("object", <<unit>>, files[AssemblyFile].whole)
  <2>1. Kept({Output}) /\ Outcome(ret', Output, object)
    BY <1>8, AssembleFiles
  <2>2. object.kind # "dependencies"
    BY DEF Made
  <2> HIDE DEF object
  <2>3. QED
    BY <1>2, <2>1, <2>2 DEF Kept
<1>9. CASE Discard \/ RunProgram
  BY <1>9, DiscardFiles, RunFiles, Contents DEF Kept
<1>10. CASE Link
  <2> DEFINE program == Made("program", <<unit>>, files[AssemblyFile].whole)
  <2>1. program.kind # "dependencies"
    BY DEF Made
  <2>2. /\ Kept({Product, TempAssembly, TempProgram}) /\ files'[TempAssembly] = Absent
        /\ ret' # 0 => files'[TempProgram] = Absent
        /\ ret' = 0 /\ Mode = "link" => files'[TempProgram] = files[TempProgram]
        /\ Mode = "link" \/ ret' = 0 => Outcome(ret', Product, program)
        /\ Mode = "run" => Product = TempProgram
        /\ Mode \in {"run", "link"}
    BY <1>10, LinkFiles
  <2> HIDE DEF program
  <2>3. QED
    BY <1>2, <2>1, <2>2, Contents DEF Kept
<1>11. CASE UnitFailed
  BY <1>11, UnitFailedFiles, Contents
<1>12. CASE LinkObjects
  <2>1. LinkedProgram.kind # "dependencies"
    BY DEF Made, LinkedProgram
  <2>2. /\ Kept({FinalProduct} \cup Objects(unit)) /\ Outcome(exit', FinalProduct, LinkedProgram)
        /\ \A m \in Objects(unit) \cap Names : files'[m] = Absent
    BY <1>12, LinkObjectsFiles
  <2>3. QED
    BY <1>2, <2>1, <2>2, Contents DEF Kept
<1>13. CASE Stop
  <2>1. files' = files \/ (Kept({Output}) /\ files'[Output] = Made("text", <<unit>>, FALSE))
    BY <1>13, StopFiles
  <2>2. Made("text", <<unit>>, FALSE).kind # "dependencies"
    BY <1>3
  <2>3. QED
    BY <2>1, <2>2 DEF Kept
<1>14. QED
  BY <1>1, <1>4, <1>5, <1>6, <1>7, <1>8, <1>9, <1>10, <1>11, <1>12, <1>13, EarlyStages DEF DriverNext

(* No step writes dependencies before the product, or of another source.    *)
LEMMA DependenciesBehindStep ==
  ASSUME Control, Control', DependenciesBehind, DriverNext \/ UNCHANGED driverVars
  PROVE  DependenciesBehind'
<1> USE DEF Control
<1>1. config' = config /\ Several' = Several /\ Names' = Names
  BY Progress, SameNames DEF Several
<1>2. SUFFICES ASSUME config.mode \in {"object", "link"}, NEW n \in Names, files'[n].kind = "dependencies"
               PROVE  (Several => config.mode = "object") /\ \E k \in 1..Finished' : files'[n].from = <<k>>
  BY <1>1 DEF DependenciesBehind
<1>3. ~RunProgram
  <2>1. Mode # "run"
    BY <1>2 DEF Mode
  <2>2. QED
    BY <2>1, RunFiles
<1>4. CASE files'[n] = files[n]
  <2>1. /\ Several => config.mode = "object"
        /\ \E k \in 1..Finished : files[n].from = <<k>>
    BY <1>2, <1>4 DEF DependenciesBehind
  <2>2. Finished \in Int /\ Finished' \in Int /\ Finished <= Finished'
    BY <1>3, Progress
  <2>3. QED
    BY <1>4, <2>1, <2>2
<1>5. CASE files'[n] # files[n]
  <2>1. Dependencies
    BY <1>2, <1>5, OtherKinds
  <2>2. /\ at = "dependencies" /\ at' \in {"discard", "run", "return"} /\ unit' = unit /\ ret' = 0
    BY <2>1, DependenciesFiles DEF Same
  <2>3. WantsDeps /\ Kept({DepFile}) /\ files'[DepFile] = Made("dependencies", <<unit>>, TRUE)
    BY <1>5, <2>1, DependenciesFiles
  <2>4. files'[n].from = <<unit>>
    BY <1>5, <2>3 DEF Kept, Made
  <2>5. Finished' = unit
    BY <2>2 DEF Finished
  <2>6. unit \in 1..unit
    <3>1. DriverTyping /\ config.inputs # << >> /\ unit \in Nat
      BY <2>2 DEF Route, DriverTyping
    <3>2. unit \in 1..Len(config.inputs)
      BY <3>1, Products
    <3>3. QED
      BY <3>1, <3>2
  <2>7. Several => config.mode = "object"
    BY <2>3 DEF WantsDeps
  <2>8. QED
    BY <2>4, <2>5, <2>6, <2>7
<1>6. QED
  BY <1>4, <1>5

-----------------------------------------------------------------------------
(* All of it holds on every run.                                           *)
FilesRight ==
  /\ Provenance /\ AssemblyGood /\ ObjectsWait /\ ObjectsKept /\ SingleMade
  /\ Linked /\ DependenciesBehind

(* What is known of each file holds at every stage (driver.c:547-607).      *)
LEMMA FilesRightHolds == DriverSpec => []FilesRight
<1>1. ASSUME DriverInit PROVE FilesRight
  <2>1. /\ at = "start" /\ exit = Running /\ ret = 0 /\ unit = 1
        /\ \A n \in Names : files[n].kind \in {"absent", "old"}
    <3>1. Absent.kind = "absent" /\ Old.kind = "old"
      BY DEF Absent, Old
    <3>2. PICK c \in {Absent, Old} : files = [n \in Names |-> IF n \in Temporaries THEN Absent ELSE c]
      BY <1>1 DEF DriverInit
    <3>3. \A n \in Names : files[n] \in {Absent, Old}
      BY <3>2
    <3>4. QED
      BY <1>1, <3>1, <3>3 DEF DriverInit
  <2>2. Finished = 0
    BY <2>1 DEF Finished, Running
  <2>3. Provenance /\ DependenciesBehind
    BY <2>1 DEF Provenance, Fresh, DependenciesBehind
  <2>4. AssemblyGood /\ Linked
    BY <2>1 DEF AssemblyGood, Linked
  <2>5. ObjectsWait /\ ObjectsKept /\ SingleMade
    BY <2>1, <2>2 DEF ObjectsWait, ObjectsKept, SingleMade
  <2>6. QED
    BY <2>3, <2>4, <2>5 DEF FilesRight
<1>2. ASSUME Control, Control', Emptied, FilesRight, [DriverNext]_driverVars PROVE FilesRight'
  BY <1>2, ProvenanceStep, AssemblyGoodStep, ObjectsWaitStep, ObjectsKeptStep, SingleMadeStep, LinkedStep,
     DependenciesBehindStep DEF FilesRight
<1>3. QED
  BY <1>1, <1>2, ControlHolds, EmptiedHolds, PTL DEF DriverSpec

(* When the driver returns the temporary files are gone, but for the object*)
(* of an assembler that was killed: driver_run removes its assembly and    *)
(* program whatever failed, driver_run_many the objects of the sources     *)
(* before (driver.c:464-536, 594-606).  When the process ends on a fatal   *)
(* error or without memory, all that is there are those objects, each of   *)
(* its own source, and the assembly it was writing (diag.c:171-173,        *)
(* arena.c:12-28).                                                         *)
THEOREM TemporariesRemoved == DriverSpec => []NothingLeftBehind
<1>1. ASSUME Control, Tidy, FilesRight PROVE NothingLeftBehind
  <2>1. SUFFICES ASSUME Done, NEW t \in Temporaries
                 PROVE  \/ files[t] = Absent
                        \/ t = TempObject(unit) /\ ~files[t].whole /\ status = Signalled
                        \/ /\ at = "stopped"
                           /\ \/ t = TempAssembly /\ files[t] = Torn("assembly")
                              \/ /\ Several /\ config.mode = "link"
                                 /\ \E k \in 1..(unit - 1) : t = TempObject(k) /\ FromThisRun(t, <<k>>)
    BY DEF NothingLeftBehind
  <2>2. at \in {"exit", "stopped"} /\ config \in Configs
    BY <1>1, <2>1 DEF Control, DriverTyping, ReturnCodes, Done
  <2>3. CASE t \notin Debris
    <3>1. files[t] = Absent \/ CutShort(t) \/ BrokenOff(t)
      BY <1>1, <2>1, <2>3 DEF Tidy
    <3>2. CASE BrokenOff(t)
      <4>1. at = "stopped" /\ t = AssemblyFile /\ files[t] = Torn("assembly")
        BY <3>2 DEF BrokenOff
      <4>2. ~IsName(t) /\ config.inputs # << >>
        BY <1>1, <4>1, TemporaryNames DEF Control, Route
      <4>3. t = TempAssembly
        BY <1>1, <4>1, <4>2, Written DEF AssemblyFile, Control
      <4>4. QED
        BY <4>1, <4>3
    <3>3. QED
      BY <3>1, <3>2 DEF CutShort
  <2>4. CASE t \in Debris
    <3>1. at = "stopped" /\ Several /\ config.mode = "link" /\ t \in Objects(Finished)
      BY <2>2, <2>4 DEF Debris
    <3>2. Finished = unit - 1
      BY <3>1 DEF Finished
    <3>3. PICK k \in 1..(unit - 1) : t = TempObject(k)
      BY <3>1, <3>2 DEF Objects
    <3>4. Good(TempObject(k), "object", k)
      BY <1>1, <3>1, <3>2, <3>3 DEF FilesRight, ObjectsWait
    <3>5. QED
      BY <3>1, <3>3, <3>4 DEF Good
  <2>5. QED
    BY <2>3, <2>4
<1>2. QED
  BY <1>1, ControlHolds, TidyHolds, FilesRightHolds, PTL

(* When a source has errors, or cannot be read, or the output cannot be    *)
(* opened, every file is as it was, but for what the sources before it     *)
(* made (driver.c:342-438); so also when the process ends, but for the     *)
(* assembly it was writing.                                                *)
THEOREM ErrorsHarmless == DriverSpec => []ErrorsTouchNothing
<1>1. ASSUME Control, FilesRight PROVE ErrorsTouchNothing
  <2>1. SUFFICES ASSUME Done, exit # 0, status = 0, config.mode # "preprocess", NEW n \in Names, Fresh(n)
                 PROVE  (\E k \in 1..(unit - 1) : files[n].from = <<k>>) \/ BrokenOff(n)
    BY DEF ErrorsTouchNothing, BrokenOff
  <2>2. at \in {"exit", "stopped"}
    BY <1>1, <2>1 DEF Control, ReturnCodes, Done
  <2>3. Finished = unit - 1
    BY <2>1, <2>2 DEF Finished
  <2>4. Mode # "preprocess"
    BY <2>1 DEF Mode
  <2>5. (\E k \in 1..Finished : files[n].from = <<k>>) \/ BrokenOff(n)
    BY <1>1, <2>1, <2>2, <2>4 DEF FilesRight, Provenance, Explained
  <2>6. QED
    BY <2>3, <2>5
<1>2. QED
  BY <1>1, ControlHolds, FilesRightHolds, PTL

(* The linker is given one object for each source, in the order of the     *)
(* command line, whatever their names have in common (driver.c:584-603).   *)
THEOREM ObjectsReachLinker == DriverSpec => []EachItsOwnObject
<1>1. ASSUME Control, FilesRight PROVE EachItsOwnObject
  <2>1. SUFFICES ASSUME at = "link objects", NEW k \in Units
                 PROVE  FromThisRun(TempObject(k), <<k>>)
    BY DEF EachItsOwnObject
  <2>2. Several /\ config.mode = "link" /\ unit = Len(config.inputs)
    BY <1>1, <2>1 DEF Control, Route
  <2>3. k \in 1..unit /\ Finished = unit
    BY <1>1, <2>1, <2>2, OfConfig DEF Control, DriverTyping, Finished
  <2>4. QED
    BY <1>1, <2>1, <2>2, <2>3 DEF FilesRight, ObjectsWait, Good
<1>2. QED
  BY <1>1, ControlHolds, FilesRightHolds, PTL

(* A dependency file is never left beside a product that is not from this  *)
(* run, which make would take for up to date (driver.c:446-511).           *)
THEOREM DependenciesAfterProduct == DriverSpec => []DependenciesFollowProduct
<1>1. ASSUME Control, FilesRight PROVE DependenciesFollowProduct
  <2>1. SUFFICES ASSUME config.mode \in {"object", "link"}, NEW k \in Units, SameObject(k) = {k},
                        NEW m \in Names, FromThisRun(m, <<k>>), files[m].kind = "dependencies"
                 PROVE  \E n \in Names : FromThisRun(n, <<k>>)
                          /\ files[n].kind \in {"object", "program"} /\ (files[n].whole \/ truncated)
    BY DEF DependenciesFollowProduct
  <2> USE DEF Control
  <2>2. DriverTyping /\ config.inputs # << >> /\ Units = 1..Len(config.inputs) /\ unit \in Nat
    <3>1. config.inputs = << >> => Units = {}
      BY DEF Units
    <3>2. QED
      BY <1>1, <2>1, <3>1, OfConfig DEF DriverTyping
  <2>3. k \in 1..Finished /\ (Several => config.mode = "object")
    <3>1. PICK j \in 1..Finished : files[m].from = <<j>>
      BY <1>1, <2>1 DEF FilesRight, DependenciesBehind
    <3>2. j = k
      BY <2>1, <3>1 DEF FromThisRun
    <3>3. QED
      BY <1>1, <2>1, <3>1, <3>2 DEF FilesRight, DependenciesBehind
  <2>4. CASE Several
    <3>1. Good(ObjectName(config.inputs[k]), "object", k)
      BY <1>1, <2>1, <2>3, <2>4 DEF FilesRight, ObjectsKept
    <3>2. ObjectName(config.inputs[k]) \in Names
      BY <2>1 DEF Names, Units, ToSet
    <3>3. QED
      BY <3>1, <3>2 DEF Good
  <2>5. CASE ~Several
    <3>1. unit = 1 /\ k = 1 /\ Mode = config.mode
      <4>1. unit = 1 /\ Len(config.inputs) = 1 /\ Mode = config.mode
        BY <2>2, <2>5, Products
      <4>2. Units = 1..1 /\ k \in Units
        BY <2>2, <4>1
      <4>3. QED
        BY <4>1, <4>2
    <3>2. Finished = unit
      <4>1. Finished = unit \/ Finished = unit - 1
        BY Zenon DEF Finished
      <4>2. QED
        BY <2>3, <3>1, <4>1
    <3>3. CASE config.mode = "link"
      <4>1. Good(FinalProduct, "program", k) /\ FinalProduct \in Names
        BY <1>1, <2>2, <2>5, <3>1, <3>2, <3>3, Products DEF FilesRight, SingleMade
      <4>2. QED
        BY <4>1 DEF Good
    <3>4. CASE config.mode = "object"
      <4>1. Good(Output, "object", k) /\ Output \in Names
        BY <1>1, <2>2, <2>5, <3>1, <3>2, <3>4, Written DEF FilesRight, SingleMade
      <4>2. QED
        BY <4>1 DEF Good
    <3>5. QED
      BY <2>1, <3>3, <3>4
  <2>6. QED
    BY <2>4, <2>5
<1>2. QED
  BY <1>1, ControlHolds, FilesRightHolds, PTL

(* The last source with the object name of another.                        *)
LEMMA LastSame ==
  ASSUME config \in Configs, NEW k \in Units
  PROVE  \E j \in SameObject(k) : \A i \in SameObject(k) : i <= j
<1>1. Units = 1..Len(config.inputs) /\ Len(config.inputs) \in Nat
  BY OfConfig
<1> DEFINE n == Len(config.inputs)
<1>2. n \in Nat /\ SameObject(k) \subseteq 1..n /\ SameObject(k) # {}
  BY <1>1 DEF SameObject
<1> HIDE DEF n
<1>3. QED
  BY <1>2, LastOfSome

(* After 0, what was asked for is there; of a single source,               *)
LEMMA SingleTruth ==
  ASSUME Control, FilesRight, at = "exit", exit = 0, ~Several, config.inputs # << >>,
         NEW p \in AskedFor
  PROVE  FromThisRun(p[1], p[2]) /\ (files[p[1]].whole \/ truncated)
<1>1. DriverTyping /\ Finished = unit
  BY DEF Control, Finished
<1>2. unit = 1 /\ Units = 1..1 /\ Mode = config.mode
  BY <1>1, Products, OfConfig DEF DriverTyping
<1>3. AllUnits = <<1>>
  <2>1. AllUnits = [k \in 1..1 |-> k]
    BY <1>2 DEF AllUnits
  <2>2. QED
    BY <2>1
<1>4. /\ config.mode = "link" => Good(FinalProduct, "program", 1)
      /\ config.mode = "object" => Good(Output, "object", 1)
      /\ config.mode = "assembly" => Good(Output, "assembly", 1)
      /\ config.mode = "preprocess" /\ Output # NoFile => Good(Output, "text", 1)
  BY <1>1, <1>2 DEF FilesRight, SingleMade
<1>5. \/ config.mode = "link" /\ p = <<FinalProduct, <<1>> >>
      \/ config.mode \in {"object", "assembly"} /\ p = <<Output, <<1>> >>
      \/ config.mode = "preprocess" /\ Output # NoFile /\ p = <<Output, <<1>> >>
  BY <1>2, <1>3 DEF AskedFor
<1>6. QED
  BY <1>4, <1>5 DEF Good

(* and of several, or none.                                                *)
LEMMA OtherTruth ==
  ASSUME Control, FilesRight, at = "exit", exit = 0, Several \/ config.inputs = << >>,
         NEW p \in AskedFor
  PROVE  FromThisRun(p[1], p[2]) /\ (files[p[1]].whole \/ truncated)
<1> USE DEF Control
<1>1. CASE config.inputs = << >>
  <2>1. p = <<FinalProduct, << >> >>
    BY <1>1 DEF AskedFor
  <2>2. AllUnits = << >>
    <3>1. Units = {}
      BY <1>1 DEF Units
    <3>2. QED
      BY <3>1 DEF AllUnits
  <2>3. FromThisRun(FinalProduct, AllUnits) /\ (files[FinalProduct].whole \/ truncated)
    BY <1>1 DEF FilesRight, Linked
  <2>4. QED
    BY <2>1, <2>2, <2>3
<1>2. CASE Several /\ config.inputs # << >> /\ config.mode = "object"
  <2>1. PICK k \in Units :
          p = <<ObjectName(config.inputs[k]),
                <<CHOOSE j \in SameObject(k) : \A i \in SameObject(k) : i <= j>> >>
    BY <1>2 DEF AskedFor
  <2> DEFINE last == CHOOSE j \in SameObject(k) : \A i \in SameObject(k) : i <= j
  <2>2. last \in SameObject(k) /\ \A i \in SameObject(k) : i <= last
    BY LastSame DEF DriverTyping
  <2> HIDE DEF last
  <2>3. /\ last \in Units /\ ObjectName(config.inputs[last]) = ObjectName(config.inputs[k])
        /\ SameObject(last) = SameObject(k)
    BY <2>2 DEF SameObject
  <2>4. last \in 1..Finished
    <3>1. Finished = unit /\ unit = Len(config.inputs) /\ Units = 1..Len(config.inputs)
      BY <1>2, OfConfig DEF Finished, ReturnCodes, DriverTyping
    <3>2. QED
      BY <2>3, <3>1
  <2>5. Good(ObjectName(config.inputs[last]), "object", last)
    BY <1>2, <2>2, <2>3, <2>4 DEF FilesRight, ObjectsKept
  <2>6. p[1] = ObjectName(config.inputs[last]) /\ p[2] = <<last>>
    BY <2>1, <2>3 DEF last
  <2>7. QED
    BY <2>5, <2>6 DEF Good
<1>3. CASE Several /\ config.inputs # << >> /\ config.mode # "object"
  <2>1. p = <<FinalProduct, AllUnits>> /\ config.mode = "link"
    BY <1>3 DEF AskedFor, Route
  <2>2. FromThisRun(FinalProduct, AllUnits) /\ (files[FinalProduct].whole \/ truncated)
    BY <1>3, <2>1 DEF FilesRight, Linked
  <2>3. QED
    BY <2>1, <2>2
<1>4. QED
  BY <1>1, <1>2, <1>3

(* After a failure, it is not all there.                                   *)
LEMMA FailureTruth ==
  ASSUME Control, FilesRight, at \in {"exit", "stopped"}, exit # 0, AskedFor # {}
  PROVE  \E p \in AskedFor : ~(FromThisRun(p[1], p[2]) /\ files[p[1]].whole)
<1> USE DEF Control
<1>1. ASSUME NEW n \in Names, Fresh(n), files[n].whole,
             config.inputs = << >> \/ Several \/ config.mode # "run"
      PROVE  \E k \in 1..Finished : files[n].from = <<k>>
  <2>1. Explained(n)
    BY <1>1 DEF FilesRight, Provenance
  <2>2. ~(config.mode = "run" /\ ~Several /\ config.inputs # << >>)
    BY <1>1
  <2>3. ~BrokenOff(n)
    BY <1>1, Contents DEF BrokenOff
  <2>4. QED
    BY <1>1, <2>1, <2>2, <2>3 DEF Explained
<1>2. CASE config.inputs = << >>
  <2>1. <<FinalProduct, << >> >> \in AskedFor
    BY <1>2 DEF AskedFor
  <2>2. FinalProduct \in Names
    BY DEF FinalProduct, Names
  <2>3. ~(FromThisRun(FinalProduct, << >>) /\ files[FinalProduct].whole)
    <3>1. SUFFICES ASSUME FromThisRun(FinalProduct, << >>), files[FinalProduct].whole PROVE FALSE
      OBVIOUS
    <3>2. PICK k \in 1..Finished : files[FinalProduct].from = <<k>>
      BY <1>1, <1>2, <2>2, <3>1 DEF FromThisRun
    <3>3. <<k>> # << >>
      <4>1. Len(<<k>>) = 1 /\ Len(<< >>) = 0
        OBVIOUS
      <4>2. QED
        BY <4>1
    <3>4. QED
      BY <3>1, <3>2, <3>3 DEF FromThisRun
  <2>4. QED
    BY <2>1, <2>3
<1>3. CASE Several /\ config.inputs # << >> /\ config.mode = "object"
  <2> DEFINE last == CHOOSE j \in SameObject(unit) : \A i \in SameObject(unit) : i <= j
  <2>1. unit \in Units /\ unit \in Nat /\ Source = config.inputs[unit]
    BY <1>3, Products DEF DriverTyping, Source
  <2>2. <<ObjectName(Source), <<last>> >> \in AskedFor
    BY <1>3, <2>1 DEF AskedFor
  <2>3. unit <= last
    <3>1. last \in SameObject(unit) /\ \A i \in SameObject(unit) : i <= last
      BY <2>1, LastSame DEF DriverTyping
    <3>2. unit \in SameObject(unit)
      BY <2>1 DEF SameObject
    <3>3. QED
      BY <3>1, <3>2
  <2> HIDE DEF last
  <2>4. ObjectName(Source) \in Names
    BY <1>3, Written DEF DriverTyping
  <2>5. Finished = unit - 1
    BY <1>3 DEF Finished
  <2>6. ~(FromThisRun(ObjectName(Source), <<last>>) /\ files[ObjectName(Source)].whole)
    <3>1. SUFFICES ASSUME FromThisRun(ObjectName(Source), <<last>>), files[ObjectName(Source)].whole
                   PROVE  FALSE
      OBVIOUS
    <3>2. PICK k \in 1..Finished : files[ObjectName(Source)].from = <<k>>
      BY <1>1, <1>3, <2>4, <3>1 DEF FromThisRun
    <3>3. k = last
      BY <3>1, <3>2 DEF FromThisRun
    <3>4. QED
      BY <2>1, <2>3, <2>5, <3>2, <3>3
  <2>7. QED
    BY <2>2, <2>6
<1>4. CASE Several /\ config.inputs # << >> /\ config.mode # "object"
  <2>1. <<FinalProduct, AllUnits>> \in AskedFor
    BY <1>4 DEF AskedFor
  <2>2. FinalProduct \in Names
    BY DEF FinalProduct, Names
  <2>3. ~(FromThisRun(FinalProduct, AllUnits) /\ files[FinalProduct].whole)
    <3>1. SUFFICES ASSUME FromThisRun(FinalProduct, AllUnits), files[FinalProduct].whole PROVE FALSE
      OBVIOUS
    <3>2. PICK k \in 1..Finished : files[FinalProduct].from = <<k>>
      BY <1>1, <1>4, <2>2, <3>1 DEF FromThisRun
    <3>3. AllUnits # <<k>>
      <4>1. 2 \in Units
        BY <1>4, OfConfig DEF DriverTyping, Several
      <4>2. 2 \in DOMAIN AllUnits
        BY <4>1 DEF AllUnits
      <4>3. 2 \notin DOMAIN <<k>>
        OBVIOUS
      <4>4. QED
        BY <4>2, <4>3
    <3>4. QED
      BY <3>1, <3>2, <3>3 DEF FromThisRun
  <2>4. QED
    BY <2>1, <2>3
<1>5. CASE ~Several /\ config.inputs # << >>
  <2>1. unit = 1 /\ DriverTyping
    BY <1>5, Products
  <2>2. 1..Finished = {}
    <3>1. Finished = unit - 1
      BY <1>5 DEF Finished
    <3>2. QED
      BY <2>1, <3>1
  <2>3. PICK p \in AskedFor : TRUE
    OBVIOUS
  <2>4. p[1] \in Names /\ config.mode # "run"
    <3>1. \/ config.mode = "link" /\ p = <<FinalProduct, AllUnits>>
          \/ config.mode \in {"object", "assembly"} /\ p = <<Output, <<unit>> >>
          \/ config.mode = "preprocess" /\ Output # NoFile /\ p = <<Output, <<unit>> >>
      BY <1>5 DEF AskedFor
    <3>2. /\ FinalProduct \in Names
          /\ config.mode \in {"object", "assembly"} => Output \in Names
          /\ config.mode = "preprocess" /\ Output # NoFile => Output \in Names
      BY <1>5, <2>1, Products, Written
    <3>3. QED
      BY <3>1, <3>2
  <2>5. ~(FromThisRun(p[1], p[2]) /\ files[p[1]].whole)
    BY <1>1, <2>2, <2>4 DEF FromThisRun
  <2>6. QED
    BY <2>5
<1>6. QED
  BY <1>2, <1>3, <1>4, <1>5

(* The exit code is the truth: after 0, each file asked for is made from   *)
(* its own sources and whole, but for a disk full when the assembly was    *)
(* written; after anything else, they are not all there; and the code of a *)
(* tool or script that failed is the compiler's (driver.c:334-536,         *)
(* 547-607, README.md:266).                                                *)
THEOREM ExitCodeTrue == DriverSpec => []ExitTellsTheTruth
<1>1. ASSUME Control, FilesRight PROVE ExitTellsTheTruth
  <2>1. SUFFICES ASSUME Done
                 PROVE  /\ status # 0 => exit = status
                        /\ exit = 0 => \A p \in AskedFor :
                                         FromThisRun(p[1], p[2]) /\ (files[p[1]].whole \/ truncated)
                        /\ exit # 0 /\ AskedFor # {} =>
                             \E p \in AskedFor : ~(FromThisRun(p[1], p[2]) /\ files[p[1]].whole)
    BY DEF ExitTellsTheTruth
  <2>2. /\ at \in {"exit", "stopped"} /\ (at = "stopped" => exit = 1)
        /\ status # 0 => exit = status
    BY <1>1, <2>1 DEF Control, ReturnCodes, Done
  <2>3. ASSUME exit = 0, NEW p \in AskedFor
        PROVE  FromThisRun(p[1], p[2]) /\ (files[p[1]].whole \/ truncated)
    BY <1>1, <2>2, <2>3, SingleTruth, OtherTruth
  <2>4. ASSUME exit # 0, AskedFor # {}
        PROVE  \E p \in AskedFor : ~(FromThisRun(p[1], p[2]) /\ files[p[1]].whole)
    BY <1>1, <2>2, <2>4, FailureTruth
  <2>5. QED
    BY <2>2, <2>3, <2>4
<1>2. QED
  BY <1>1, ControlHolds, FilesRightHolds, PTL
=============================================================================
