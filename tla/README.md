# A TLA+ verification of the winds compiler

winds compiles a subset of C and C++ to x86-64 assembly. This directory holds
TLA+ models of the parts of it whose correctness is hard to test, the TLC runs
that check them, and proofs, checked by TLAPS, of the properties that matter most.

## The system

A run of the compiler is one pass of one unit through a pipeline, each stage
reading what the one before it built in the unit's arena:

    main -> driver -> preprocessor/lexer -> parser -> semantic analysis
         -> lowering -> optimizer -> register allocator + code generator -> as, ld

| Part | State it keeps | Operations | What makes it correct |
|---|---|---|---|
| `main.c` command line | one `DriverConfig` | one branch per option | flags reach the driver |
| `driver.c` driver | temporary files, child processes, exit code | `driver_run`, `driver_run_many`, `preprocess`, `run_process`, `resolve_tools`, `emit_dependency_file` | a failure anywhere gives a failing exit code, no output is taken for good, what is left in /tmp is known |
| `lexer.c` preprocessor | macro table, stack of conditionals, stack of include and expansion buffers, the set of `#pragma once` files | `handle_preprocessor`, `try_expand_macro`, `push_macro_buffer`, `lexer_next` | a group is emitted exactly when its conditions hold; expansion and inclusion end; a macro is not expanded inside itself |
| `lexer.c` scanner | position | `scan_*` | maximal munch |
| `parser.c` parser | current token, table of type names, error flag | recursive descent, precedence climbing | precedence and associativity; recovery makes progress |
| `sema.c` semantic analysis | tree of scopes, stack offset, templates and their instances | `scope_push/pop`, `find_*_overload`, `layout_class`, `try_instantiate_*`, `analyze_*` | a name resolves to the innermost declaration; locals do not overlap; a template is instantiated once |
| `ir.c` lowering | function under construction: instruction list, next virtual register, stack size, label counter | `lower_expr`, `lower_stmt`, `lower_function` | the code computes what the syntax tree means; every register is defined before it is read; every label exists once |
| `opt.c` optimizer | instruction list, tables of what slots and registers hold | nine passes and `opt_run_pipeline` | no pass changes what the function does; the pipeline stops |
| `regalloc.c` allocator | live ranges, active list, marks, slots | `regalloc_run` | registers live together are kept apart, calls are survived, slots are disjoint |
| `codegen_x86.c` code generator | position in the text | `codegen_function`, `codegen_x86_emit` | each operand is read where the allocator put it; the calling convention is kept |
| `arena.c`, `str.c`, `diag.c` | blocks and offsets; hash table of strings; counters | `arena_alloc`, `arena_reset`; `str_intern`; `diag_report` | allocations are disjoint and aligned; equal strings are one pointer; errors are counted |

Everything is sequential: the one other process is the assembler or linker the
driver waits for. What is hard here is therefore not concurrency but long chains
of bookkeeping that must agree: a range and the list of active ranges, a slot and
the frame, a table of what a slot holds and the stores between, a counter and the
array it indexes, a step that fails and the files the steps before it left.
`hazards` in `PROJECT.json` lists these with the lines where they bite.

## The modules

| Module | Models | State | Checked by |
|---|---|---|---|
| `MacroTable` | the table of macros and its holes (`find_macro`, `lexer_define_object_macro`, `lexer_undefine_macro`) | none | through `preprocessor`; TLAPS |
| `Preprocessor` | `handle_preprocessor`, `skip_whitespace_and_comments`, `lexer_next`: conditional groups, inclusion, `#pragma once`, dependencies, macros without parameters, -D and -U | the lexer: stacks of buffers and groups, macros, lists of files | `preprocessor`; TLAPS |
| `Conditions` | `eval_preprocessor_condition` and the ten functions under it, beside what the condition means | the condition, its value | `text` |
| `MacroExpansion` | `try_expand_macro`, `expand_argument_tokens`, `expand_macro_body`: calls, arguments, `#`, `##`, `__VA_ARGS__` | the lexers at work, one above the other | `text`; TLAPS |
| `ExpansionMeaning` | what the expansion of a text is, by replacing calls (stated, not code of its own) | none | `text` |
| `ExpressionParser` | `parse_expression` down to `parse_primary`, with `is_cast_type`, `is_sizeof_type` and the test for template arguments, beside how expressions are written | an expression, what is parsed | `text` |
| `Lookahead` | the parser's `Parser saved = *p` ... `*p = saved` over `Preprocessor` | `Preprocessor`'s, the copy, the tokens seen | `lookahead` |
| `IR` | the three-address code (`ir.h`, `make_inst`): what an instruction mentions and sets, where jumps go, what a range must cover | none | - |
| `Lowering` | `lower_expr`, `lower_stmt`, `lower_function` | the function under construction, as a value | through `scan`, `machine`, `optimizer`, `pipeline` |
| `Programs` | builders for small syntax trees | none | - |
| `RegisterAllocation` | what the code generator may rely on: the contract of `RegAlloc` over the text of the function | `fn`, `allocation` | `scan` (`Implements`); TLAPS |
| `LinearScan` | `regalloc_run`, one action per iteration of each loop | ranges, the scan's lists, the frame's slots | `scan`; TLAPS |
| `AllocatedCode` | `codegen_function`: the emitted code, run | program counter, machine registers, stack frame; beside them what the three-address code means | `machine`; TLAPS |
| `WellFormedCode` | what the lowering and the optimizer see to and the allocator and the code generator take for granted (stated, not code of its own) | none | assumed by the proofs, evaluated by `pipeline` |
| `Execution` | what three-address code does when it runs: each instruction by the machine code `codegen_function` emits for it | none | through `optimizer` |
| `OptimizerPasses` | the nine passes of `opt.c`, from code to code | none | through the two below |
| `Optimizer` | `opt_run_pipeline`, one action per pass | the function, the pass to run, iterations, `changed` | `optimizer`, `doubles_folded`, `doubles_scaled`; TLAPS |
| `Pipeline` | the driver's order: `OptimizerPasses`, then `LinearScan`, then `AllocatedCode` on one function | those of `AllocatedCode` | `pipeline` |
| `Driver` | `driver_run_many`, `driver_run` and the files, tools and script they use, one action per stage | the stage, what each file holds, exit code, last child's status | `driver`, `driver_linked`; TLAPS |
| `Arena` | `arena_create`, `arena_alloc`, `arena_reset`, `arena_destroy` over what malloc returns | allocated blocks, the list of them, the ranges handed out | `memory`; TLAPS |
| `Interning` | `str_intern_init`, `str_intern_range`, `str_intern_destroy` on an `Arena` | the hash table, the bytes written, the pointers returned | `memory`; TLAPS |
| `MC...` | the instances; `MCText` puts `Conditions`, `MacroExpansion` and `ExpressionParser` into one run | - | - |
| `PreprocessorProofs`, `MacroExpansionProofs`, `OptimizerProofs`, `LinearScanProofs`, `AllocatedCodeProofs`, `ArenaProofs`, `InterningProofs`, `DriverProofs` | the proofs | - | TLAPS |

### Preprocessor

A text is a sequence of items: one for each directive, one for each token outside
them. `stack` is `l->buffers` up to `depth`; a macro's body is a buffer like a
file's. `cond` is `l->cond_stack`, which the files share; `entry` in a buffer is
`cond_depth_at_entry`. `defs` is the array of macros with the holes `#undef`
leaves, `once`, `tracked` and `opened` the lists and the count of files. A `#` at
the start of a line of a macro's body is a directive like one in a file
(`lexer.c:1864-1876`), so a body may open and close groups too. `history`, `read`,
`expanded` and `asked` are not in the code: they remember what each condition was
when it was read, which files were read and which bodies expanded, so that
properties can compare what is skipped with what the text says. A failing `realpath`, `fopen` or read of an included file is
the action `IncludeFails`, enabled for any file; `IncludeTooDeep` and
`ExpandTooDeep` are DIAG_FATAL and stop. `SearchPaths` and `Canonical` are the
directories and the links of the file system.

`Spec` asks weak fairness of `Next`: the parser asks for tokens until it gets
TOK_EOF, and each call of `lexer_next` runs to its end.

### Conditions and MacroExpansion

A condition or a text is a sequence of tokens. `Conditions` has the evaluator,
level by level as in the code, and `Meaning`, which splits a text at the operator
that binds least. `int64_t` has `Width` bits. `Replaced` expands macros textually;
the code evaluates a macro's body by itself, as if it were in parentheses, and the
macros of the run are written so that this is the same. Conditions with `?:`, text
behind the expression (ignored by the code), and a macro that reaches itself (the
code recurses until the C stack is full) are left out.

`MacroExpansion` has one lexer above another for each argument being read, as
`expand_argument_tokens` makes them. Each is told which macros are being expanded, in
a list of `MaxDepth` names (`MAX_INCLUDE_DEPTH`, 128 in the code) that is cut where it
is full. `ResultIsMeaning` compares with expansion by replacement (`ExpansionMeaning`)
wherever C says what the result is and the code means to follow:
`Ordinary` asks that no macro reach itself, that parameters stand in a body alike
(a parameter both stringified and plain gets its unexpanded text in both places,
`lexer.c:497-531`), that a `#` stand before a parameter, and that nothing empty is pasted; what is left out beyond this are
more than `MAX_MACRO_PARAMS` arguments (dropped), the lengths of the character
buffers, `__LINE__` and `__FILE__`.

### ExpressionParser and Lookahead

A tree is an operator and its operands. `Expression` down to `Primary` are the
parser's functions, on a text and a position, with the result and the position
after it; `Text` writes a tree with the parentheses C++ needs. `ParsedAsWritten`
says that parsing what was written gives the tree back. It excuses four shapes the
parser does not read as C++ does, which are listed under "Where the code and C
disagree". Types are a word or a name and stars; the tables of types and values are
constants, and no name is in both.

`Lookahead` puts the parser's copying on top of `Preprocessor`: `LookAhead` copies
the lexer, `GoBack` puts the copy back. The struct holds the stacks and the lists
of files by value, but macros by pointer and count, so an entry that a directive
changed stays changed. `lexer_next` is called by `Ask` and returns in `Deliver` or
at the end of the text. How often the parser looks ahead is bounded (`MaxLooks`).
Not in this model: a header read while looking ahead is counted towards the limit
of opened files again when it is read again, and errors are reported twice.

### LinearScan

`phase` is the pass of `regalloc_run` under way and `at` the index of its loop.
`start`, `end`, `crosses` are the `LiveInterval`s; `pending` is what is left of
`sorted_intervals`; `active` is the active array as a set, since no step depends
on its order; `inUse` is `reg_in_use`; `used` is `used_regs`; `saveSlot`,
`spillSlot`, `saves`, `spills` are the frame. `qsort` leaves intervals with equal
starts in any order, so the scan takes any of them. An instruction's index is one
higher than in the source, and 0 stands for its -1. The register file is a
parameter, so that a run can make it small enough to run out.

### AllocatedCode

The emitted code is run one three-address instruction at a time, beside the
instruction's own meaning. A value is a token that names the instruction that
produced it (and, through `lap`, the turn of a loop), so two values are equal
exactly when they must be; a branch may go either way, so every path is taken.
`regs` and `memory` are the machine's; `value` and `locals` are the meaning's.
A call is made as it is emitted (`codegen_x86.c:479-521`), a load at a time:
`BeginCall`, a `PassArgument` for each argument in order, `EnterCallee`, which loads
r11 and then al, and `ReturnFromCall`; `passed` counts the arguments that are in
place. The first six go to the argument registers, the others through rax to the
stack below the frame, where `ArgumentSlot` says (rsp goes down by a multiple of 16
first), so each is loaded from what those before it have left, and
`ArgumentsDelivered` asks of all of them and the target, on entry to the callee, that
they are still what the code means. In the callee everything is overwritten that the
calling convention lets a call overwrite. Arguments in xmm registers, those the ABI
puts on the stack for their class (`on_stack`) and `__winds_va_start` are left out.
`SavedFrame` is the
frame behind the prologue, whatever the offsets: saves that overlapped would tear
one another.

The allocator and the code generator are right only for some code. `WellFormedCode`
writes down what that is: control stays in the text, no path reads a register it
has not set, locals lie apart, parameters are stored before anything jumps, and no
value is wanted outside the live range of its text. The last is not obvious, and
nothing in the compiler checks it: pass 2 stretches a range forward to the end of a
loop and never back to its head, so a value carried around a loop into code above its
first mention would be lost. It holds of all code of the runs, optimized or not.

### Optimizer

Each pass of `opt.c` walks down the list of instructions and keeps tables of what
it has seen: what a local was last stored, which registers are constants, which
register a copy comes from. A pass is an operator from code to code, and a table
is the condition on the instructions above that puts an entry in and leaves it
there: `Enters` and `Loses` for store-to-load forwarding, `Overwritten` for dead
stores, `Records` and `Forgets` for constants. Copy propagation's map is built in
the source's order, since an entry depends on those before it. The table of
constants in locals has `MaxStackConsts` entries (64 in the code) and may be full;
the other tables of `opt.c` are taken to be large enough. Powers of two are looked
for up to 2^`MaxShift` (62 in the code). What folding answers is the constant
`Folded`, and what a function does the constant `Outcome`: the runs give them the
arithmetic and the machine of `Execution`, the proofs leave them open.

`SourcesAssumption` says what lowering hands on (`Emittable`): operands are registers
of the function, what computes nothing sets nothing, a label is there once, what a jump
goes to is there, the function ends in a return, no path reads a register that nothing
on it has set (`NothingUnsetIsRead`), and a register is set twice only by the constants
`&&` and `||` leave (`SetOnce`, `ir.c:448-514`). A `goto` to a label the function does not have, or has twice, is left
out: nothing looks for it before the assembler does (`sema.c:2602-2606`).

`Optimizer` runs the passes as `opt_run_pipeline` does. `meaning` is what the
function did on every input before the first pass, found by running it
(`Execution`) with registers of `WordBits` bits, an int of `IntBits` bits and
doubles of the same shape as IEEE 754's, the exponent narrowed to fit. An input
gives the arguments and what each call answers; a call also overwrites every local
whose address the function has taken. What a function does when it reads something
undefined or divides by zero is not compared, and neither are the calls of one that
does not end.

The passes' output was compared, instruction for instruction, with what
`winds -O1 --emit-ir` prints for functions of the instance.

### Pipeline

`Optimize` rewrites the function in one step, as the driver does before any code is
emitted; `AllocateAndRun` is then a step of `AllocatedCode`. It shows that the
allocator and the emitted code are right for code no front end writes: registers
that live across blocks because a copy was propagated, constants as operands,
merged labels. The functions of the run are well formed as written (`TextAssumption`,
which the run evaluates) and as optimized (`OptimizedCodeFindsItsValues` asks it of
the text the allocator starts on). The proofs about `AllocatedCode` hold for any set of
well-formed functions, so they speak of both.

### Driver

`at` is the stage of `driver_run` or `driver_run_many` under way and `unit` the
source. A file holds what it held before (`Old`), nothing, or something this run
made: its kind, the sources it is made from (as places on the command line, where one
file may stand twice), and whether it is whole. A name given to the driver has three
parts (directory, stem, suffix), a temporary's has four, so that no two of these are
one. A name without a suffix gets its `.d` after the last dot of the whole path
(`driver.c:160-165`): for `./prog` that is `.d`, and `DottedDirs` says what is left of
a directory written with a dot. What may go wrong is the constant `Failures`: a source
that cannot be read or has errors, a file that cannot be created, a full disk, a tool
that fails, is killed or cannot be started, a dependency file that cannot be written,
and two things that end the process where it is, with exit code 1 and nothing taken
away: a fatal error (`limit`: `diag.c:171-173`, reached from the limits of the lexer
while a source is preprocessed or parsed) and want of memory (`memory`: `arena.c:12-28`,
in every stage that builds something). `Stop` is that end; `stopped` is its stage.
The tools are external: one that fails leaves its output as it was or none; one that is
killed may leave part of it.

Two things the driver does not notice are part of the model and of the properties'
wording: a disk that is full when the assembly is written (`truncated`), and two
sources of one name compiled with `-c` into one object. `ConfigsAssumption` leaves
out command lines on which the user has one file written over another: a product
named `*.d` by `-o`, and a dependency file named by `-MF` like a product.

### Arena and Interning

A place in memory is a block and an offset. `heap` is what malloc has given and
not been given back, and it may give a block again once it was freed. A failing
malloc exits the program and is left out; sizes are far from SIZE_MAX. `Interning`
writes the bytes of its texts and of its entries into the arena, so that a
range handed out twice would show as a text that has changed.

### Lowering

A syntax tree is a nested record, a lowering state is the function so far and
the operand returned last; each operator is one case of the source's switch.
Covered are integer and pointer locals: literals, variables, `&`, `*`, unary and
binary operators, `&&`, `||`, `?:`, the comma, `++`/`--`, assignments plain and
compound, direct and indirect calls, and all statements. Left out are classes,
references, arrays, globals, varargs and floating point but for operators on doubles. The trees the runs use
are those of functions the parser accepts; the code they lower to was compared
with what `winds --emit-ir` prints.

## The runs

| Run | Instance | What it shows |
|---|---|---|
| `preprocessor` | every main file of up to four lines from seven about groups and of five from six, with five headers that leave a group open or close one of their includer; 32 units of files that include each other and themselves, through links and search paths, with macros that name each other, a macro whose body closes a group, and with -D and -U; stacks of two groups and five buffers, two `#pragma once` files, four files | what is skipped is what the text says, includers keep their groups, no macro is inside itself, the macro table has one entry a name, dependencies are complete, `#pragma once` holds, reading ends |
| `text` | 27,000 conditions of up to four operands; 3,000 programs of macros; every expression of two levels of operators, one operator of each precedence | values, expansions and, but for four shapes, trees are those of the language |
| `lookahead` | five files that define, use and undefine or redefine one macro; one look ahead | the fourth finding |
| `scan` | 39 functions: expressions that keep several values alive (sums, calls in calls, both short-circuit forms, `?:`), each in four shapes of control flow, and more values than registers; two callee-saved registers and one scratch register | registers run out, are given back, cross calls and loops, and are spilled: at every step the bookkeeping is sound, the result is one the contract allows, and the allocator finishes |
| `machine` | the 32 functions, one with eight parameters that calls with eight arguments, one that does so through a pointer and one without a final return; one callee-saved and two scratch registers | on every path every operand, argument (in a register or on the stack), local, saved register and return value is right |
| `optimizer` | 36 integer functions: expressions a rule or a table applies to, each in straight code and two loops, and seven shapes of control flow; -O2; registers of 8 bits, int of 5, six inputs, a table of two constants | no pass, in order or by itself, changes what a function does; the result can be emitted and reads no register that is not set; the pipeline settles before its limit |
| `pipeline` | the 32 functions of `machine` and three in which the passes chain; -O1 | optimized code reads nothing undefined and finds every value and argument: it is allocated and run as rightly as code that is not optimized, and is well formed as the proofs assume |
| `doubles_folded`, `doubles_scaled` | one function each | the first two findings |
| `driver` | every mode, up to three sources, two of one name in two directories, one source twice, with and without `-o` (also `-o ./prog`), `-MMD`, `-MF` and libraries, every failure, the two that end the process too | the exit code tells the truth and is the status of what failed, what may be left behind is known, errors touch nothing, dependency files follow products |
| `driver_linked` | two sources linked with -MMD, no failure | the third finding |
| `memory` | four texts in two buckets, one the beginning of two others and one larger than a block; blocks of 10 bytes, which allocations of 4 and 8 never fill, five of them, freed and given again | equal texts are one pointer, none is overwritten, no two owners share bytes, every block can be freed |

The bounds are enough for what they are about: overlap, expiry and spilling need
one register fewer than values, and the functions have three and more values over
every kind of jump and call; one saved register already shares its slot region
with spills and locals. Eight bits keep sums, products, shifts and the sign apart
(every constant of the functions and every product of two of them fits), and the
rules of the optimizer look at operands that are 0, 1, -1 or a power of two. 150
steps are more than any function of the instance takes unless it never ends. Five
lines are a group with two branches and a nested opener, or two groups; every limit
of the preprocessor is reached and passed. Any two operators next to each other show
a wrong precedence or associativity, and the conditions have three. Two headers'
worth of blocks are filled by four texts, so that allocation goes to a second and a
third.

Every model that stops has `CHECK_DEADLOCK FALSE`: the compiler is a program that
ends. Fairness is assumed twice, for `Terminates` (weak fairness of the allocator's
next step: a sequential function takes a step it can take) and for `ReadingEnds`
(above). No other property is about progress.

Every property has a mutant, a plausible bug in a mapped definition, which TLC
must find: they are the `Mutant:` operators next to the definitions they stand in for.

## What the runs found

- `doubles_folded`: constant folding adds the bits of two doubles as integers.
  `opt_constant_propagation` never looks at `fp_size` (`opt.c:225`), where the
  repository's README says that it evaluates compile-time arithmetic.
  `1.5 + 2.25` compiled at -O1 is not 3.75.
- `doubles_scaled`: `x * 2.0` becomes `x << 62`, because the bits of 2.0 are a
  power of two (`opt.c:719`).

- `driver_linked`: compiling and linking several sources with `-MMD` writes no
  dependency file (`driver.c:589`), although the README promises one.

- `lookahead`: the parser looks ahead by copying itself and putting the copy back
  (`parser.c:1208-1223` and thirteen more places). The copy has the number of macros
  but not the macros, so an `#undef` or a redefinition read on the way stays. With
  `#define V 5`, the lines `int x = a < 1 + V`, `#undef V`, `;` are rejected by the
  compiler as built from this source ("use of undeclared identifier 'V'"), and with
  a redefinition instead of the `#undef` the wrong value is compiled without a word.

`Preserved` is checked on integer functions because of the first two.

### Where the code and C disagree

Met while modelling and followed by the models, which no run speaks of:

- A fatal error or want of memory while the second or third of several sources is
  compiled leaves the objects of those before in `/tmp` (`diag.c:171-173`, against
  `driver.c:594-596`, which takes them away when a source has any other error).
- The dependency file of a product `./prog` is named `.d` (`driver.c:160-165`).
- -U options are applied before all -D options, wherever they stand (`driver.c:274-286`).
- `##` in the body of a macro without parameters is not done: such a body is pushed
  as it is (`lexer.c:635-638`).
- After `arena_reset` the next block that is added takes the old ones off the list,
  so they are neither used nor freed (`arena.c:49-53`, against `arena.h:36-39`).
  Nothing in the compiler resets an arena, so this cannot happen in it:
  `NothingOutOfReach` and `BlocksReachable` speak of arenas that are not reset.
- `sizeof (x)[0]` and `sizeof (f)(x)` are complete behind the parenthesis
  (`parser.c:1493-1507`); `a < b > (c)` is read as template arguments whatever `a`
  is (1221); `(T(*p))` is read as a type of functions (455); and a parenthesis before
  any conversion to a type word is taken for a cast, or behind `sizeof` for a type, so
  that `(int(x))` and `2 * (int(x) + 1)` are rejected (416-426). `ParsedAsWritten`
  excuses these four and nothing else.
- The tables of type and value names never forget a name (`parser.c:183-199`), so a
  type shadowed by a local somewhere above is no longer a type.
- The list of macros being expanded that an argument's lexer is given has
  `MAX_INCLUDE_DEPTH` places (`lexer.c:551-557`). A macro beyond the 128th is forgotten
  and may be expanded inside itself; `NoMacroTwice` speaks of lists with room.
- Macros in `#if` are evaluated as if in parentheses, and text behind the condition
  is ignored (`lexer.c:993-1042`, 1239-1245).
- The optimizer's rules are those of signed 64-bit integers: `u / -1` becomes `0 - u` for
  an unsigned `u` too (`opt.c:746`).
- A main file that says `#pragma once`, is named by its canonical path and includes
  itself takes a place in the list of dependencies without counting as opened:
  `EveryFileTracked` excuses the one header that may then be missing.

## The proofs

TLAPS checks every proof to its leaves. The assumptions are those the modules
state about their constants; TLC evaluates each of them in the runs.

### The allocator

`LinearScanProofs`, for every set of functions and every
register file, from `FunctionsAssumption` (code is a sequence, counts are natural)
and `RegistersAssumption` (the registers of the two lists are distinct, none is
`NoReg`):

- `Typing`, the type invariant.
- `ScanInvariant`, the inductive invariant of the scan. `NoInterference` alone is
  not inductive: that a register is free is read off `inUse`, so the invariant says
  that an entry of the active list is exactly the range that holds its register
  (`ActiveHolds`, `OneHolder`), that a range with a register is either on the list
  or over before everything still to come (`ActiveOrOver`), and that the ranges are
  taken in order of their start (`InOrder`). `Interference`, `CallsPreserve` and
  `ActiveIsBounded` follow.
- `LoopsKept` and `LoopsAreCovered`: a sweep that changes nothing has covered every jump.
- `Frame` and `FrameIsSound`: the n-th eight bytes below the locals belong to the
  n-th register saved or spilled.
- `Refinement`: `LinearScan` implements `RegisterAllocation`. `Ranges` shows that
  the intervals hold every mention, `LiveWithinRange` that they cover the live
  range of the text, which the contract defines as the least stretch closed under
  its backward jumps.
- `NoneSpilledEarly`: no range is spilled while a register it may take stands free.
  `ScanInvariant` is silent about a mark nobody holds, which would be sound and lose
  a register for good; `MarksHaveHolders` adds that every marked register belongs to
  an entry of the list. A range is then spilled only if each of its registers is held
  by a range that expiry kept, which is not over, and which began no later.

### The emitted code

`AllocatedCodeProofs`, for every set of well-formed functions and every register file,
from the allocator's assumptions, `MachineRegistersAssumption` (registers of the
convention are kept out of the two lists) and `TextAssumption` (every function is
`WellFormed`):

- `MachineUsesAllocator`: the machine's behaviours are the allocator's with stutters,
  so everything above holds while the code runs.
- `ValuesStayInPlace`: the inductive invariant `MachineInv`. The run checks that an
  instruction *reads* what it should; to keep that over a step one must know it of
  every value that is *still wanted*, wherever it lies. `ValuesPlaced` says that each
  is in the register or slot the allocator gave it, `FrameKept` that the saved
  registers and the locals are in the frame, `CalleeKept` that what the prologue does
  not save still belongs to the caller, `ParametersThere` that the argument registers
  last until the last parameter is taken, `ArgumentsSoFar` that the arguments of a call
  that are loaded already are where the callee will look. A step that writes a register takes it from
  nobody because two wanted values have ranges that meet (`NoInterference`), a call
  because those that cross it are callee-saved or in the frame (`CallSafe`), a store
  to the frame because its parts are disjoint (`FrameSound`). Passing an argument
  writes a register no value wanted at a call is in, or eight bytes below the frame
  (`ArgumentsBelow`), and never the place of an argument before it.
- `ReadsFindTheirValues`, `ArgumentsReachCallee`, `LocalsStayIntact`,
  `CallerGetsItsRegisters`, `ReturnedValueSurvives`: properties of the run.

What is assumed of the text is what the code needs and does not check. The attempt to
do without showed which part is not obvious: a value carried around a loop to a place
above the first mention of its register would be lost, since ranges are stretched
forward only (`regalloc.c:165-191`).

### The preprocessor

`PreprocessorProofs`, for any files, links, search paths,
options and limits, from `TextsAssumption` (directives name macros, every file has a
text, `realpath` is idempotent) and `LimitsAssumption` (the limits are natural, one
buffer at least):

- `PreprocessorTyping` and `PreTyping`: no stack outgrows its array.
- `IncludersKeepTheirGroups`: by `KeptInv`, which adds that the entries of the
  buffers on the stack rise, so that what a buffer may close lies above all those below.
- `DeadTextIsSkipped`: what is skipped is what the text says is dead. The text's side
  is defined by counting openers and closers, the code's by a stack, so the inductive
  invariant `NestingInv` sets one beside the other: the entries of `cond` above a
  buffer's `entry` are, in order, the groups of its text around its position
  (`Mirrors`, for every buffer by `GroupsMirrored`), each with the branch taken and
  the liveness that the conditions read so far give it; and a closer that matches
  nothing, or a group left open at a text's end, has been reported (`Reported`).
  The lemmas about `Depth`, `Enclosing` and `BranchesBefore` carry the text's side
  from one position to the next. It needs `KeptInv`: only then are the entries of an
  includer untouched while the files it includes are read.
- `MacrosDoNotNest`: by `MacrosOfBuffers`: a step leaves the macros of the buffers as
  they were, takes the top one away, or adds one that `is_macro_active` did not find.
- `OneMeaning`: `WithMacroKeepsOne` and `WithoutMacroIs` say what the table's two
  operations do to its entries, holes included.
- `OnceHolds`: by `KeptOrFull`, every file that asked is in the list or the list is full.
- `DependenciesComplete`: by `FilesInv`: as long as nothing failed, no more files are
  kept than were opened, so the limit on the one keeps the other from being lost.

`MacroExpansionProofs`, for any macros and any text, from `DepthAssumption` (the limit
is natural):

- `NothingExpandsInItself`: no macro is being read twice at once, in one lexer or in two
  of which one reads an argument for the other. The inductive invariant follows the
  lists: the macros one lexer reads are different and none is in the list it was given,
  and the one whose call it is collecting is neither (`Separate`); a lexer whose list has
  room was told all that is open in every lexer below it (`Told`). It stays true of the
  lexers below because only the one on top moves.

### The optimizer

`OptimizerProofs`, for any functions, any arithmetic (`Folded`), any table size and any
level, from `SourcesAssumption`, `LevelAssumption`, `MaxShiftAssumption` and
`MaxStackConstsAssumption`:

- `AnyPassKeepsEmittable`: if a function is `Emittable`, so is what any of the nine passes
  makes of it, in whatever order they run.
- `AlwaysEmittable`, `AlwaysCanBeEmitted`, `AlwaysStaysInside`: so the function is before
  every pass of the pipeline and after the last: its labels are where its jumps need them,
  it does not run off its end, and it reads no register that nothing has set.

A pass rewrites instructions where they are, drops some, or does both. About where
control goes, two lemmas say what it must see to when it does: `RewrittenIsSound` (labels
stay, what ends the code still does, a jump goes to a label there is) and `KeptIsSound`
(the labels of the jumps that are kept are kept; the last that is kept ends the code).
Both speak of `Sound`, which says where every label is and so is easier to keep than
`CodeOf`, with which it agrees (`SoundIsCode`, `CodeIsSound`). The passes that need an
argument of their own are the merging of labels (each row has a head, and the head of a
label's row is kept), threading (each hop goes to a label of the code as it is by then, a
jump at a time), what follows a jump (the code then ends where the last label's block
does), copies (the map leads registers to registers, whatever was entered in whatever
order) and unreachable blocks (as many rounds as there are instructions reach everything
there is to reach, so what is kept is closed).

About what is read, `NothingUnsetIsRead` speaks of paths, and no induction over paths
goes through a pass that changes them. The proofs keep a certificate instead
(`Certifies`): for each position a set of registers that every way there sets, none at the
entry, the registers read there among them, and no more at a position than what comes
before it has or writes. Such sets exist if and only if nothing unset is read, and each
pass carries them along: `RedirectedFlows` and `SteadyFlows` for what is rewritten in
place, `KeptFlows` and `DroppedFlows` for what is dropped, `ClosedFlows` and `IdleFlows`
for the two common cases, dropping no instruction that one kept falls through to, and
dropping what goes on to the next and sets nothing that is still read. Four passes
change what is read or where it leads, and have to say why it is set there: forwarding
(the register stored is sure at every position up to which its local still holds it),
threading and inverted jumps (what is sure at the far target is so at the jump), rows of
labels (a label sets nothing, so what is sure below a row is sure at its head), and copies, whose new operand is sure wherever the
register it replaces is. That last one needs `SetOnce`, and the certificate closed under
the copies of the function (`CopyClosure`): without `SetOnce` a register could be set
again, by something else, on another way to the read.

What `Preserved` says, that the values are right, is not proved.

### The driver

`DriverProofs`, for any command lines and any failures, from `FailuresAssumption` and
`ConfigsAssumption`:

- `Control`: the types, which stage and which unit can have which status and exit code
  (`Route`), and that what a stage returns is what its last child left (`ReturnCodes`).
- `TemporariesRemoved`: by `Tidy`, which says for each stage which temporaries may be
  there (`Debris`): the objects of the sources before, and what this source needs from
  one stage to the next, and by `FilesRight`, which says whose they are. When the driver
  returns, none is there, with one exception the code makes: an assembler that is killed
  may leave part of the object of the source under way. Where the process ends inside
  `driver_run` nothing is taken away at all: the objects that waited for the linker stay,
  whole and each of its own source, and so does the assembly it was writing.
- `ExitCodeTrue`, `ErrorsHarmless`, `ObjectsReachLinker`, `DependenciesAfterProduct`:
  by `FilesRight`, which follows each file through the stages: whatever is new says
  which sources it is from and why it was written (`Provenance`), the assembly that is
  assembled is that of this source (`AssemblyGood`), the object of each source already
  done waits whole for the linker (`ObjectsWait`) or, with `-c`, is that of the last
  source of its name (`ObjectsKept`), what a single source asks for is made
  (`SingleMade`), the program is linked from all objects (`Linked`), and a dependency file is behind its
  product (`DependenciesBehind`). None is inductive by itself: that an object stays
  whole while the next source is compiled needs that no other stage writes its name.

### Memory

`ArenaProofs`, for any block sizes, requests and alignment, from `ArenaAssumption`:

- `ArenaSound`, the inductive invariant: what is handed out of a block lies below its
  `used`, which lies below its capacity, and the list names different allocated blocks.
- `OwnersApart`, `OwnersAligned`, and, as long as nothing is reset, `BlocksReachable`
  by `AllReached`: the current block is the last.

`InterningProofs`, for any texts, hash function and table, from `ArenaAssumption` and
`PoolAssumption`:

- `PoolUsesArena`: the pool's behaviours are an arena's, so its ranges are apart
  (`PoolRangesApart`) and every block can be freed (`PoolBlocksReachable`).
- `PoolIsSound`: the inductive invariant `PoolSound`: an entry of the table points to its
  text and a zero in a range of its own size (`TableSound`), a bucket has no text twice
  (`NoTwice`), every pointer returned is that of an entry in the bucket of its text
  (`IssuedEntered`), and a text being interned is in the arena and not yet in the table
  (`WantedCopied`). A later write changes no entry because its range is new.
- `OnePointerForEachText`, `TextsAreKept`: equal texts are one pointer, and the text
  behind it never changes.

### Only model-checked

- Liveness: `Terminates` and `ReadingEnds`.
- `Preserved` and `PassesStandAlone`: what code does when it runs is a recursive operator
  on bits (`Execution`, with `Bitwise`). `OptimizedCodeFindsItsValues` adds to the proofs
  about `AllocatedCode` that optimized code is `WellFormed`, liveness and ranges included.
- `Settles`: that the passes of -O2 come to rest is a fact about the functions of the run,
  not about all: the limit of ten iterations is there because nobody knows of a measure.
- `ValueIsMeaning`, `ResultIsMeaning` and `ParsedAsWritten`: what a recursive evaluator,
  expansion or parser computes for every input is an induction over data.
- That lowering gives `WellFormed` functions, which the proofs about the emitted code
  assume: evaluated for the functions of `pipeline`. That no path of lowered code reads
  a register it has not set is part of it, and so `DefinedBeforeUse` is checked by
  `machine` and not proved.

The type invariants `TypeOK`, `PreTypeOK` and `ArenaTypeOK` are proved, and not
checked by a run.

## Not modelled

- The rest of semantic analysis: scopes, the layout of classes, the choice of an
  overload, templates and their instances. Their state is a syntax tree that is
  rewritten while it is walked.
- The parser's statements, declarations, classes and types beyond a name and stars.
- The scanner of tokens, the syntax tree's constructors and printer, diagnostics,
  the command line: conversions and tables, with no state a later step depends on
  beyond a position or a count.
- In lowering and code generation: classes, references, arrays, globals, varargs and
  data sections. Classes have a known gap in the code itself, which calls no
  destructor at the end of a scope, and an increment of a reference parameter
  (`ir.c:696-728`) is one of the pointer.

`components` in `PROJECT.json` lists every part with its status.

## Plan

1. That the optimizer keeps `WellFormed`, on the way of `OptimizerProofs`: live ranges
   besides labels, operands and definitions before uses.
2. `Lowering` against an evaluator of the syntax tree, which `Execution` gives the
   other side of.
3. Scopes and overload resolution of `sema.c`.
