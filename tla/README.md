# A TLA+ model of the Lumis mini compiler

Lumis (`../src/`) is a teaching compiler for a small C-like language: Flex/Bison
front end, semantic checker, three-address-code generator, tree-walking
interpreter (`lumis -r`) and a back end that writes C and calls gcc
(`lumis -o`). This directory holds TLA+ modules of its phases, from the text to
the interpreter and the two generators, TLC configurations that check them on
small instances, and theorems that TLAPS proves for every instance.

## 1. Inventory

| Component (files in `src/src`) | State | Operations | Uses |
|---|---|---|---|
| Lexer (`lexer.l`) | input position, `lexical_errors` | one rule per token, comment scanning, string unescaping | called by the parser |
| Parser (`parser.y`) | Bison stack, `ast_root`, `syntax_errors` | one action per grammar rule | `ast.c` constructors |
| AST (`ast.h`, `ast.c`) | heap of `AstNode`s | constructors, `ast_add_child/arg/param`, print, free | every later phase reads it; the checker writes `data_type` |
| Symbol table (`symtab.c`) | chain of scopes of symbols | init, enter/leave scope, insert, lookup | the checker |
| Checker (`semantic.c`) | statics `error_count`, `current_func_return_type`; annotations in the AST | `traverse_node`, `check_expression` | symbol table |
| Interpreter (`interp.c`) | C call stack, `Env` heap, `InterpState` | `eval_expr`, `exec_stmt`, `interp_execute` | AST |
| TAC generator (`codegen.c`) | statics `temp_counter`, `label_counter` | `gen_expr`, `gen_stmt` | AST |
| C back end (`c_backend.c`) | a temporary file in /tmp, a child gcc | `c_backend_generate`, `c_backend_compile_binary` | AST annotations |
| Driver (`main.c`) | options | parse, check, then `-o`, `-r` or TAC; exit status | all |

The phases run one after the other in one process and share the tree. What is
hard in this code:

* **Unwinding.** The interpreter has no exceptions: a `return` sets
  `returning`, and each construct that runs statements has to notice. The
  same two fields serve all nested calls, which save and restore them.
* **Environment lifetime.** `Env`s are created and freed by hand along the
  same paths, with pointers to them in suspended C activations.
* **Two sets of scope and type rules.** The checker and the interpreter each
  have their own; a program is safe only where they agree.
* **What the checker does not look at**, and what later phases assume of it
  (annotations, argument counts, types of stored values).
* **Statics and bounds**: the enclosing function's return type, the limit of
  32 parameter types.
* **Text.** Longest match, comments found by hand, an ambiguous grammar that
  precedences disambiguate; and C text whose grouping must be the tree's.
* **Names.** TAC has one name space per function for variables and
  temporaries, and numbered labels and temporaries for the whole program.
* **Processes.** Concurrent `lumis -o` share a temporary file name; gcc may
  fail or the build be killed at any point; wait statuses become exit
  statuses.

`PROJECT.json` lists the hazards one by one, each at its line.

## 2. Modules

| Module | Models | State and actions |
|---|---|---|
| `LumisAst` | the tree (`ast.h`, shapes of `parser.y`) | constants `Ast` (heap of nodes), `Roots`, `VarName`; `AstAssumption` says that the heap has the shapes the grammar builds, `TreeAssumption` that a node is made after its parts and that each part has one place |
| `LumisValues` | `Value` and the operators of `eval_expr` | pure operators; `int` has width `IntMin .. IntMax` |
| `LumisTyping` | the common ground of checker and interpreter | pure: the known gaps between the two (`KeepsClear`), and when the types noted in a tree make it well typed (`WellTyped`) |
| `Interp` | `interp.c` | `ctl` is the C call stack: one record per activation of `eval_expr`/`exec_stmt` with the place it continues from; `envs` the heap of `Env`s; `returning`, `return_val` the `InterpState`; `val` the value just returned; `out` the output. One action per place where the C code calls, returns or loops |
| `LumisCalls` | what the interpreter promises about calls | abstract: activations, what the last has returned, the result handed over, the output |
| `InterpCalls` | `Interp` as an implementation of `LumisCalls` | the refinement mapping |
| `InterpTyped` | `Interp` running a well-typed program | what then holds of each activation, `Env` and value (`RunTyped`), stated for the proofs |
| `SymTab` | `symtab.c` | operators on a table: the sequence of open scopes, each a function from names to symbols |
| `Semantic` | `semantic.c` | `todo` is the recursion of `traverse_node`; `tab`, `ret_type`, `error_count` the table and the statics; `ann` the `data_type`s written into the tree. One action per case of the switch (and per phase of it); `check_expression` is a recursive function |
| `Pipeline` | `main.c`, `-r` | composes `Semantic` and `Interp` on the same tree, up to the exit status |
| `Codegen` | `codegen.c` | `todo` is what the recursion of `gen_expr` and `gen_stmt` has left to do, `operands` the strings `gen_expr` has returned, `code` the instructions, and the two counters |
| `TacRun` | `Codegen`, `Interp` and a machine for the code | composes the three on the same tree |
| `Lexer` | `lexer.l` | `text`, `pos`, the token returned, `lexical_errors`; one action per kind of rule |
| `Grammar` | the rules and precedences of `parser.y` | pure: the states of the automaton as sets of items |
| `Parser` | the automaton and the rules' actions | `stack`, `syntax_errors`, `ast_root`; shift, reduce, accept, give up |
| `LumisText` | the text of a tree: expressions by the strata of `GRAMMAR.md`, statements and types as `parser.y` has them | the reference for the parser |
| `Front` | `main.c` up to the test of the first phases | composes `Lexer` and `Parser`: text to tree |
| `CText` | `gen_c_expr`, `gen_c_stmt`, the function definitions | recursive operators from a tree to text |
| `Translation` | `main.c`, `-o` from the checker to the C text | composes `Semantic` and `CText`: tree to annotated tree to C text, or a rejection; `Parser` reads the text back |
| `CBackendBuild` | `c_backend_compile_binary` and the end of `main`, `-o` | one process per build, one action per system call that matters and one more for each way it can fail |
| `LumisTrees`, `LumisCorpus`, `LumisNests`, `MC*` | programs and constants for TLC | |
| `TreeProofs` | induction over a tree and recursion over it, for the proofs | |
| `InterpProofs` | proofs about `Interp` and `InterpCalls` | |
| `InterpTypedProofs` | a run of a well-typed program stays typed | |
| `SemanticProofs` | proofs about `Semantic` | |
| `SemanticTypedProofs` | what the checker accepts is well typed | |
| `PipelineProofs` | proofs about `Pipeline`, the soundness of the checker among them | |
| `TacProofs` | proofs about `TacRun` | |
| `CBackendBuildProofs` | proofs about `CBackendBuild` | |

Definitions named `X_Something` under a comment "Mutant:" are broken variants of
`X`: with one in place of `X`, the property that `PROJECT.json` pairs it with
fails. Nothing else uses them.

### Abstractions

* *Interpreter.* A float's payload and a string's text are dropped; wherever the
  code looks at one, the result may be that of any number in `Sample`, or either
  truth value. A list of `VarSymbol`s is a function: a later definition of a
  name hides the earlier one for good. An `Env` carries the chain of its
  ancestors that `env_lookup_sym` walks. String buffers and their ownership are
  left out. `calloc` can fail (`OutOfMemory`, when all of `EnvId` is in use),
  which is the crash the C code then has; `+ - *` wrap; `INT_MIN / -1` and
  `INT_MIN % -1` crash. `exec_stmt` tests `returning` on entry (line 280). The
  model does not repeat the test: `ReturningUnwinds`, checked and proved, says
  that it never fires. `Value init = {.type = ..., .int_val = 0}` is taken to
  zero the whole union, as gcc before version 15 does.
* *Checker.* The scope of a function's parameters is made in one step: the first
  of each name, as repeated `symtab_insert`s leave it.
* *Generator.* An operand is a name or a literal; comments and layout are left
  out, and so is the text of a literal (`%g`, `'%c'`), which no property of the
  code depends on: `Const` keeps its type and its number. `ToString` numbers the
  temporaries, so that one can meet a variable of the same name, as in the code.
* *Machine.* Nothing in the repository executes the three-address code. The
  machine of `TacRun` gives the instructions their usual meaning: one name
  space per function, `PARAM` pushes, `CALL f, n` takes the last n pushed as
  f's parameters, `END FUNC` returns 0, a read of a name never written is
  `undefined`.
* *Front end.* Text is a real string, since the scanner's work is about
  characters. The value of a char, a string or a float literal is a text and
  stands in the literal's `name` field; a float stands as `%g` writes it. bison's
  conflict resolution and the reductions its lookahead sets allow are computed
  from the grammar, its tables are not copied.
* *C text.* `Translation` starts from a heap of nodes as the checker and the
  interpreter do. The backend gets the tree with the `data_type`s that the run of
  `Semantic` has left in it, and only if no error was counted. The text is
  without the fixed prelude and the prototypes, with a blank for any
  layout and Lumis's word for a type in place of C's. It is read by the same
  scanner and parser: the part of C that is written has the operators, the
  precedences and the statements of Lumis, so this second reading stands for a
  C compiler's.
* *Builds.* A temporary file is a sequence of blocks, each marked with the process
  whose text it is. A write that fails, the one in `fclose` included, loses its
  block; nobody notices, and gcc gets the rest. gcc reads the file at one moment;
  a mixture of texts, or a part of one, may or may not compile. `system` returns
  0, a wait status, or -1 when it cannot make a process (`NoChild`); the
  function returns what it got. A killed build's gcc dies with it.

## 3. Runs

Deadlock is checked in every run, so the interpreter, the checker, the
generator, the parser and the builds never get stuck before they end.

| Run | Bounds | Shows |
|---|---|---|
| `interp` | 429 programs: all ordered pairs of 19 statements in `main`, of 8 loops that may never end, and four odd programs; 4-bit `int`, 12 Envs | the invariants of unwinding and of environments; that the interpreter implements `LumisCalls`; that a return reaches the caller |
| `semantic` | 628 programs: pairs of 25 statements, right and wrong, and three odd ones; room for two parameter types | the invariants of the checker |
| `pipeline` | 331 programs: pairs of 18 statements, with helper functions, and seven odd ones; room for two parameter types | soundness of checker and interpreter together |
| `tac` | 324 programs: pairs of 18 statements around loops, nested calls and shadowing; 4-bit `int`, 10 Envs, 40 names of temporaries | labels, temporaries and parameters of the code; code and interpreter agree |
| `front` | 3477 texts: every pair of operators on either side, statements three deep, pieces of a body in every order, characters in every order; literals up to 9 | scanner and parser against their references |
| `c_text` | 261 programs: two operators on ints, truth values and strings, nests of statements, and each of 8 statements that declare or hide strings before each of 19; 75 are rejected, 11 are outside `Translatable` | the C text of what the checker accepts |
| `build` | three processes, texts of one and two flushes, any of which may fail to be written, all three mortal | the invariants of concurrent builds |
| `calls`, `for_scope`, `promotion`, `build_race`, `build_exit` | one or two processes; the programs named in the cfg | the disagreements of section 5 |

Why the bounds suffice: a pair of statements is what it takes for one to leave
something behind (an environment, a returned value, a declaration, a pushed
parameter, a label) that the other meets; the helpers add returns out of nested
blocks and loops, recursion, early returns of void functions, functions that
fall off their end and arguments that are calls themselves. Twelve environments
hold `rec(2)` and not `rec(3)`, so memory runs out in some programs and not in
others. A 4-bit `int` overflows within the programs. Two parameter types let
the cut at `MaxParams` happen with three parameters. For the grammar, two
operators (three with one of each level) meet each other on both sides, which
is all a precedence decides; an `else` needs three nested statements to have two
ifs to choose from; the orders of five pieces up to length three include every
token after every other that the actions can be confused by. What the C text says of
an operator depends on its operands' types, so each operator stands next to `+`
on either side with an int and with a string there; a string variable is
declared, hidden and hidden again in a block, a nested block, a for head and a
for body, with an int of the same name around it or inside. A text that needed a 41st
name for its temporaries would be reported as a deadlock; the theorems hold for any
names, infinitely many included. Four characters
out of seven are enough for an escape inside a string inside a comment mark. A
third build is needed for a file that is removed by one process and made again
by another while the first writer still holds it.

### Properties

*Interp.* `StackWellNested`: an activation that returns a value runs on top of one
that waits for a value, a statement on top of one that runs statements.
`ReturningUnwinds`: while `returning` is set, only blocks, loops, bodies and main
are on top. `NoStaleReturn`: outside unwinding, `return_val` and every saved
copy are `INT 0`. `EnvOwnership`: every `Env` has one activation that will free it,
and none is left at the end. `NoDanglingEnv`: what an activation reaches through
`env` and the parent pointers is owned by itself or an older one.
`CallerEnvIntact` (action): while a call's body runs, the `Env`s of older
activations do not change. `UnwindQuiet` (action): unwinding only ends
activations and frees. `CallsAsPromised` (refinement): `Interp` implements
`LumisCalls`. `ReturnReachesCaller` (liveness).

*Semantic.* (That the checker's state has its types is a part of *Pipeline*'s
`TypeOK`, and proved.) `ScopesMirrorTraversal`, `ScopeHoldsTraversed`,
`GlobalIsProgram`: the table at each point of the traversal is what the program
text says.
`ReturnTypeIsEnclosing`: the static return type is never another function's.
`ErrorsNotMasked`: as long as no error is reported, an expression is `VOID` only
because of a void call or a void parameter in it, so `VOID` hides nothing that was
not reported. `OnlyStatementsSkipped`: all the checker leaves unjudged in an
accepted program are expression statements.

*Pipeline.* `OnlyLooseUnbound`, `TypesKept`, `SlotsKept`: in an accepted program
within the `Disciplined` fragment, a variable that is used has a slot, a value
that arrives where an expression was judged has the type judged (or is an int
for a float), and slots keep their declared types. `Disciplined` excludes what
is known to break this, each by name: missing returns, names declared by a for
head or an unbraced branch (unless int), `int x = x`, unchecked call statements
with wrong arguments, void values, more than 32 parameters, an assignment to a
function's name, a `main` with parameters. The run has programs of each kind;
without any one of the exclusions TLC finds a violation. `CallsKept`: a
judged call finds its function and binds all its parameters.

*TacRun.* `JumpsResolve`: every label is written once and every jump stays in its
function. `TempsStraight`: a temporary is written once and read after that in
straight-line code, if at all. `ParamsPaired`: a `CALL` takes what its own
arguments pushed, though the `PARAM`s of nested calls interleave. `SameOutcome`
(liveness): where the interpreter ends a program of the common ground, the code
ends with the same output and exit code. `Common` names what is outside: names
declared twice in a function or without a value, a variable that is called like
a temporary, calls with the wrong number of arguments, values whose payload is
abstracted; and a run in which the interpreter uses a variable that has no slot
(`LosesVariable`). The corpus has a program of each, so that the exclusions are
exercised too.

*Front.* `LexedAsRead`, `ErrorsReported`: the scanner against a reference that reads
one character at a time. `ParsesBack`: a text with the parentheses that the
strata of `GRAMMAR.md` ask for, and no others, is read as the tree it was written
from, so the precedences of `parser.y` are those strata; its statements are
written as `parser.y` has them, which is not always as `GRAMMAR.md` does
(section 5).
`NothingLost`: the leaves of an accepted text's tree are its lexemes in order.
`TypeOK` includes that every tree any reduction builds satisfies the shapes that
`LumisAst` assumes, which is what the other runs and the proofs rest on.

*Translation.* `CReadsBack`: the C text of an accepted program, read back, is the
program's tree with a `while` for each `for` and a call for each operator on
strings. The reference `InC` takes which expressions are strings from the
declarations in scope, and the text from the checker's annotations: so the
property relates the checker's symbol table, the annotations and the backend's
choices (`c_backend.c:80`, `:86`). Left out by name are a branch C has no
statement for (`LooseBranch`); literals that need escapes (`Escapes`) or a sign
(`Negative`); operators in the arguments of a call statement, which the checker
skips (`SkippedOperator`); a for head's variable used after the loop
(`OutlivesLoop`); a void operand, whose type the checker does not know
(`VoidOperand`); and floats without a fraction (`WholeFloat`). The corpus has a
program of each, and without any one of the exclusions TLC finds a violation.

*CBackendBuild.* `TempRemoved`: only a killed build leaves the temporary file
behind, however many fail. `AloneBuildsOwn`: a build with no other under way
gives gcc the pieces of its own text that were written and nothing else, all of
them unless a write has failed, also where a killed one has left a file of the
same name. `TypeOK` includes that nothing is written but to a file that was
opened.

### Fairness

`interp` and `tac` assume `WF_vars(Step)`: interpreter, generator and machine are
each one thread that is never blocked, so the scheduler lets it take its next
step. The choices inside a step (a comparison of floats) are not assumed fair.

## 4. Proofs

### The interpreter

For every program `AstAssumption` admits, every width of int, every `Sample` and
every set of environments:

`InterpProofs` has `TypeCorrect` (`TypeOK`), `StackNested` (`StackWellNested`),
`ReturnsUnwind` (`ReturningUnwinds`), `NoReturnIsStale` (`NoStaleReturn`),
`UnwindIsQuiet` (`UnwindQuiet`), `EnvsOwned` (`EnvOwnership`), `NoEnvDangles`
(`NoDanglingEnv`), `CallersUntouched` (`CallerEnvIntact`) and
`InterpImplementsCalls` (`CallsAsPromised`).

`TypeOK` is not inductive: popping an activation needs the one below it to be
of a kind that can take the result. The invariant `TypeInv` joins it with the
nesting of the stack and with facts about each activation (its kind fits its
node, its index is within the node's children or arguments). One lemma per
action shows that it is kept; lemmas about push, pop and replacement of the top
carry the sequence reasoning. `RetInv` (`ReturningUnwinds` and `NoStaleReturn`
together; neither is inductive alone) is then inductive relative to `TypeInv`:
`returning` is set only by an activation that `exec_stmt` runs, whose caller
tests it, and a call saves `return_val` only when it is `INT 0`.
`UnwindQuiet` follows from both, step by step.

`EnvOK` is the invariant of environments: a live `Env` heads its own chain and
is owned by one activation, no two own the same, a call's new `Env` has a chain
of itself alone, and whatever is on the chain of an activation's `Env` is owned
by an activation no younger than it, *with no call's body in between*. The last
part is what makes `CallerEnvIntact` hold: an assignment in a body finds its
variable on a chain that ends at the call. Freeing is safe since the freed
`Env`'s owner is on top, so no other activation can reach it.

`InterpImplementsCalls` maps the activations of `LumisCalls` to the positions of
the C stack where a body or main runs, and the value returned to `return_val`
while `returning` is set. Each action of `Interp` maps to one of `LumisCalls`
or to a stutter; `NoStaleReturn` is what makes the end of a call without a
return hand over `INT 0`, and `ReturningUnwinds` what makes every step that
computes happen outside unwinding.

### The checker

For every program `AstAssumption` and `TreeAssumption` admit and every
`MaxParams`: `SemanticProofs` proves `ScopesFollow` (`ScopesMirrorTraversal`),
`ReturnTypeIsOwn` (`ReturnTypeIsEnclosing`), `FunctionsStayKnown`
(`GlobalIsProgram`) and `ScopesHoldTraversed` (`ScopeHoldsTraversed`). `CheckInv`
says of the traversal's stack that it goes from the program to one function to
its body, everything but its top having begun; that the table has one scope more
than the stack has open functions and blocks; that the return type is the
function's once that has begun; that the global scope is the program's functions
once the program has begun, and no other scope holds a function. The scopes are
needed for the last part: a declaration is inserted in the innermost scope,
which is not the global one as the traversal is inside a function whose scope is
open. For `ScopeHoldsTraversed`, the activations above a block are a chain of
children, so what they still declare goes to the scope of the innermost block.

It also proves what depends on `check_expression`:
`CheckerTypeCorrect` (`TypeOK`, which `pipeline` checks as a part of its own),
`NoErrorMasked` (`ErrorsNotMasked`) and
`NothingElseSkipped` (`OnlyStatementsSkipped`). What a recursive function yields
for every expression is proved by induction on the size of the expression's
subtree (`TreeProofs`, from `TreeAssumption`): the induction principle is stated
about a set, so that it can be cited. An expression's judgement has a type, a
number of errors and annotations for nodes of its own subtree only; without an
error it is `VOID` only if the subtree has a source of `VOID`; and unless it has
an error every node of the subtree that is not a literal is annotated.
`JudgeInv` adds to `CheckInv` that each activation is of a child of the one below
it (`Chain`), that the annotations so far are all excused (`FoundInv`), and that
every statement the traversal has left, or every part of it, has its expressions
annotated unless an error was counted (`DoneInv`).

### The program as a whole

`PipelineProofs`: `RefinesBoth` says that a behaviour of `Pipeline` is, seen by
the checker's variables, one of `Semantic`, and seen by the interpreter's, one
of `Interp`. So all that is proved of the two holds of the composition
(`BothInvariants`), from which follow `ProcessTypeCorrect` (`TypeOK`, with the
clause that nothing runs before the program is accepted) and `JudgedCallsKept`
(`CallsKept`). The latter is about both at once: that the interpreter finds the
function and binds all its parameters follows from the annotation that the
checker left, whatever happened in between. The modules with the theorems
about `Semantic` and `Interp` are instantiated; the lemmas called `Same...` say
that the definitions of the instance are those of the original.

### The checker is sound for the interpreter

For every program the checker accepts that is `Disciplined`, `PipelineProofs` has
`VariablesAreBound` (`OnlyLooseUnbound`), `TypesAreKept` (`TypesKept`) and
`SlotsAreKept` (`SlotsKept`). The checker and the interpreter meet in a typing of
the tree, `WellTyped(root, ann, seen)` of `LumisTyping`: `ann` are the types the
checker has noted, and `seen` says of each node which variables the scopes around
it have. Names that a for head or an unbraced branch declares, over whose scope
the two disagree, are not in `seen`; they are ints throughout (`LooseAreInts`).

*The checker's half*, `AcceptedAreTyped` in `SemanticTypedProofs`: an accepted
program that keeps clear of the gaps is well typed. What a node sees depends on
the tree alone, and so does the type an expression would have with that; both are
shown to exist, by induction on subtrees, before the checker has looked at anything
(`Static`). `PutInv` is then an invariant of the traversal: as long as no error is
counted, the table's scopes show at each activation what `seen` says there
(`Shown`), every annotation is the static type (`NotesRight`), and every statement
traversed satisfies its rule (`TypedSoFar`). One lemma per case of `traverse_node`
keeps it. `KeepsClear` is needed where a declaration would change what a statement
outside its block sees, where an initializer sees its own variable, and where an
assignment to a function's name passes.

*The interpreter's half*, `RunStaysTyped` in `InterpTypedProofs`: a run of a
well-typed program stays typed. `RunTyped` describes every `Env` by what the
checker would know of it (`Desc`: the function it belongs to, whether it holds the
arguments of a call, what is declared in it so far); the description is a value
the invariant asserts to exist, and each action says how it changes. It joins
four things. `StackTyped`: each activation is at a place of its own function, and
the chain of its `Env` has in its innermost declarations exactly what `seen` says
there (`Models`); the activation below one that is just declaring a variable is
excepted, since it sees the variable before the slot is there. `SlotsFit`: what is
declared has a slot with a value of its type. `Arrived` and `ReturnFits`: the value
just returned, and the one a `return` carries, are of the type awaited. And
`WillReturn`: in the body of a non-void function there is a statement still to
come that cannot be left without a `return`, so that `INT 0` is never made up for
a result. None of these is inductive alone: an assignment keeps slots in order
only since the name resolves to the `Env` the checker resolved it to, which
`Models` says; `Models` survives a call only since the callee's arguments start
a chain of their own, and a block's end only since `EnvInv` says who owns what.
A program that is not well typed, or a void value used, makes the invariant
empty; so it is stated for every `notes` and `seen`, and holds from the start.

*Together*: the run begins with what the checker has accepted, so its typing is
there from the first step of the run (`Settled`), and the three properties are
what `RunTyped` says of the activation on top.

### The generator

`TacProofs` proves, for every program, `JumpsAlwaysResolve` (`JumpsResolve`),
`TempsAlwaysStraight` (`TempsStraight`), `ParamsAlwaysPaired` (`ParamsPaired`) and
`MachineTypeCorrect` (`TypeOK`).

*Labels.* A jump may be written long before its label, so `GenInv` speaks of the
whole text, what is written and what `todo` will write, as one sequence of marks,
in which a function not begun stands for the `END FUNC` it will become and
everything else not begun is blank. It is always linked: the labels are numbered
below the counter, each is there once, and a jump has its label with no end of a
function in between. An action replaces one mark by several. `ReplacedIsLinked`
says when that keeps the text linked: the new marks are linked among themselves
with numbers that were not used before, and an end of a function among them
replaces an end and comes without jumps.

*Operands and parameters.* `Does` says what a job makes of two numbers: that of the
operands that wait and that of the parameters that were pushed in the function
and not taken yet. An expression adds one operand; a statement begins and ends
without a parameter. `Leads` follows both along a list of jobs, and `ExprLeads` and
`StmtStill` show that what an expression or a statement is made of does what it
does itself. So the second number can be read off the text: `FlowInv` has a
height `h` for each instruction, from one to the next by `Moves`, that is 0
wherever control comes from or goes elsewhere, and shows that each instruction
has the operands it uses.

*Temporaries.* `Leads` also follows that operands wait only while instructions are
written that leave control where it is (`Carries`): a statement begins with none,
and a jump, a label or an end takes all there are. `TempInv` is then inductive: each
temporary in the text has a number below the counter and an instruction of its own
(`TempName` gives different numbers different names); what an operand that waits
names is a variable of the program (`Named`) or was computed with nothing but
computations and `PARAM`s after it, and nothing has read it (`Waits`); and what an
instruction has read was as fresh when it was read (`Temps`). `TempsWritten` moves an
operand from the one to the other. That no variable has a temporary's name is needed
at the end only, where `TempsStraight` supposes it.

*The machine.* `ShapeInv` says that the text of a function ends with `END FUNC` and
that each function of the program has its head in it. With these, `MachineInv`
is inductive: every activation is at an instruction, those that wait at a `CALL`,
and the stack of parameters is shared out among the activations (`Fits`), to each
what `h` has where the activation is. A step that moves the top activation moves
its share alike; a jump goes from height 0 to height 0; a call that enters a
function finds height 0 there, and one that returns has left nothing.
`ParamsPaired` says of one instruction what `MachineInv` says of all activations at
once. It also says that every variable and parameter is a `Value`, from which
`tac_exit` gets its range. For `TypeOK`'s part about the interpreter,
`RunsAlone` shows that a behaviour of `TacRun` is one of `Interp`.

### Builds

`CBackendBuildProofs` proves, for any number of processes, any sizes of their
texts, any wait statuses, any set of mortal processes and any set of processes
whose writes may fail: `BuildTypeCorrect` (`TypeOK`), `NoTempLeft`
(`TempRemoved`) and `AloneIsEnough` (`AloneBuildsOwn`). `TypeOK` is inductive by
itself; the result it speaks of is 0, 1, a wait status or the -1 of a `system`
that failed, and the exit status a byte. `TempRemoved` is inductive relative to
the types. `AloneBuildsOwn` is not: what gcc finds needs what was written
before it. `OwnInv(p)` says at each place of the function what holds of a process
that is alone: no other process builds, the path names the file it has opened,
and that file holds exactly the blocks that were not lost, as many as its
offset. `OtherStep` shows that no
other process can disturb this without `alone` becoming false, `OwnStep` that the
process itself keeps it.

### What the proofs rest on, and what is only checked

The assumptions are those of the modules: `AstAssumption`, `TreeAssumption`,
`ValuesAssumption`, `EnvAssumption`, `MaxParamsAssumption`, `PipelineAssumption`,
`CodegenAssumption`, `TacAssumption` and `BuildAssumption`, which TLC evaluates in the runs. `front` checks
`AstAssumption`'s shapes of the trees the parser really builds. `TreeAssumption`
holds since `ast_add_child` and `ast_add_arg` are only called on a node that was
just made, with parts that already existed, and every rule of `parser.y` gives each
of its parts to one node, once. The second half of it, that two parts of a node
share nothing, is what lets one type and one view be given to each node.

Only model-checked:

* `Front` (`TypeOK`, `LexedAsRead`, `ErrorsReported`, `ParsesBack`, `NothingLost`)
  and `Translation` (`CReadsBack`): their modules use RECURSIVE operators and strings as sequences of
  characters, which the prover has no theory of, and what they say of every text
  needs induction over texts and over derivations.
* That the exclusions of `Disciplined` are all needed: the corpus of `pipeline` has
  programs on either side of each, and TLC finds a violation when one is dropped.
* Liveness (`ReturnReachesCaller`, `SameOutcome`), which needs fairness and
  `ENABLED`.

## 5. Disagreements found

Each is a run that TLC must find violated.

* `calls`: call statements are never checked (`semantic.c:340`), against rule 4
  of `semantic.h`.
* `for_scope`: the checker keeps a for loop's variable declared after the loop,
  the interpreter frees it (`semantic.c:294`, `interp.c:330`).
* `promotion`: int is accepted for float and never converted (`interp.c:298`).
* `build_race`: all builds write to the same temporary file
  (`c_backend.c:313`).
* `build_exit`: a failed build exits with status 0 (`main.c:138`).

Two more ways to use a variable that was never declared came up when the
soundness theorem was planned: the checker accepts an assignment to a function's
name (`semantic.c:252` asks only for a symbol, where a reference is refused,
line 35), and the interpreter makes a variable of it on the spot; and the
parameters of a `main` that has some are declared, and bound by nobody
(`interp.c:392`). `Disciplined` names both, and `pipeline` has a program of each.

Met while modelling, without a run, since no document of the repository says
otherwise: an expression statement that is the unbraced branch of an `if` leaves
the next statement in its place in the C text (`if (a) 1 + 2; print(3);`); strings
and characters are written to C without escapes; a float literal is written with
`%g`, which makes an int of 2.0 (`c_backend.c:59`), so that the C text of `5 / 2.0`
divides integers; a char literal `'\n'` is the
character after the quote, a backslash (`lexer.l:115`). `GRAMMAR.md` is behind the
sources in three places, where the model follows the sources: by its productions
(lines 180 and 187) the update of a for statement ends in a semicolon, which the
parser rejects (`parser.y:201`; `front` has such a text); it leaves out
expression statements and the types `string` and `void`; and its pattern for a
`CHAR_LIT`, `'.'` (line 117), simplifies that of `lexer.l:35`, under which `'\'` is
no literal, and `'\''` and the other escapes are.

## 6. Not modelled

* Printing and freeing of trees (`ast_print`, `ast_free`), `symtab_print`: output
  and memory release that no other state depends on.
* The ownership of string buffers in the interpreter and the constructors.
* The C prelude (`__lumis_print`, `__lumis_to_str`, ...) and the prototypes:
  fixed text. Execution of the C text is not modelled, so neither is that `&&`
  and `||` are short-circuit there and not in the interpreter.
* Argument parsing, messages and line numbers.
* `cmd`'s 512 bytes (`c_backend.c:325`).

`PROJECT.json` gives the state of each component.

## 7. Plan

Done, in this order: `LumisAst`, `LumisValues`, `Interp` with its runs; its type and
return theorems; `SymTab`, `Semantic`; `Pipeline`; `CBackendBuild` and its theorems;
`LumisCalls` and the refinement; `Codegen` and `TacRun`; `Lexer`, `Grammar`,
`Parser`, `CText`, `Front` and `Translation`; the theorems about environments,
calls and the checker's scopes; those about what the checker judges, the program as a whole
and the generator's labels, temporaries and parameters; `LumisTyping`, `InterpTyped`
and the soundness of the checker for the interpreter.

What the project could be extended by: a machine for the C text, with
short-circuit operators and C's types, and its agreement with the interpreter
where the program has no effects in operands.
