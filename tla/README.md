# A verification project for dusk

dusk is a small imperative language. `duskc` compiles one module: it lexes and
parses a file, checks it, generates LLVM IR, writes an object file and links it
with a runtime library; `dusk-format` prints a module back. Everything is
single-threaded C++17 over LLVM 6, and asserts and `llvm_unreachable` stay live
in its builds. What is hard here is not threads. It is that

* several passes walk one AST, each with its own stack of scopes, and have to
  agree about it without talking to each other;
* the state of a pass (insertion point, loop stack, symbol table, error flag)
  is kept right by the order of many small steps, in every nesting of
  statements, which the repository has no tests for;
* errors are reported in one place and recorded in another, and every pass
  goes on for a while after one;
* runs of the compiler leave files behind that later runs find, and each may be
  interrupted between any two steps;
* the code that is generated has a dynamics of its own: the emitted `for`
  loop, with integers of 64 bits, calls into the runtime.

`PROJECT.json` lists components, runs, mutants, hazards, findings and theorems
and maps each definition to the lines it models.

## 1. Components

| component | state | operations | interacts with | hard part | correct when |
|---|---|---|---|---|---|
| Lexer (`lib/Parser/Lexer.cpp`) | `CurPtr`, `NextToken` | `lex`, `lexToken` and its helpers | parser pulls tokens; reports to Diagnostics | one token ahead of its reader; error tokens that are not diagnosed | every call consumes or is at eof; every unknown token is diagnosed; an error is recorded |
| Parser (`lib/Parser/Parse*.cpp`) | `Tok`, call stack | `parseModule`, `parse`, one method per construct | sets `ASTContext`'s error flag, builds the AST | recovery: `nullptr` means both "end of block" and "error" | terminates on every input, never stops at an assertion, accepts only modules of the grammar |
| Symbol table (`lib/AST/NameLookup.cpp`) | chain of layers, functions, depth | `declareVar/Let/Func`, `getVal`, `getFunc`, `contains`, `push`, `pop` | one instance in Sema, one in IRGen | null entries left by lookups; two maps per layer | lexical scoping |
| Scopes (`lib/AST/Scope.cpp`) | flags and nearest parents | `PushScopeRAII` | Sema's checks of `break`, `return` | assignment through a reference kept by an RAII object | answers for the innermost statement |
| Type checker (`lib/Sema`) | table, scope, constants, error flag | one visitor method per node | rewrites the AST (constants substituted) | goes on after errors | accepts only what IRGen can take, survives what it rejects |
| Function emission (`GenFunc.cpp`, `IRGenFunc.cpp`, `LoopInfo.cpp`) | blocks, insertion point, loop stack | one visitor method per statement | LLVM's builder | jumps in the middle of blocks, blocks created here and closed there | well-formed blocks that do what the function says |
| Module generation (`GenModule.cpp`, `IRGenModule.cpp`, `GenRValue.cpp`, `GenLValue.cpp`) | second table, `Vals` | globals, functions, expressions | trusts Sema's verdict | scopes opened at other nodes than Sema's | each use of a name is emitted for the declaration Sema meant |
| For loops and runtime (`RangeIterator`, `stdlib/runtime/iter.cpp`) | iterator, hidden counter, size, step | four emitted blocks, two functions | generated code calls C++ | sizes at the limits of 64 bits; leaving the loop | the body sees the values of the range, and the loop ends |
| Types (`AST/Type.h`, `Sema/TypeRepr*`, `IRGen/GenType.cpp`) | none: values | `isClassOf`, resolution of a representation, LLVM type | type checker, code generator | resolved in two places in two ways; null for "could not be resolved" | where types are equal, so are the LLVM types |
| AST and walkers (`lib/AST/ASTWalker.cpp`) | node graph | traversal with callbacks before and after each node | forward declarations, solver, search for constants | replaced expressions, refusals on the way back, absent children | every child is walked once, in order; what is returned is stored; a refusal ends it |
| Diagnostics (`lib/AST/Diagnostics.cpp`) | the active diagnostic | `diagnose`, `flush` | lexer, parser, Sema | one at a time; re-lexes for fix-its | each reported once |
| Driver (`CompilerInstance.cpp`, `tools/duskc`) | context, error flag | the phases, object file, link | all | gate after each phase, files of earlier runs | no object file and a failing status after an error |
| Formatter (`ASTPrinter.cpp`) | depth, start of line | one method per node, hooks before and after it | parser | tokens are printed in one place and spaced in another | the text printed has the tokens of the text read, laid out as nested |

The interactions that matter: the parser fills the AST and the error flag; Sema
reads and rewrites the AST and raises the flag; `performCompilation` goes on
only if the flag is down; IRGen repeats the walk with a new symbol table and
takes everything Sema let through for granted.

## 2. Modules

| module | models | rests on |
|---|---|---|
| `Int64` | machine integers of any width, two's complement | |
| `RangeWalk` | abstract: what the language reference says a `for` over a range visits; a walk over more than `Limit` values may end early | |
| `RangeLoop` | the emitted blocks of a `for` loop with `__iter_range`, `__iter_step` | `Int64`; implements `RangeWalk` with `Limit <- MaxInt` |
| `LookupChain` | the data of a symbol table: layers, lookup, declaration | |
| `LexicalEnv` | abstract: lexical scoping | |
| `NameLookup` | the interface of the symbol table | `LookupChain`; implements `LexicalEnv` |
| `NameLookupProofs` | theorems about `NameLookup` | |
| `GenFunc` | emission of the basic blocks of one function | |
| `GenFuncProofs` | theorems about `GenFunc` and `GenFuncRun`, and about `RangeLoop`, the loop of its for statements | |
| `GenFuncRun` | execution of what `GenFunc` emitted beside the meaning of the statements | `GenFunc` |
| `Binding` | Sema and IRGen side by side: scopes, names, constants, error flag | `LookupChain` |
| `BindingProofs` | theorems about `Binding` | |
| `Syntax` | kinds of tokens, the grammar as productions, which token may come next in a form | |
| `Grammar` | abstract: reading a file by the grammar, one production or token at a time | `Syntax` |
| `Parse` | the recursive descent parser: token, call stack, error flag, diagnostics | `Syntax`; implements `Grammar` |
| `ParseProofs` | theorems about `Parse` | |
| `Lexemes` | classes of characters, spellings of tokens | |
| `Scan` | abstract: the longest tokens between blanks and comments | `Lexemes` |
| `Lex` | the lexer: pointer, inner loops, the token one ahead, diagnoses | `Lexemes`; implements `Scan` |
| `Types` | types, their comparison, the two resolutions of a representation, LLVM types | |
| `Expr` | the type checker, the solver and the code generator on statements and their expressions | `Types` |
| `ExprProofs` | theorems about `Expr` | |
| `Driver` | runs of `duskc` and `dusk-format`: phases, error flag, object file, link command | |
| `DriverProofs` | theorems about `Driver` | |
| `Format` | the formatter on the tree of every module | |
| `TextProofs` | theorems about text that is read, by `Lex`, and printed, by `Format` | |
| `Walk` | traversal of the tree by the three walkers and by an arbitrary one | |
| `WalkProofs` | theorems about `Walk` | |
| `MC*` | the small instances, with one `.cfg` per run | |

### RangeLoop

`pc` is the basic block the compiled program is in: `entry` (where the for
statement is), `header`, `body`, `next` (the tail of the body) and `end`.
`Enter` is `RangeIterator`'s constructor with `emitHeader`, `Header` is
`emitCond`, `Advance` is `emitNext`, `Leave` is a `break` or `return` of the
body. `iter` and `counter` are the two allocas, `size` and `step` the results
of the runtime calls, taken mod 2^w. Requests are the operands a loop may be
run with. The body does not write the iterator: Sema rejects the assignment
(for the one way around it see "observed" below; the counter, on which
termination rests, cannot be named by a program at all).

Bounds: 4-bit integers, where the interesting sizes (0, 1, the greatest
integer, sizes that wrap to 0, to negative numbers and to the least integer)
all occur and every one of the 512 ranges is tried. Only a range with more
values than `MaxInt` may end early, and still not visit a value outside of it
or out of order. Fairness: weak fairness of
`LoopNext`. The loop is straight-line machine code; the processor goes on, and
whether the body leaves is not restricted. The proofs are for every width.

### NameLookup

`layers` is `Impl` with its parents, `Depth` the counter, `Funcs` the map of
functions and `keys` the keys that map has: `operator[]` makes one for each
name it is asked for. Each method is an action, `result` what it returned, so
that the refinement also compares answers. A call whose assertion fails is
not enabled (declaring functions below the global scope, popping the global
scope); Sema and IRGen are in `Binding` where such calls would show.

`Env == INSTANCE LexicalEnv WITH envs <- EnvsOf(layers), ...` maps the chain to
the environment in each open scope. `declareLet` has no caller (constants are
declared with `declareVar`); with it in use the table is no lexical
environment (an outer variable hides an inner constant) but still finds what
is visible. `Implements` therefore asks of the steps between states without
`declareLet` entries to be steps of `LexicalEnv`; the run makes all calls.
Bounds: 2 names, two variables, two functions and one constant for one of them,
one of each for the other, depth 3, where an entry can be shadowed twice and
scopes be popped below it.

### GenFunc and GenFuncRun

The program is not a constant. Each step chooses the next statement of the
innermost open block, so that the reachable states are the compilations of
all functions of up to `MaxStmts` statements. `open` is the stack of visitor
calls, `code` the instructions in each block, `placed` the function's block
list, `cur` the insertion point, `loops` the `LoopStack`. Expressions are one
opaque instruction. `Untidy` says which of two kinds of functions are
compiled that the code is known to emit malformed blocks for.

`GenFuncRun` executes the finished function: `at` is the instruction, `expect`
what the function, read as a structured program, does next: `After`, a recursive
function, says it for each statement. `InSync` compares
the two at each instruction and each outcome of each condition.

Bounds: 4 statements, enough for a loop in a loop with a jump, an if with an
else in a loop, and every pair of statements nested or in sequence.

### Binding

A behaviour is the AST of some module, visited node by node, with both passes
at the node. `sl`/`sF` are the type checker's symbol table, `scopes` its
`Scope`s, `literals` the constants that its solver replaces by their values;
`gl`/`gF`/`vals`/`loops` the code generator's. Every node is one action with a
`Sema...` and a `Gen...` part. The second part counts while no error is
recorded and outside of nested functions, whose bodies IRGen skips. `sema` and
`irgen` say where a pass crashed. `refs` holds what each pass resolved the
names of the last node to; `stored` what an assignment wrote. All values are
Ints. `Odd` names ten kinds of modules the code is not prepared for; the runs
show what happens to modules with none of them and with all. Alone, four of
them break `NoCrash`: `Odd = {"top-control"}` (`GenModule.cpp:110`, its
`llvm_unreachable`), `{"top-return"}` (`TypeCheckStmt.cpp:43`, a null function
is dereferenced), `{"value-as-callee"}` (`TypeCheckExpr.cpp:342`, no
diagnostic) and `{"global-init"}` (`GenModule.cpp:91`, a load where a constant
is needed).

Bounds: 2 names, one variable and three constants (parameters and iterators
are of the same class), one function (two for redefinitions), 2 or 3 open
statements. Three are enough for a function, a loop and an if with
declarations of a name at each level. After an error the visit is followed
where at most `ErrFrames` statements are open, 1 in `binding_plain`: at the top
and in the body of a function.

### Parse

The C++ call stack is the variable `stack`: its entries are program points,
either the entry of a parsing method (`"Node"` is `parse()`, the others have
the name of what they parse) or the point behind a call, where the caller goes
on. `ret` is what the last call returned; nullptr is `"null"` for an error or
nothing, and `"absent"` where it rightly means a part the program does not
have. `Tok`, `error` (the context's flag) and `reported` are what they are in
the code; a step takes one of the shapes `Eat`, `Go`, `EatReturn`, `GoReturn`,
`Fail`, `EatFail`, with or without the token, to a further point or back to
the caller. The lexer is behind `consumeToken`: it delivers any token, and it
has reported an `"unknown"` one; `"bar"` is the lone `|`, the unknown token it
says nothing about (`Lexer.cpp:235`). Precedence of operators only shapes the
tree and is not modelled: `parseBinExprRHS` returns to itself.

`Grammar` has the form that is left to be derived. `RestOf` says what the
grammar has the rest of each method read; the forms of all stack entries, one
behind the other (`Expected`), and `Nodes` at the end are what the parser still
expects. `Implements` asks that each step of the parser be a derivation step,
a token read as the form allows, or the end. It excepts one thing: a parameter
may be named `inout` (`ParseDecl.cpp:160`). `RefusesOnlyErrors` is the other
direction: where some continuation of the form can start with the current
token, the parser does not refuse it and does not take a path on which it
would be an error. It excepts what the parser is known to refuse
(`KnownRefusal`): a statement that begins with an operator or with `[`, any of
these and declarations behind an empty statement of a block
(`{ ; let x = 1; }`), and `&` values and `inout` types that are returned. Every
one of these exceptions is needed; the run fails without it.

The step `Abort` is an assertion or `llvm_unreachable` of the parser.
`RefusesOnlyErrors` shows that it takes a wrong file to get there; a wrong file
does (`if a;`, `func f;`, `func f(a: T,)`, `let a: T b`).

Bounds: seven openings (nothing, and the beginnings of nested constructs that
a few tokens do not reach: parameters, result type, else branch, range, array
type, items of a call) and up to 4 more tokens of 30 kinds. The kinds left out
are ones the parser treats like another that is there. Every point of every
method is reached. Fairness: weak fairness of `Next`, as nothing in the parser
waits for anything. `Terminates` excepts the tokens that `parse()` does
nothing about at the top level.

### Lex

A character is a string and a file a sequence of them; `CurPtr` counts the
characters before it, and the NUL behind the last one ends the buffer. `pc` is
the loop the lexer is in: `loop` is `lexToken()`, `line`, `block`,
`identifier`, `word` and `digits` the loops of the methods it calls, `idle` the
time between calls. A step is one iteration. `word` and `digits` are the two
passes over a number, to the end of the word and again over its digits.
`NextToken` is the token one ahead, `Ret` the one `lex()` handed over. A
diagnosis carries the line quoted for it: `getLineForLoc()` lexes the token at
its location again with a second lexer, and from the same start that ends where
the first one did, so `EndOfLine` goes on from `CurPtr`. Comments are never
kept, as no caller asks for it.

`Scan` has no machine: blanks and comments are given by where they may begin
and end, tokens by how they are spelled, and the next token is the longest one
at the position. `S` maps the lexer to it: between calls the position is
`CurPtr`, in an inner loop still `TokStart`, and the token changes when the
lexer returns. That also covers the unknown token an unterminated comment
forms, which nobody sees (`Lexer.cpp:437`). `Scan` describes the language that
is accepted, and so differs from `TokenDefinitions.def` as listed below.

Bounds: every text of up to 3 characters over 19 classes; of 4 over words and
over numbers, the length of a prefixed number with a good and a bad digit; of 6
over comments, enough for `/*/` and `**/` with something behind; of 5 over
lines. Punctuators that are left out are single characters like the comma. The
proofs are for every text. Fairness: weak fairness of `Lexing`, a call runs
until it returns; nobody has to call, since a parser may stop.

### Types and Expr

A behaviour writes a function body, node by node in the order of the source,
and visits each as the visitors' recursion does. `frames` are the visitors that
have not returned, each with the children they have visited. A child is the
node the solver left, with what `ExprChecker` knows of it (`kind`, `ty`) and
what `RValueEmitter` and `LValueEmitter` will make of it (`ir`, `slot`,
`const`). So `visitInfixExpr` here stands for both methods of that name, and
their sources are both mapped. The code generator comes to a statement as soon
as the type checker has left it (`Generate`): what it emits for one statement
does not depend on the next ones, and it runs only when there was no error.

Types are sequences of constructors, null the empty one. `Checked` and
`Forward` are the two resolutions of a representation, by `TypeReprChecker` and
by `Sema::typeReprResolve`; the second takes every size for a number. `Emitted`
is the LLVM type of a value. The emission of functions' prototypes goes
through `Checked`.

`odd` collects what a body has that the type checker lets through although it or
the code generator is not prepared for it: the 22 members of `Odd`, each set in
one place of the module, at the visitor that misses the check. Every one of them
is a way to make the compiler stop or to emit an ill-typed module, or code
without an effect the source has. The invariants say that there are no others: a body
that is accepted and has none of these is compiled as it was typed. `last` has
the calls and assignments of the last statement as the source has them and as
they are emitted. `mutated` has the constants that were written and how.

What a body starts with is a constant: `Given` are the globals and parameters,
`Values` the literals that the solver finds as their values, with all nodes in
them. `ExprAssumption` asks of them what the same visitors have established by
the time they are in a table: types of data, values that are `Formed` and fit
their types, and arrays that are memory of declared names. `TypesAssumption` is
about the shape of the parameters only.

Names are resolved in one flat scope, as `Binding` is about scopes, and values
of numbers are 0 and 1. Statements end the same way whether they are in a loop
or not: `GenFunc` is about those.

Bounds: a function and a declaration of every kind are there from the start
(see `MCExpr`); bodies have up to two statements, a declaration first, and up to
five expression nodes in all, three deep, as many as it takes for an
assignment to an element of a constant that another declaration has aliased. A
body with an error is followed for two nodes, one with something odd not at all.

### Driver

`run[p]` is a process: its phase, what it was called with, the text it has
read, the error flag of its context, and as history whether it has written
anything to stderr, emitted, been alone with its object file, and linked.
What the phases find depends on the kind of the text. `source`, `object` and
`binary` are the files that all runs in a directory share: the object file is
`<input>.o` whatever `-o` says. A file is the set of pieces of code in it, each of
some text and whole or torn. Opening the object file empties it; what is written
behind that may keep the end of what another run has written. Emission is one
step, in which it may fail or die in the middle. `Edit` and `Kill` are the user.

`-S` and `-quiet` change none of this and are no variables (what `-quiet`
is read as at construction is `consumer`). The input is read at once. The compiler
has no locks, no temporary files, and no retry.

Bounds: two processes, two runs, one edit: a run in the files another has left, a
run overlapping another, and either with an edit in between. Fairness: weak
fairness of the steps of each process once it runs, as the system schedules
every process and none waits for another; not of `CompilerInstance`, `Edit`,
`Kill`. `RunsEnd` excepts the texts on which the parser goes round
(`Parse`: `Terminates`).

### Format

The tree is not a constant: each call of `visit` picks a node that the parser
could have built there, so the reachable states are the printings of all
modules within the bounds. `form` is what the parser has read for the nodes
picked, a sentential form of the source: its tokens and, in the place of a child
not visited yet, the kind of that child. A token that is printed must be the first of
`form`, and must not join with the one before it if nothing was printed between
them. `Visitors` has for every kind of node both what the parser reads and what
the visitor does, hooks of `PrettyPrinter` included. `Fits` excludes statements
that begin with an operator, which the parser refuses. One that begins with `[` it
takes behind an empty statement, although not elsewhere: such nodes are there, and
`Faithful` names `[` as the exception among the tokens that statements are printed
with first.

Tokens have names where TLA+ or the prover would trip over their characters: `lbrace`,
`rbrace`, `semi`, `comma`; `putSemi` and `putComma` are the two that go past
`print()`. Precedence appears as nesting on the left, with one infix operator for all.
Comments and empty statements have no node and are not in `form`.

Bounds: eight calls of `visit` inside each other and an indentation limit of 3
in place of 64, so that two blocks fit and a third does not. A leaf that is cut
off by the bound is one that does not nest further. All kinds of nodes are
reached in all places they can have.

### Walk

`calls` is the C++ stack of `traverse()`; each call has the kind of its node,
its children, what its visitor has still to do (`todo`) and, as history, which
children it has walked and whether one that was replaced was not stored.
`ret` is what the last call returned: the same node, a new one, a refusal
(nullptr or `false`). `visit...` are the visitors of `Traversal`, as the
sequences of children that they walk and store. `preWalk` and `postWalk` are
the callbacks of `FwdDeclarator`, `MutationResolver` and `ExprSolver`, and of a
walker that may give any answer. `passOver` is what the loop over the contents of a
module does with a null.

An expression given by `preWalkExpr` that says not to walk it takes the old
one's place; with the order to walk it would be dropped (`ASTWalker.cpp:319`);
no walker does that.

Bounds: two items in a list, five calls inside each other; below that a walker
answers that it does not want to go deeper. The proof is for trees of any size.

## 3. Runs

| run | shows | result |
|---|---|---|
| `rangeloop_all` | over every range the loop ends and sees values of the range in order, all of them if their number fits | holds |
| `namelookup_all` | lexical scoping; functions are not hidden by locals; lookups find what is visible | holds |
| `genfunc_tidy` | well-formed blocks, a loop stack that fits, execution as written | holds |
| `genfunc_untidy` | statements after a jump, and the tail of a for body that ends in one, are emitted behind a terminator | finding |
| `binding_plain` | both passes agree on every name; no crash, whatever errors are diagnosed; constants keep their values | holds |
| `binding_odd` | even where the passes disagree names do not escape their scopes | holds |
| `parse_all` | what is read is a beginning of a file of the grammar; only errors are refused; no part is missing from what is accepted; the first error is reported; the parser ends | holds |
| `lex_all` | longest tokens, in order, within the buffer; unknown ones are reported with their line; calls return | holds |
| `expr_all` | types of expressions are those of the instructions; the code generator takes what is accepted; effects are emitted once and in order; constants are not written by name | holds |
| `driver_all` | no code of a refused text; failures are told; a binary is of the text that was read; every run ends | holds |
| `format_all` | the printed text has the tokens of the one that was read, indented as nested; where the formatter stops; what statements begin with | holds |
| `walk_all` | every child is walked once, in order; replacements are stored; refusals end the walk | holds |

Observed without a run of its own:

* `var a = a;` reads different variables in the two passes: IRGen declares the
  variable before it emits its value (`GenFunc.cpp:138`). `Odd = {"self-init"}`
  breaks `Agree`.
* A local variable with the name of the parameter or of the iterator: an
  assignment to it stores to the parameter (`GenFunc.cpp:138`), against
  `Declarations.md:51`. `Odd = {"own-layer"}` breaks `ConstantsKept`.
* `extern`, `in`, `else`, `}` or `inout` at the top level: the parser never
  ends (`Parser.cpp:58`); nobody calls `parseExterStmt()`, against
  `Declarations.md:30`. `Terminates` excepts these tokens.
* A `;` before a declaration or the end of the file puts a null node in the
  module without an error (`Parser.cpp:59`). The formatter stops there.
* A constant array may be passed as `inout` argument and changed
  (`TypeCheckExpr.cpp:264`), against `Declarations.md:53` and `:102`.
* Comparisons, `&&` and `||` are -1 when true, and `!` is a bitwise not.
* The storage of an array literal is one global, for every evaluation of it; a
  function that returns a local array returns a pointer to its frame.
* The solver never folds operators: the cast to a number literal is applied to
  the operator itself (`TypeCheckExpr.cpp:97` and below).
* `return f();` in a function without result never calls `f`.
* A call before the definition of a function whose type has `Int[N]` in it:
  the forward declaration reads the name as a number.
* `-quiet` does not silence anything: the consumer is added by what a member
  not set yet says. It only skips `verifyModule`.
* `-c` returns 1 when all went well; a link command that fails returns 0. An
  error while the object file is emitted is not recorded, so an object file of
  an earlier run is linked. `BuildsWhatItRead` excepts that.
* The formatter loses comments and empty statements. Behind an empty statement the
  parser takes one that begins with `[` (`ParseStmt.cpp:30`), which it refuses elsewhere
  (`Parser.cpp:82`): of `;[a][0];` is printed `[a][0];`, a file that is not accepted.
  `Faithful` excepts it; without `"["` the run fails.
* The formatter stops at `return;`, at a
  null node and at more blocks than `MAX_INDENTATION`, prints `& &a` as `&&a`,
  and indents from a string that is gone (`ASTPrinter.h:71`, a `StringRef` of a
  temporary; `print` may be `garbled`). At the top level `break` and `return` do not begin a line.
* The items of an array literal are not walked, against the rule at
  `ASTWalker.cpp:16`. `visitVarPattern` always returns false, so that a walker
  that goes into the parameters of a function never hears of its end, and the
  walk fails (`ASTWalker.cpp:283`).

* A function with a result that runs off its end returns an uninitialised one:
  `emitRet` (`IRGenFunc.cpp:79`) closes the last block whatever was stored. The
  only check is of a `return` without a value.
* `0B1` stops the lexer: `assert(std::tolower(*CurPtr == 'b'))`
  (`Lexer.cpp:534`) has a parenthesis in the wrong place, while
  `TokenDefinitions.def:130` has `bin: 0(b|B)(0|1)+`. `Returns` excepts it.
* `12ab` and `0x` are number literals, against `dec: [0-9]+` and
  `hex: 0(x|X)[0-9a-fA-F]+` of `TokenDefinitions.def`: a decimal number is
  checked from its end (`Lexer.cpp:597`), and no digit is asked for.
* The line quoted for something on the second line of a file whose first line
  is empty begins with that line break: `getStartOfLine` (`Lexer.cpp:26`) stops
  before it looks at the first character. `QuotesItsLine` excepts it.
* An unterminated comment is diagnosed, but nobody records an error: the file
  is compiled without its rest. A `|` that is alone is an error nobody
  diagnoses.
* With asserts compiled out `..` would be lexed as `...`: `lexElipsis` moves
  over the second dot inside of an assert (`Lexer.cpp:455`).

* A range with more values than a machine integer can count is not walked to
  its end: `__iter_range` or the `+ 1` behind it wraps (`iter.cpp:15`,
  `GenFunc.cpp:86`). The reference has no such limit; `RangeWalk` has it as
  `Limit`.
* `contains()` is true of a name that was merely looked up as a function, since
  `operator[]` inserts its key (`NameLookup.cpp:94`; `NameLookup` has `keys`).
  Its one caller, `IRGenModule.cpp:39`, runs before any lookup in its table.
* A redefined function is diagnosed without `setError` (`Sema.cpp:54`), and the
  module goes on to `llvm_unreachable` at `IRGenModule.cpp:40`:
  `Odd = {"redefined-function"}` breaks `NoCrash`.

`CHECK_DEADLOCK FALSE` is where the modelled thing ends: a loop that is left, a
function that has returned, a file that is parsed, a run or a walk that is over, a module whose bounds are
used up or whose pass has crashed. `NameLookup` is never stuck, and its run checks that.

Type invariants are first conjuncts of an invariant that needs them
(`LoopsMatch`, `LayersMatch`, `NoHole`, `FindsVisible`, `WellTyped`).

Every other property of a passing run is a theorem of section 4. What is only
checked:

| property | why |
|---|---|
| `Terminates` (of `RangeLoop` and of `Parse`), `Returns`, `RunsEnd` | liveness |
| what is found violated | |

## 4. Proofs

Checked by TLAPS, for every value of the constants that meets the `ASSUME`s;
where a theorem is about `Odd = {}` or `Untidy = {}` its statement says so, and
the run with the other value shows why.

`NameLookupProofs`, for every depth and every set of names and declarations:

* `TypeCorrect`.
* `FunctionsNotHidden`: `LocalsSpareFunctions`. Inductive together with
  `TypeOK`: functions are only declared at depth 0, where there is one layer.
* `LookupsComplete`: `FindsVisible`, with `declareLet` too, from `OneMapPerName`: no
  layer has a name in both of its maps, so `contains` and `get` agree.
* `TableImplementsEnv`: `Implements`; between states without `declareLet`
  entries the chain is a lexical environment. The lemmas say what a push, a pop and a declaration do to
  `EnvsOf`; they rest on facts about `Nearest`, the entry of the innermost
  layer that has one. There is no induction over the chain: `Nearest` is
  defined by a maximum, not by a walk.

`GenFuncProofs`, for functions of any size:

* `LoopStackMatches`: `LoopsMatch`, from `VisitInv`. An open statement goes on in
  blocks that have been placed (`TargetsPlaced`), and a loop that is closed is
  the one that was opened last.
* `FunctionClosed`: `Closed`, from `CodeInv`. The blocks open statements will come
  to are empty, every other one but the insertion block has its terminator, and
  no instruction jumps to a block that will be taken back: that is only the
  `else` of an if without one (`Removable`), to which nothing jumps by the time it
  goes. Blocks of later statements are untouched (`Unused`).
* `OneTerminatorPerBlock`: `Untidy = {} => (Spec => []OneTerminator)`, from
  `EndInv`: the insertion block has ended only right behind a jump, and then
  what encloses it is no for statement. `genfunc_untidy` is what happens without the
  premise.

* `CodeRunsAsWritten`: `GenFuncRun`'s `InSync`, for every `Untidy`: functions that
  do not verify run as they are written too, since what is emitted behind a jump
  is never come to. It is shown in three parts. While the code is emitted, `EmitInv` says
  what follows what: each instruction leads to a known one or to the start of
  a block (`Links`), and where control joins, behind an expression and in front of
  each block (`Joint`), goes on the next statement, the end of the block,
  or the insertion point, where one of them is still to come (`GoesOn`). A break is
  emitted to the end of the loop around it because statements are numbered as
  they are visited, so that the open loops are those around the next one
  (`Tree`, `LoopIsTop`). When it is done, nothing is still to come, and `Means`
  gives each place of the code what the function does next there; it rests on
  `After` being well defined, which is shown by a least counterexample since
  what follows a statement depends on what follows earlier ones only
  (`FollowsEarlier`). Then each instruction executed keeps `expect` at what the code
  means (`RunInv`).

and about `RangeLoop`, for every `MaxInt` and every set of ranges:

* `LoopTypeCorrect`: all variables stay machine integers.
* `LoopInvariant`: `LoopInv`, the parallel between counter and iterator. With
  `LoopTypeOK` it is inductive as it stands. Its core is that the size is exact
  where it fits, for which the case of opposite signs matters, and never too
  large where it does not; `counter < size` in the body keeps the `+ 1` from
  wrapping.
* `LoopImplementsWalk`: from it, each block is a step of `RangeWalk` or none.

`BindingProofs`, for any depth, names, modules and sequence of errors:

* `UsesAreInScope`: `InScope`, for every `Odd`. `ShapeInv` says what the two
  passes have open for the same statements: the type checker two layers and two
  scopes where the code generator has one layer, and the code generator's
  layers hold nothing that the type checker's do not.
* `TablesMatch`, `PassesAgree`, `NoPassCrashes`, `ConstantsAreKept`:
  `LayersMatch`, `Agree`, `NoCrash` and `ConstantsKept`, for `Odd = {}`, from
  `MatchInv`: while no error is recorded, the layer of the code generator for a
  statement is the two of the type checker merged, the inner one first. Then every
  name means the same in both (`MatchLookup`), whatever stands between, and what
  the type checker found is found again. Each exception in `Odd` is a place
  where a step would break the merge or ask one of the tables for something else.

`ParseProofs`, for files of any length and nesting:

* `ReadsTheGrammar`: `Implements`. Each method has a lemma: a step of it
  replaces its form by one that `Syntax` derives from it, or reads the first
  token of what is expected, or rejects, and leaves alone what the callers
  expect. These rest on `Expected` of a longer stack being the two forms joined;
  `FlattenSeq` is a recursive function under a `CHOOSE`, so that is shown for a
  function that exists (`Joins`), by a least counterexample.
* `AcceptedAreWhole` and `RefusalsAreReported`: `NoHole` and `ErrorReported`, from
  `ParseInv`. A null without an error only goes to `parseModule()` or the loop of
  `parseBlock()`, as only they call what may return one (`Callers`, `Listing`);
  so a null that is taken for a part of a node comes with an error, and nothing is
  accepted after one.
* `RefusesWhatTheGrammarDoes`: `RefusesOnlyErrors`. `First` of `Syntax` is seven
  rounds of derivations; `FirstIs` shows that they find what the table `Begins`
  has, and `FirstSettles` that another round finds nothing. So what may come next
  is decided by the point on top of the stack (`CanCons`): the tokens that begin
  its rest (`Starts`) and, if nothing need be left of it (`Skips`), what may come
  behind. The invariant, `LeadInv`, says of every call on the stack that only the
  tokens of `MayFollow` come behind it. The code tests for them by name, in
  `AfterPostfix` (`parsePrimaryExprRHS`), `AfterType` (`parseArrayType`) and the
  ends of lists; were one missing there, the step would refuse a token that may
  come. `LeadInv` also says whose callers may be returned `"absent"`, and that the loop
  of a block was not told null in front of a statement.

`TextProofs`, for every set of texts about `Lex`:

* `TypeCorrect`: the pointer and the tokens stay in the buffer.
* `TokensInOrder`: `Window`, order and no overlap.
* `NoSilentToken`: `UnknownReported`.
* `QuotesTheLine`: `QuotesItsLine`.
* `ImplementsScan`: `Implements`. `Lexed` says in terms of characters what it is
  for a lexeme of a kind to be between two positions; it is decided by the
  character at the first (`LexedByFirst`), so that for each case of
  `lexToken()` the longest one is the one formed (`TokenIs` and the lemmas
  behind it). `ScanInv` is what an inner loop has read since the position where
  `Scan` still waits; with `WordRead` it makes of the loop's last iteration a
  step of `Scan`.

The first three are proved together, with `LexInv`: while a word is read whose number
has a prefix the mark of the prefix is a character of a word, so that going
back to the end of the prefix stays in the word; and the character at the end
of the word is none of a word, so that the digits, which all are, stop there at
the latest. That NUL is in none of the classes stops every loop. For the quoted
line `WordRead` adds that all of a number up to the end of its word are characters of
a word: a symbol that is diagnosed has no line break in it, and the break before
it and the one behind are the ends of its line.

and about `Format`, for modules of any size and every limit of the indentation:

* `FormatInvariant`: `FormatInv`. What all open calls have still to do, one behind
  the other (`Pending`), spells what was read and is not printed yet: token for
  token, with nothing between but layout (`Spells`). The three properties are
  about the first symbol of what is left or about its braces, so none of them is
  inductive without the rest.
* `PrintsWhatWasRead`: `Faithful`, that a statement is printed with a first token at
  which the parser goes on, or with `[`, included. The child that is to be the first of
  a statement is of a kind that begins so (`Started`, `FirstRead`), whatever is nested
  in it. Two neighbours in what is left never fuse
  when nothing stands between them (`Glue`), but for `&` before `&`.
* `LinesAreLaidOut`: `LaidOut`. A closing brace that is still to come and an
  indentation that is still to be taken back come in pairs (`Order`), so the
  braces that are left count the depth; what may come first at the start of a line
  is in `Follows`.
* `StopsWhereKnown`: `StopsOnlyThere`.

A call of `visit` puts what a visitor does in the place of its node. That `Shape` and
`Spells` survive that follows from what the visitor begins and ends with and from what
it has inside (`Good`), which does not depend on where the node is. So there is one
lemma for each thing a visitor may do (`VarIsGood` to `InOutTypeIsGood`), and a
child that is visited is a case of `ShapeOfVisit` and `TakeChild`.

`DriverProofs`, for every number of processes, edits and runs:

* `NoCodeOfRefusedTexts` and `FailuresAreTold`, from `PassInv`: what each phase
  knows of the text and of the error flag (the code generator only sees texts
  that were checked without an error, and so on backwards), what a run has said
  by the time it fails, and that all code in the files has passed. The files
  need to be in it because a run may link what it finds.
* `BinariesAreOfTheTextRead`, from `OnlyMine` in addition: while a run that has
  opened its object file has not been disturbed, no other has it open, and it is
  empty until this run's code is in it.

`WalkProofs`, for trees of any size and every answer of a walker:

* `NodesAreWalked` and `ReplacementsAreStored`: `WalksTheTree` and `Replaced`, from
  `WalkInv`. Of each call: what its visitor still has to do is in order, is done
  to children that are there and stores what it gets for an expression
  (`TodoOK`); each child has been walked or is still to be (`Complete`; not the
  items of an array literal). Of the stack: every call but the innermost waits
  for the child the call above it is at (`Waiting`, `Place`). That the
  visitors begin in such a state is a lemma about each of their plans.
* `RefusalsEndWalks`: `RefusalEndsIt`, inductive as it stands.

`ExprProofs`, for all types, functions and globals, and bodies of any size:

* `TypesAgree`, `CodeIsSound`, `EffectsAreKept`, `ConstantsAreSpared`: `WellTyped`,
  `Sound`, `EffectsKept`, `ConstantsKept`, for bodies that are accepted and have
  nothing in `odd`; `CheckerSurvives`: `Survives`, for bodies with errors as well.

They are proved together, from `IInv`. None of them is inductive: the visitor of
a node knows its children only through what they were when they were left, and
the solver takes nodes out of literals that were visited long before. `Body`
says of a set of nodes that holds all children of open frames, and is closed
under items of its array literals and values of constants, that every node in
it is `Formed`, and, as long as the body is accepted, `Fits`: the LLVM types of
its rvalue and lvalue are the ones its type stands for, and its effects are
emitted as written. Each visitor has a lemma (`InfixIs`, `CallIs`, ...): its node
fits if its children do; `SolvedFits` is the same of what the solver puts in
its place. That needs types of data to be closed under what visitors do to them
(`IsData`: nothing but `Int` and `Void` inside, `inout` of arrays only), and
`codegenType` to go along (`CodegenOfReference`, `EmittedElement`). `codegenType`,
`Sized` and `FlattenSeq` are recursive functions under a `CHOOSE`; that such a
function exists for every length is shown by a least counterexample
(`MadeExists`, `SizedExists`, `FlatExists`).

While a body only has errors, its nodes still have no function where a value is needed
(`Proper`, `Placed`): that is why no null type is asked for its kind. For constants, `Clean` says
that a node in which `MutationResolver` finds no constant is memory of none that it
names, or of a literal's copy.

Two things stay with TLC. Liveness under fairness and `ENABLED` are out of the
prover's reach, and so is induction over data, that is what the recursive
definitions and folds compute for every input, unless a least counterexample
does (`After`, `codegenType`).

## 5. Plan

In this order:

1. done: `RangeLoop`, `NameLookup`, `GenFunc`, `Binding`, first theorems.
2. done: `Parse` with `Syntax` and `Grammar`.
3. done: `Lex` with `Lexemes` and `Scan`, and its theorems.
4. done: `Driver`, and its theorems.
5. done: `Types` and `Expr`.
6. done: `Format`; `Walk` and its first theorem.
7. done: theorems about `GenFunc`, `Binding` and `Parse`; `FindsVisible`; all
   of `Walk`; the quoted line of `Lex`, and that it implements `Scan`.
8. done: theorems about all of `Expr`.
9. done: theorems about all of `Format`.
10. done: `GenFuncRun` with recursive functions, and `InSync`.
11. done: `First` by rounds instead of recursion, and `RefusesOnlyErrors`.

Nothing of the plan is left that can be proved: what stays with TLC is in section 3.

Findings that have no run of their own stay in the list of section 3.

## 6. Not modelled

* LLVM itself, and what it does with malformed IR.
* The wording of messages and of printed IR. Diagnostics appear as what they do
  to the error flag, whether anyone is told, and the line that is quoted. The
  active diagnostic, the references to it and fix-its are not modelled: every
  caller lets the reference die at the end of its statement, so that there is
  never a second one.
* Values: what a number literal is converted to, what operators compute, initial
  values of globals. Only the integers of ranges have values (`RangeLoop`).
* The runtime's `io.cpp`, two calls of C++ streams; allocation of nodes, which
  are never freed; `ExternStmt`, which is never built.
