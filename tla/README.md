# A TLA+ verification of the *forrest* language tools

This directory specifies the two front ends and the compiler in `src/src`, the
term machinery of their successor in `src/src2` (terms, their store, free
variables, unification) and a line-oriented parser in `src/src_recycle`. Paths
below are those of the repository's files as `PROJECT.json` cites them
(`src/<path in the repository>`); line numbers are those of the commit that
the `map` of `PROJECT.json` refers to.

Everything in the repository is single threaded. What makes it hard is not
concurrency but *where work is cut and what outlives it*: a file is read in
blocks that split characters, a parser sees the characters in batches whose
ends fall anywhere, an allocator's pages end in the middle of a request, a
recursive translator stops at a failed check in the middle of a tree,
unification has bound half of the variables when a later part is met, a cache
is filled while it is being asked, and a symbol table keeps what an arena has
freed. Most properties below say that the result does not depend on the cut, or
exactly how it does.

## 1. Inventory

### 1.1 Components of `src/src`

| Component | State | Operations | Correct when |
|---|---|---|---|
| **UTF-8 reader** `util/filereader.{h,cpp}` | `FILE*`, array of decoded characters with two indices, leftover bytes of a split character, decoder flags (last was CR, nothing but line ends yet), two line counters, error text | `next_char`, `peek_char`, `read_ahead_at_least`, `attempt`, `skip_whitespace`, the private `refill_read_buf`/`add_utf8` | every byte is decoded once and in order; clients see the file's characters and nothing of the blocks; an error surfaces after the characters before it; calls return |
| **UTF-8 classes** `util/utf.{h,cpp}` | none | length of a sequence from its first byte, continuation test, `code_point` | sequences are told apart as in the encoding |
| **Arena** `util/arena.{h,cpp}` | list of pages, first free byte and bytes left of the active one | `allocate_block`, which may open a page and call itself | blocks are disjoint, aligned and inside a page; the recursion ends |
| **Parser** `c2/ast_builder.cpp`, `c2/ast_syntax.*`, `c2/ast.h` | the reader, the open lists (C++ stack), the token being read, error text | `run`, `read_expr`, `read_list`, `read_str`, `read_sym`, `read_num`, `skip_whitespace_and_comments` | builds the tree of the grammar, rejects all other texts, ends |
| **Bound tree** `c2/bst.{h,cpp}` | chain of lexical scopes on the C++ stack | `process_ast`, `try_resolve_variable_name` | names resolve to their innermost binder; malformed forms are stopped |
| **Driver** `c2/main.cpp`, `c2/command_line.cpp` | options, parsed expressions of all files, table of definitions | command line, parse, translate, define, entry point | succeeds exactly for programs; a failing file stops the build |
| **Code generation** `c2/cst.*`, `c2/cppgen.*` | - | the generator is compiled out, `compile_function` is a stub | - |
| **First parser** `fc/ast_builder.cpp`, `fc/ast_syntax.*`, `fc/ast.h` | the reader, the C++ stack | an older variant of the parser: tuples, applications, quotes, characters, strings, numbers, symbols | builds the tree of its grammar |
| **Shell** `fc/shell.cpp`, `fc/builtinnames.*`, `fc/main.cpp`, `fc/command_line.cpp` | `symbols`; per evaluation an arena for the tuples it makes | `eval` and its visitor, `resolveSymbol`, `eval_def`; `eval_fn` and `beta_reduction` are empty | defines what the program means; a definition stays; no freed tuple is read |
| **Logging, AST dumps, playground** | - | output, a benchmark | - |

The drivers call the reader's constructor and then the parser for each file;
the parser pulls characters from the reader and allocates its nodes in the
arena; the driver then hands each expression to `process_ast` (c2) or to the
shell (fc). All of it is direct calls. The contract between reader and parser
is the subtle one: some of the reader's operations (`peek_wora`,
`attempt_wora`: "without read-ahead") are legal only right after another one
that read ahead.

### 1.2 Components of `src/src2` and `src/src_recycle`

| Component | State | Operations | Correct when |
|---|---|---|---|
| **Terms** `term.*`, `term_forward.h` | none | constructors, `TermHash`, `TermEqual`, `MakeAbstraction` | an abstraction is made exactly if its binders are in a legal order |
| **Term store** `store.*` | set of canonical terms, cache of free variables, cache of types of terms in contexts | `MakeCanonical`, `MakeNewVariable`, `GetOrInsertTypeOfTermInContext` | equal terms have one address; a client gets the term it asked for; a type never changes |
| **Free variables** `freevariablesofterm.*` | the store's cache | `GetFreeVariables` | the textbook set, whatever was cached before |
| **Contexts** `context.*` | chain of maps from variables to terms | `Bind`, `LookUp` | a variable is bound once along a chain |
| **Unification** `unify.*`, with `EvaluateTerm` of types | the inner context it binds in | `UnifyExpectedTypeToArgType` | the bindings make the types match; only types that cannot match are refused; the call returns |
| **Rational numbers** `number.*` | none | `Compare` | the order of the integers |
| **Literals** `common.cpp` | none | reading and writing string literals | a literal keeps its value |
| **Line parser** `src_recycle/text_ast.cpp` | stack of pointers to open nodes, a table of variables | `Tokenize`, `ParseLinesToTextAst`, `ResolveNode` | the tree is what the indentation means; every other text is reported |
| **Evaluation, inference, compilation** `evaluateterm.cpp`, `evaluateorcompileterm.*`, `infertypeofterm.cpp`, `compileterm.cpp` | contexts, deferred values | see section 6 | - |
| **AST operations, modules, types, builtins** | - | commented out, tables, containers | - |

`src2` is work in progress: its files disagree about the kinds of terms
(`store.cpp:29` and `:64` name a `BuiltinAbstraction` that `term.h` does not
have; `infertypeofterm.cpp` names `ForAll`, `Cast` and `Projection`), so only
those parts are specified that are consistent by themselves. `fc/shell.h:18` is
garbled in this commit; the shell is specified from `shell.cpp`. Neither
compiles as it stands. The specifications say what these sources do when what
they disagree about is left out.

### 1.3 What is hard to test here

The full list, with lines and the properties that cover each entry, is
`hazards` in `PROJECT.json`. In short: a buffer that is compacted only when it
is not empty; a character cut by the end of a block and by the end of the file;
decoder flags that outlive their character; read-ahead preconditions that hold
or not depending on where a refill fell; errors that look like the end of the
input; padding and retries in the arena; scopes chained through stack frames;
checks nested in a recursive translation; tables shared between files;
backtracking over a stack of pointers into growing vectors; hashes that depend
on the order in which a container was filled; caches filled by the computation
that asks them; unification that evaluates later parts with the bindings of
earlier ones; definitions that outlive the arena of their value.

## 2. Modules

```
   Utf8 -- CharStream <| FileReader -+- MCFileReader
                                     +- UtilProofs
                              Arena -+- MCArena

   AstSyntax -+- AstGrammar <| AstBuilder -+- MCAstBuilder
              |                            `- AstBuilderProofs
              `- Bst -- Compiler -- CoreLanguage -+- MCCompiler
                                                  `- CompilerProofs

   FcSyntax -+- FcGrammar -.
             `- FcParser --+- Fc -+- MCFc
                                  `- FcProofs

   Abstraction -+- MCAbstraction
                `- AbstractionProofs
   Terms -+- TermStore (INSTANCE Abstraction) -+- MCTermStore
          |                                    `- TermStoreProofs
          `- TermTrees (Numbers) -- Unify (Contexts) -+- MCUnify
                                                      `- UnifyProofs

   TextAst -- TextTree (Literals) -+- MCTextAst
                                   `- TextTreeProofs
```

`<|` reads "is checked against": the abstract or reference module is on its
left. Definitions marked *Mutant* are wrong variants of the definition that
follows, which a property must detect; no specification uses them.

### Utf8, CharStream, FileReader

`Utf8` has bytes, characters (sequences of bytes) and the byte tests of `utf.h`.

`CharStream` is what a client of the reader may rely on. Its only state is the
file, how far it was decoded, the characters decoded and not yet consumed, the
error and the last answer. Decoding takes any number of characters at a time;
a client gets the next character whenever one was decoded, and nothing only
when the rest of the file holds no further character or an error occurred. It
has no blocks, no leftover bytes and no buffer indices.

`FileReader` is the code. A character of the buffer array is an element of
`unread`; `next` is the index of `next_utf8_to_read`, so `next + Len(unread)`
is `utf8_buf_end`. `refill_read_buf` is cut (`pc`) at its loop head
(`refill`), at each character of a block (`decode`), and at its return
(`return`), where it can stop, recurse, fail or hit the assertion of
`add_utf8` (`aborted`). `fread` delivers a full block, a short one at the end of
the file, or fails after any number of bytes. Every client call is one
`Call`, answered at once or, after a refill, by `Return`. The line counters are
those of the code: `in_line` of the decoder, `utf8_line` of the client, and
`skip_whitespace` does not count.

### AstSyntax, AstGrammar, AstBuilder

`AstSyntax` has the characters (named, so that `"LF"` is one), their classes
and the tree constructors. `AstGrammar` is the reference: `Forests(text)` is the
set of trees that the text can stand for, defined by splitting texts, with no
parser state. `AstBuilder` is the parser: `frames` is the C++ stack of open
lists, `pc` the function that is running, `xs` and `state` the token, `mx` the
item `read_list_to_vector` has just read.

Its reader is the one that `CharStream` promises, seen with what the invariant
`DecoderInv` of `FileReader` adds: `text` is the sequence of characters,
`ahead` says how many are buffered, a refill ends with at least
`UTF8_BUF_MIN_SIZE` or with the handle `gone`. How many more it delivers is
chosen freely, which is how all ways of cutting the text are covered. A file
can also end in an error (`ends`). The overflow of section 5 is left out here:
it stops the program inside the reader.

### Arena

`allocate_block` with its page variables; `opened` remembers whether the call
under way opened a page. Sizes and alignments are those of `Requests`. A block
is a page, an offset and the request; `std::align` is modelled by the first
aligned offset that leaves room.

### Bst, Compiler, CoreLanguage

`Bst` is `process_ast`. An expression is known by its path in the list of
parsed expressions, a `Variable` object by the path of the token that
introduces it: two variables of one name are two objects. `calls` is the C++
stack, one record for each running call with its scope chain. `Expr` are the
expressions of tokens that hold `Words`, nested at most `NESTING` deep, a constant
of which nothing but finiteness is assumed: the parser makes finite trees. `Enter` makes the
checks that come before the first recursive call, `Recurse` makes the next one,
`Return` builds the node. A failed `CHECK`, a wrong `std::get` (an exception)
and `UL_UNREACHABLE` are different values of `fault`.

`Compiler` is `main`, the command line and
`run_fc_with_parsed_command_line`. A file is what parsing it gives: a failure
or a list of expressions. `CoreLanguage` says which expressions are in the
language and which command lines with which files deserve success, without
reference to the order in which the compiler looks at them.

### FcSyntax, FcGrammar, FcParser, Fc

The first front end. `FcSyntax` has its characters and its nodes: `Trees` is
what the parser makes and `Values` what evaluation makes of them, nested as
deeply as the constant `Nestings` says. `FcParser` has one operator per function of
`fc/ast_builder.cpp`, each from a file and a number of consumed characters to
what it returns; a file carries the places where the reader's buffer ends
(`cuts`), because `peek_wora` behind an item needs a buffered character.
Where functions and their loops call each other, they look the answer up in a
function from places to answers, `read`, which ties the knot in
`parse_filereader_into_ast`.
`FcGrammar` is the reference, by segments of the text: what the segment from `i` to
`j` stands for as a node, as the rest of a string, and as a forest up to the end or
to a closing bracket (`Standing`), given what the segments that start later stand for. The reader calls have no
effect between them that this way of cutting would miss, so the parser, whose
interleaving with refills `AstBuilder` studies step by step, can be functions
here.

`Fc` is the driver and the shell as a state machine. `stack` is the recursion
of the shell's `Visitor`; a tuple carries the number of the arena it lies in, 0
for the syntax trees and the number of the expression for one that an
evaluation makes. The arena goes with the evaluation (`shell.cpp:70`) while
`symbols` may keep the tuple: reading it then (`Dangles`) is undefined, as is
calling `eval_fn` or `beta_reduction`, which return nothing. The reference is
`Means`, an interpreter in which values live for good.

### Terms, TermStore, Abstraction

`Terms` has a record for every kind of term of `term.h`, with operands in the
places where the code has `TermPtr`s, and `TermHash` and `TermEqual` as what
they look at (`Hashed`, `Compared`): the hash of a function type leaves its
forall variables out, equality compares maps as maps while hashing follows
their order. In `TermStore` an operand is an address and the heap holds
canonical terms; a client is a plan of calls whose operands are earlier
results. `Found` is the lookup in the set. `GetFreeVariables` returns, and
caches, for every term on its way that it does not find cached. Making a type
is a callback of the client: `making` is the stack of those under way, during
which the plan goes on.

`Abstraction` is `MakeAbstraction` followed by `GetFreeVariablesCore` on what it
made, with one action per iteration of each of their five loops; a term inside is
known by its free variables. `TermStore` takes its well-scopedness as the
decision of `MakeAbstraction`.

### Contexts, Numbers, TermTrees, Unify

`Contexts` has a chain of maps; `Numbers` the comparison of integers of the
width `MAX_INT`, the only numbers a literal can have. `TermTrees` has the terms as
whole trees, level by level (`TreesUpTo`), as deep as `Nestings` says: a run takes a
number that is large enough for its types and what is made of them, the proofs take
every number. Two ways lead down from a term: `Parts` is what free variables are
collected from, `Components` what evaluation and unification go through, which look
at the type of a product value, too.

`Unify` is `UnifyExpectedTypeToArgType`; the recursive calls are items of `work`, so
that the order in which parts are met, and with it which bindings each part sees, is
that of the code. `Evaluate` is `EvaluateTerm` and can return a value, nothing, end
the program, or go on forever. It is a function of a term's components and of
what the variables in it evaluate to; that one follows the lookups, of which no more
can be inside each other than variables are bound, unless they never end. The
expected type is what a caller has, so a let-in may occur in it where it stops the
program (`Problem` names what a caller does not bind). All recursions are functions
over `Trees`: the references (`Matches`, `Substituted`, `FirstMet`, `Mixes`) are, too.

### TextAst, TextTree, Literals

`TextAst` is the line parser. A node is known by its line, and so is a pointer
to it; `node_stack` is the code's. `pc = "parent"` is the do loop that looks for
a line's parent, one iteration per step. `TextTree` says what indentation means
and what becomes of a text, from the lines alone. `Literals` reads and writes
the string literals of `src2/common.cpp`, to which the tokens of the line parser
belong.

## 3. Runs

| Run | Asks | Instance |
|---|---|---|
| `filereader` | all properties of the reader, refinement of `CharStream`, calls return | 1566 files: all up to 4 bytes over {a, CR, LF, leading byte, continuation byte, invalid byte}, 11 longer ones; blocks of 4 bytes, minimum 3 characters |
| `filereader_overflow` | `NeverOverflows` (refuted) | files of up to 12 `a` |
| `filereader_truncated` | `CallsAlwaysReturn` (refuted) | files that end in a cut character |
| `astbuilder` | parser against grammar, in every cutting | 13430 texts over five alphabets; refills of 2 to 3 characters |
| `astbuilder_peek` | `ReadAheadBeforePeek` (refuted) | short lists |
| `arena` | all properties of the arena | 4 calls, 15 requests, pages of 8 bytes |
| `compiler` | name resolution, accepted language, success | one definition with any list of up to 3 (`let`, `def`: 4) of 13 elements, or forms nested two deep over two names; command lines of up to 4 arguments with 8 contents for each of two files |
| `fc` | parser against grammar, shell against meaning | texts of up to 5 characters, the short ones cut everywhere; programs of two and three expressions over ten values; command lines of up to 3 arguments with 6 contents for each of two files |
| `abstraction` | what is made, and its free variables | two bound variables and one parameter, or one and two, with every set of free variables over two binders and a variable of the context |
| `term_store` | one address per tree, caches | 2680 plans over two variables, terms of every kind two deep, the same or nearly the same again |
| `unify` | bindings, refusals, aborts, termination | 13000 pairs of types over two forall variables: functions of two parameters, and every kind of term on both sides, before and after a binding |
| `text_ast` | tree, outcome, pointers, variables, literals | every text of up to 5 lines with 5 indentations, texts of 2 and 3 lines of 1 to 4 tokens, literals of up to 4 characters |

**Bounds.** `FREAD_BUF_SIZE = 4` is the least the reader can have (a leftover of
three bytes must leave room for a fourth); with files of up to ten bytes a run
refills three times, splits characters of two, three and four bytes at every
place, and drains and compacts the buffer. In the passing run
`UTF8_BUF_MIN_SIZE` is 3, below a block; in `filereader_overflow` and
`filereader_truncated` it is as large as a block, as in the code. Texts of
five characters over mixed alphabets hold every pair of adjacent tokens, two
levels of lists and every way of leaving each one open; `MaxGrammar` keeps the
comparison of `Fc` with its grammar to texts of six. Pages of eight bytes
with requests of 1, 3, 4, 5 and 6 bytes give exact fits, padding, a page with
two blocks, and a request too large for a page. Forms nested two deep over two
names give shadowing by an inner form, by an earlier parameter, and a `let` used
in its own value. Four arguments are needed for a `--cpp-out` that takes a
`--cpp-out`, followed by two files. Two definitions and a use let a program of
the shell define a tuple, define something by it, and read it when it is gone.
Two binders and two variables give every clash between binders and every use
before a binding. Types of functions with two parameters and a result let two
parts bind before a third is evaluated. Five lines let three levels be open when
a line falls between two of them; five indentations include one that is no
prefix of another. What is proved (section 4) holds for all sizes.

**Fairness.** The specifications that state liveness assume only that a call
under way keeps running (`WF` on the steps of a call, never on a client's
decision to call): there is one thread, and `fread` returns.

**Deadlock** is checked where a program or a call has one way to end: in
`compiler`, `fc`, `abstraction`, `term_store` and `text_ast` being stuck
anywhere but at the exit is an error (`Terminated` is the only step of a state
that has ended). It is not checked for the reader (a client need not call
again), the arena (`MaxBlocks` bounds the calls), the parser (its end is the
liveness property `ParseEnds`), and `unify`, where an evaluation without end is
a state without steps and `ReturnsForGroundTypes` says when there is none.

**Assertions** are taken as enabled: one that fails ends the program, in every
module alike.

### What the runs show

* The reader never loses, repeats or reorders bytes, never exceeds the block or
  leftover arrays, and is a correct character stream whatever the blocks do,
  *as long as it does not stop*: it can hit its assertion after a drain, and
  does not return on a file that ends inside a character. `CallsReturn`
  excludes exactly the latter case.
* Line numbers: the client's line is never ahead of the true line; it can be
  behind, because `skip_whitespace` drops line ends without counting them.
* Both parsers accept exactly their grammars, apart from the assertion they hit
  when an item is followed by the end of the buffer, and the newer one never
  makes a tree of a file it could not read to the end.
* The arena is correct.
* The translator accepts exactly the core language and resolves names
  lexically; the driver succeeds exactly for programs.
* The shell does what a program means, symbol by symbol, and fails where it has
  no meaning; a definition is never changed. It reads freed memory only in
  programs that make a tuple by evaluation: those that define a symbol as a
  tuple and use it in the head of an application or as the first argument of
  `def` in a later expression. Such a program is wrong anyway (`EvaluatesAsMeant`).
* `MakeAbstraction` makes exactly the well scoped abstractions whose context
  shows in the body, except that with forall variables it is undefined; the free
  variables computed for one are the textbook ones, although the loops do not
  follow the rules' order.
* One tree has one address in the store unless an unordered map with two or more
  entries is in it; then the order of insertion can make two of it. A client gets
  the term it asked for, up to the forall variables of function types, which
  neither equality nor the hash of one compares. The cache of free variables is right
  whatever was cached before; what ends the program is exactly a let-in, a
  deferred value, a function type with forall or comptime variables, or a kind
  of term that `MoveToHeap` lacks. A type, once answered, never changes, in
  contexts of fewer than two variables.
* Unification replaces what it has bound before it goes on, and when it succeeds the
  bindings make the types match; it refuses only types that no binding makes match; it ends the program
  for plain types only where a part mentions a bound and an unbound variable; it
  returns for every argument type without variables. With variables it need not:
  there is no occurs check.
* The line parser builds the tree the indentation means and reports every other
  text, except for two exactly described shapes: a line indented between two open
  lines reaches an "internal error" (`text_ast.cpp:173`), and one indented between
  a top-level line and its children pops the last level and reads `back()` of an
  empty vector. Its pointers stay good, because only the last node of each vector is
  ever pointed at.
* A string literal keeps its value when written and read again, unless it holds a
  byte that is written by an escape the reader does not know: one of the four with
  the letters a, b, f and v, or any other byte that does not print and has no letter,
  which is written as its code (`Literals` has ESC for all of those).

## 4. Proofs

Checked by TLAPS for all values of the constants that satisfy the assumptions
named in the modules: `BufferSizes`, `FileAssumption` and `ClientAssumption` of the
reader, `TextAssumption` and `SizeAssumption` of the parser, the sizes of a page,
`RequestsAssumption`, `NestingAssumption` and `ArgumentAssumption` (nesting is finite,
arguments are options or names of files, and a file is a failure or a sequence of
expressions), `ProblemsAssumption` (what unification is called with are
terms, none with a let-in where evaluation would have removed it), `PlansAssumption` (a call of a plan refers to results of calls
before it and to free variables of the plan), `InputsAssumption` (of the line parser:
lines are sequences of characters; of fc: arguments are options or names of files, and
a file is missing or a text that ends in the end of the file or an error) and `MaxIntAssumption`. No bound of section 3 is among them.

* **`UtilProofs`, the reader.** `Invariance` proves the inductive `IInv`: the types
  with all capacities (`TypeOK`), conservation (`BytesConserved`), which of block
  and leftover can be non-empty at each `pc` (`ControlInv`), and how many
  characters the rest of the block can still add (`BlockRoom`). None of these is
  inductive alone: that the buffer's end stays inside the array needs
  `BlockRoom`, which needs to know that a block starts with the buffer at most
  `UTF8_BUF_MIN_SIZE` full unless it was drained, and that leftover bytes count
  as bytes of the block. `TypeCorrect`, `Conservation` and `OverflowCause` follow.
  `DecoderCorrect` proves `DecoderInv`: the two flags of `add_utf8` are functions of
  the bytes decoded so far, leftover bytes are the beginning of a longer character,
  and a refill returns with enough characters or without the handle. With it
  `Refinement` proves `Spec => ImplementsCharStream`, step by step: a decoded
  character is a decoding step of the stream, an answer is its answer, everything
  else stutters. `LinesCorrect` proves `LineNumbers`: the decoder counts the ends of
  lines among the characters it has decoded, a CR LF pair once, and every buffered
  character carries a count that was the decoder's when it was added.
* **`UtilProofs`, the arena.**
  `ArenaInvariance` proves `ArenaTypeOK`, `PageInv`, `BlocksPlaced` and
  `BlocksDisjoint` together. A new block is disjoint from the old ones because all of
  the active page's blocks end at or before its first free byte, and `OneRetry`
  follows because a page opened by the call under way is empty.
* **`AstBuilderProofs`.** The parser's loops keep a small reader
  invariant (`IInv`: what was read and read ahead is a prefix of the text, all of it
  once the handle is gone; a list looks behind an item only where it has read ahead
  or the item closed itself), which gives `BrokenInputHasNoTree` and `AbortCause`.
  `ParserCorrect` proves `ParsesTheGrammar`: a returned tree is the one forest that
  the text stands for in the grammar, and a message means that there is none. The
  grammar says what *segments* of a text stand for; the parser knows only the part
  it has read. `Standing(s, frames, top, R)` connects them: for each open list, what
  can be read from where it starts is what was read of it, followed by what can be
  read from the next open list on, and in the innermost by `R`. Each step keeps that
  with the new rest of the text as `R`, because at most one item starts at a position
  (`SymbolsAre`, `DecimalIs`, `StringsAre`) and no blank, comment or item can be read
  in another way (`ReadsItem`, `ReadsList` and their like). While a token is read
  `GrammarInv` says where it began and that what was read of it is a part of it. At
  the end of the text `R` is the empty reading and the frames are the tree
  (`StandsAtEnd`); at a failure it is no reading at all (`StandsNowhere`).
* **`CompilerProofs`.** Two invariants. `TranslationInv` is about `process_ast`: the
  calls on the stack are a chain from a top-level expression downwards, each made by
  the one before for the next of its subexpressions (`Made`, `IsChain`); the checks
  of a running call passed, and the subexpressions it is done with are in the
  core language (`AcceptedSoFar`); its scopes give each name the meaning that the
  forms around its path give it (`KnowsNames`); and every expression that is
  finished is in the core and has its nodes. What carries it is that the meaning
  of a name in a part of an expression is its meaning in the scopes of the form the
  part is in (`MeaningInScope`, `MeaningWithoutScope`), and that an expression is
  in the core exactly if its own checks pass and its subexpressions are in it
  (`Acceptance`): the compiler's order of checks and the language's definition,
  which has no order, agree. `NamesResolveLexically` and `CoreIsAccepted` follow.
  `DriverInv` has one part for each phase of the driver and says what the phases
  before it have established: the arguments read so far decide the options and the
  files (`OperandStep`), the files parsed so far have their expressions in order,
  and the definitions made so far have distinct names (`DistinctConcat`). With what
  `TranslationInv` says of a translation that ended, `ProgramsSucceed` follows.
* **`AbstractionProofs`.** The inductive `IInv` adds to the two properties what
  holds in the middle of the loops. While binders are checked, what is known is the
  context with the binders introduced so far, those are in order up to the index
  of the loop, and no forall variable is left. While free variables are
  collected, the abstraction is known to be well scoped, and the set lies between
  two bounds: it contains the variables of the context, and beside them only
  variables of binders still to be erased. The bounds meet at the
  end, which is why the loops may treat all parameters alike and go backwards:
  in a well scoped abstraction the textbook set *is* the context
  (`TextbookIsContext`). `MadeExactly` and `FreeVariablesCorrect`
  follow for every number of binders; `TypeCorrect` adds that no loop leaves them.
* **`TermStoreProofs`.** `Invariance` proves `Inv` for every plan of calls: the plan
  is followed (`PlanInv`); terms on the heap refer to earlier ones, no two compare
  equal, abstractions are well scoped (`HeapInv`); what the client holds has the
  tree that was asked for (`ResultsInv`); cached sets are the textbook ones and
  nothing above an unsupported term is cached (`CacheInv`); a term has one type for
  each binding of its variable (`TypesInv`). The functions that go down from a term
  (its tree, its free variables, textbook and computed) are recursive, so their
  equations are first shown to have a solution on every heap that refers downwards
  (`Solvable`), and then that growing the heap keeps their values (`Grows`).
  `TreesAsAsked`, `CacheCorrect`, `StopsRightly` and `OneType` follow.
  `TreesHaveOneAddress` needs one argument more: two addresses of one tree, the
  first such pair from below, have equal parts, so that they compare equal unless
  an unordered map of several entries, whose order the tree forgets, is among them.
* **`TextTreeProofs`.** `Invariance` proves `Inv` for all vectors of lines. The lines
  that are open at a line form a chain (`Chain`), each indented further than the one
  before; the stack mirrors the chain as far as the line under way has been looked at
  (`StackInv`); the tree and the definitions are those of the lines so far
  (`TreeInv`); every pointer of the stack points at the last node of its vector
  (`PointersAreLast`). The pops of one line walk down the chain and stop where the
  parent by indentation stands, or fall off it exactly when the line has none, which
  is `OutcomeCorrect`: each call ends as the first bad line (`Verdict`) makes it end.
  `StackCorrect`, `TreeCorrect` and `VariablesCorrect` follow. The tokenizer's
  recursions are shown to have a solution for every text first.
  `LiteralsCorrect` adds that a token which begins with a quotation mark ends with
  another one (`QuotedEnds`), so that what is read of it is a text (`ReadIsText`), and
  that a text of writable characters is written so that the reader, wherever the
  tail of it stands in a literal, reads that tail (`ReadsBack`): each character is
  written as itself or by an escape the reader maps back to it (`WrittenIs`).
* **`UnifyProofs`.** The theorems about the call take `Nestings = Nat`: no code
  bounds how deeply a term is nested, and a bound would not survive evaluation,
  which puts bound terms in the place of variables. For the same reason types are
  the first thing to show: `TypesAreKept` says that all calls to come and all
  bindings are trees again. What carries all the theorems are facts about trees:
  that equations down the components have one solution (`TreeRecursion`, from the
  levels of `TreesUpTo`), induction over trees as a statement about sets of them
  (`TreeInduction`), and what a set that is closed under the components keeps of an
  evaluation (`EvaluateInduction`).
  `BoundIsReplaced` is that argument at its simplest: what a term evaluates to has no
  variables left (`EvaluatedIsGround`), however many lookups it took.
  `BindingsUnifyTypes` follows from `Unifies`: every solution of the bindings under
  which the calls to come agree makes the whole types agree. A step keeps that
  because evaluating a term does not change what it stands for under a solution
  (`EvaluationKeepsSolutions`), though it does change which variables are in it.
  `MixedPartsStop` follows from `NothingMixed`: if the expected type has no mixed
  part, no call to come has one *after what the calls before it will bind*; without
  that look ahead the statement does not survive the first binding. What a call binds
  are the free variables of its expected type, whether or not it was evaluated.
  `OnlyMismatchesAreRefused` follows from `RefusesNothing`: for an argument that can be
  made to match, each binding is what `FirstMet` says, and the first call to come that
  meets a variable will bind it to that. `CompareOrders` says for every width that
  `Compare` is the order of the integers except for two negative numbers one of which
  is the smallest, where negation overflows; `CompareSymmetric` that equality does not
  depend on the order of its operands.
* **`FcProofs`.** As in `UnifyProofs`, nodes are nested as deeply as one likes
  (`Nestings = Nat`): induction (`NodeInduction`) and recursion (`NodeRecursion`) over
  nodes come from their levels, and with them that `Means`, `Lasting` and `Evaluates`
  are what their equations say (`MeansIs`, `LastingIs`, `EvaluatesIs`).
  `TypesAreKept` needs that the parser makes trees (`ParsedType`): what is read from a
  place is looked up only at later places, so the table of answers has one solution.
  `ShellIsRight` proves `EvaluatesAsMeant`. Its invariant `MeansSoFar` relates the stack
  to the reference: the values that a frame has collected are, once their tuples are
  thought to last, what the first of its node's parts mean with the definitions that
  were there when it started, and the definitions made since are those the
  meaning makes; the frame above works on the next part (`AtWork`), from the top-level
  expression down. A step that gives a value to the frame below extends what its parts
  mean by one; a step that fails makes every node on the stack an error, one after the
  other (`After` stops at the first part that has no value). That the shell keeps
  addresses where the reference keeps values matters in two places: a head or a first
  operand whose arena is gone is never read but ends in "undefined", and a comparison
  with a builtin's node is not changed by thinking a value to last.
  `UndefinedIsDeserved` adds `PlainInv`: if no tuple is made and `fn` is not named, every
  value on the stack and in the table is one that the parser made or a symbol other
  than `fn`, so it lies in the arena of the trees.
  `GrammarIsParsed` proves `ParsesTheGrammar` for files of any length. The parser of fc
  is a table of answers by place, and the grammar a table of what segments stand for by
  place, so the argument of `AstBuilderProofs` becomes an induction over places from the
  end of the text (`FromTheEnd`): each answer `Fits` the segments that start there. That
  is, unless the reader or a buffer that ends is at fault, an answer with a node ends
  the one segment that stands for something, which is that node, and an answer
  without one says that no segment there does (`Gives`). The first
  character tells the kind of a node (`OneKind`); for the tokens, being as long as
  possible leaves one end (`NumbersAre`, `SymbolsAre`, `CharactersAre`); for what has
  parts, the part read first is the only one that can begin the segment, so what is left
  is the segment behind it (`BeginningIs`). `ParserIsRight` collects this for a file.
  The invariant `GInv` says the same of the files so far, and that the expressions are
  their forests one behind the other (`FlattenMore`).

The type invariants `ArenaTypeOK` and `Abstraction!TypeOK`, `PageInv` and the
inductive invariants are proved and not run; `FileReader!TypeOK` is both.

Only model-checked: what needs fairness or `ENABLED`, which the prover does not have: `CallsReturn`,
`ParseEnds`, `AllocationReturns`, `ReturnsForGroundTypes`.

`RECURSIVE` operators occur in `MCFc` only: with one in reach the prover loses its
arithmetic. Everything else is a recursive *function*: that its equation has a solution
follows from the solution's existence for shorter arguments, and the first argument for
which it had none would be a contradiction. The induction theorems of the library, which
take the predicate as a parameter, are not used.

## 5. Findings

Each is a run with expectation `violation`; `findings` in `PROJECT.json` quotes the
sentence of the code that is refuted.

1. `filereader.cpp:77`: a drained buffer is not compacted, so a block can run
   past the array; the assertion at line 66 stops the program.
2. `filereader.cpp:133`: a file that ends inside a multi-byte character makes
   `refill_read_buf` call itself forever.
3. `ast_builder.cpp:176`: the parser peeks behind a list item without having
   read ahead (`fc/ast_builder.cpp:148` does the same).

Other things that the modules reproduce as they are, and that the exceptions in
their properties name:

* Both parsers: an escaped quote ends a string (`c2/ast_builder.cpp:239` compares
  the unescaped character). c2: `(` and `)` are missing among the special
  characters (`ast_syntax.cpp:7`), so `(f x)` needs a blank before its closing
  bracket, although `ast_builder.cpp:175` has an item followed by "closing char".
* Reader: a LF behind CR and the first text character is dropped as half of a CR LF
  pair (`filereader.cpp:57`); the handle is set to null without `fclose`
  (`filereader.cpp:103`).
* c2: a top-level expression that is no definition reaches `UL_UNREACHABLE`
  (`main.cpp:109`), and so does `(fnapp ...)` (`bst.cpp:105`); the comment at
  `bst.cpp:93` shows a `let` with two parts where the check asks for three;
  definitions nested in expressions are accepted but never enter the table; names
  that no definition has are not reported.
* fc: the parser keeps its message in `error` and nobody prints it; the comment at
  `shell.cpp:87` asks for an "unset symbol", but `def` accepts the name of a builtin,
  which is then never found, since builtins resolve first; `try_get_fn_expr`
  compares with the builtin's own node, which no parsed tree holds, so that no
  quoted `fn` is ever recognised.
* src2: abstractions with forall variables cannot be made. `term.h:146-149` and the
  comments at `term.cpp:37` and `:49` mean them to be: they come first in the order
  of what an abstraction introduces, and a parameter listed there is comptime. But
  `term.cpp:16` and `freevariablesofterm.cpp:27` and `:83` erase with iterators of
  another set (the constructor, `term.h:175-183`, drops the set besides). That is
  undefined behaviour, which the model follows no further: `result = "undefined"` is
  where a call of it leaves off, not something the program returns. The erase stands
  at the head of the function, so that one call shows it, and `MadeIfWellScoped`
  says nothing of these requests; `freevariablesofterm.cpp:31` casts a let-in to an
  abstraction; variables of the context that only a bound value or a type mentions
  make `MakeAbstraction` refuse. `unify.cpp:142` compares an iterator with the end
  of the other map, also undefined: the model takes it for the end that was meant,
  which is what it does where the end of a map is a null pointer. In `TermHash` the
  case of `NamedType` has no break and goes on into that of `FunctionType`
  (`term.cpp:241-245`), reading outside the object; no run can see it, since
  `MoveToHeap` has no case for a `NamedType` and stops. In `TermTrees` abstractions
  are leaves, although `GetFreeVariables` goes into them, and kinds of terms for
  which it has no case are taken as supported: the model can give a value or a
  refusal where the code would stop, and what is said about stopping leaves such
  types out (`Plain`).

## 6. Not modelled

Columns and the texts of messages; the move constructor of the reader and a file
that cannot be opened in c2 (its client sees an error and no reader); dumps and
printing; `c2/cst` and both `cppgen` (stubs and `#if 0`); logging; the allocation
benchmark, whose allocator is the arena with large blocks beside it.

Of `src2`: `astops.cpp` is one comment from its first function to its last;
`infertypeofterm.cpp`, `compileterm.cpp` and `evaluateorcompileterm.cpp`, and
`EvaluateTerm` of applications and casts, name kinds of terms and functions that no
header declares, so there is nothing they could be held against; `Unify` (the
other function of `unify.cpp`) asserts false; `Rebind` and `Append` of contexts and
`AddInnerFunctionDefinition` have no caller that is consistent with `term.h`;
fractions in `number.cpp` are made by nothing; `type.*` and `program_type.*` are
used by no other file. `PROJECT.json` lists every component with its reason.

## 7. Plan

Done: the reader, the arena, the parser, the translator and driver of c2; the
parser and shell of fc; terms, store, free variables, abstractions, contexts,
unification and comparison of src2; the line parser.

Proved: the reader, its refinement and its lines; the arena; the parser of c2
against its grammar; the translator and driver of c2; abstractions; the store and its
caches; unification with its evaluation, and the comparison of numbers; the parser of fc
against its grammar, and its shell; the line parser and its literals. Every safety
invariant and action property that a run checks is stated by a theorem.

What remains worth doing: the liveness properties, if the prover learns fairness, and
`src2`'s application and compilation of terms, once their sources name kinds of terms
that the headers declare.
