# Lumière: the verification project

Lumière is a statically analysed, French-keyword language with two engines that
must agree: a tree walker and a bytecode virtual machine (the default).  This
directory holds TLA+ models of the parts of the implementation whose mistakes
are hard to reach with a test, TLC instances that check them, and TLAPS proofs
of their main safety properties for every size of the system.

All paths below are relative to the root of the repository; `interpreter/`
stands for `src/interpreter/`, `runtime/` for `src/interpreter/runtime/` and its
headers under `include/lumiere/interpreter/runtime/`.

Contents: [1 The system](#1-the-system) · [2 The modules](#2-the-modules) ·
[3 The runs](#3-the-runs) · [4 The proofs](#4-the-proofs) ·
[5 What is not modelled](#5-what-is-not-modelled) · [6 Plan](#6-plan)

## 1 The system

A program goes through

    text -> tokenizer -> parser -> semantic analysis -+-> tree walker
                                                      +-> LIR -> bytecode -> verifier -> VM

and both engines run on the same runtime: counted values, a cycle collector, the
members of the built-in types, and the standard library written as native
functions that call back into whichever engine runs.

### Components

**Reference counting and the cycle collector** (`runtime/ref.hpp`,
`runtime/cycles.cpp`).  State: each object's count, colour, `m_buffered` flag and
`m_buffer_slot`; per thread a buffer of candidates, a counter of them that the
engines test, and a `collecting` flag.  Operations: retain, release, destruction
(with the swap-removal from the buffer), `collect`, the end of the thread.  Called
from every copy of a value, from loop back edges and returns
(`collect_cycles_if_due`), and at the end of a program.  Hard: a release cascades
through destructors into further releases; a collection lowers counts
speculatively and must restore exactly what it lowered; the garbage it breaks
releases objects it is still sweeping; buffer slots move.  Correct means: nothing
is freed while something refers to it; nothing garbage is out of reach of the next
collection; counts are exact at rest; a collection ends.

**Bytecode, its verifier and its emitter** (`interpreter/vm/bytecode.hpp`,
`verifier.cpp`, `lir_to_bytecode.cpp`).  State: a function's bytes; the walk's
offset, the instruction starts and jump targets it has seen.  The emitter goes
over a function twice, first to size the instructions and place the blocks, then
to write them.  The interpreter reads operands without bounds checks *because* the
verifier has been there.  Hard: two switches over some sixty opcodes that must
decode the same bytes the same way, variable-length operands, short and long forms
chosen by an index, targets in the middle of an instruction.  Correct means: what
is accepted is only ever decoded at the starts the verifier saw, no operand is
missing, no index the verifier has checked is out of its table when it is used, and what
the emitter writes is accepted and fails none of the checks that only the interpreter makes.

**The VM** (`interpreter/vm/vm.cpp`).  State: a stack of frames (ip, operands,
local slots, captures), globals, per-module initialisation flags, the trace of a
failed Résultat.  Operations: the interpreter loop; closures that move a local slot
into a shared cell on first capture; calls (positional, named, with defaults,
bound, native, constructors); `PROPAGATE`; natives that re-enter the loop.  Hard: a
local is a slot before its capture and a cell after; loop bodies must get fresh
variables every turn although slots are reused; a push of a frame moves all frames.
Correct means: closures see the variables the language says they see, whichever
engine runs.

**Lowering** (`interpreter/vm/ast_to_lir.cpp`, `lir.cpp`) resolves names to slots,
captures or globals and lays out argument lists, loops, `essaie` and contracts.
Correct means: what a name denotes does not depend on when it is first captured.

**The VM's module linker** (`interpreter/vm/compiler.cpp`) merges units into one
module, renames their globals, orders their initialisers and finds import cycles.
**The tree walker's loader** (`interpreter/tree_walker/tree_walker_modules.cpp`) does
the same at run time with a cache and a loading set.  Correct means: a module's top
level runs once, before anyone reads its names, and an import cycle is an error and
never a hang; the two engines order the same effects.

**The tree walker** (`interpreter/tree_walker/*.cpp`, `environment.hpp`).  State: a
chain of environments, the call stack, control signals (retour, arrêter, continuer)
as C++ exceptions or results.  Correct means: scopes are restored on every way out.

**Values and collections** (`runtime/value.cpp`, `members.cpp`, `runtime_type.hpp`,
`stdlib/collections.cpp`).  State: collections shared by reference, each with its elements and,
once it has been checked, the *contract* it records: the type every later element must have.
Dictionaries, sets and the fields of objects keep a vector in order of insertion and, from eight
entries on, a hash index of positions.  Operations: literals, indexing, the members of each type,
declarations and parameters that check and annotate a value all the way down.  Hard: a removal
shifts positions; one list reached along two paths must satisfy both types; members such as
`filtrer` call back into the program, which may change the collection being walked; each engine has
its own code for operators, indexing, iteration and arguments.  Correct means: every element has the
type its collection records, and recorded types only become narrower; the index and the vector
agree; a walk sees what was there when it began; both engines leave the same heap.

**Runtime types and numbers** (`runtime_type.hpp`, `numeric.hpp`, `conversions.cpp`).  No state.
Arithmetic on 64 bits that asks before it computes, matching of values against types,
conversions.  Correct means: the exact result when it fits and an error when it does not, without
an overflow inside the question.

**Lexer and parser** (`src/lexer`, `src/parser`).  A cursor in the text with its line and
column; a cursor in the tokens.  Hard: keywords of two words, exponents and `->` are read
ahead and given back; statements have no separator, so where one ends depends on every
layer of the expression grammar; after an error the parser resumes on the token it stopped
at.  Correct means: a text is cut into words and trees in one way only, nothing of it is
dropped, every error is reported where it is, and both loops end.

**Semantic analysis** (`src/analysis`).  Scopes, types, definite return, the rule that
a Résultat may not be ignored, module exports and import cycles.

**LumiNet** (`interpreter/stdlib/luminet/*.cpp`).  Resolution with a deadline
(`foundation.cpp`, the only thread in the program), TCP and UDP sockets, an HTTP
server with routes and middlewares, Canal (websockets).  State: descriptors with
`closed` and `stopped` flags, routes, a writer per request, a fragment buffer.  Hard:
every callback may call any method of the server that called it; a deadline races an
answer.  Correct means: a descriptor is closed once and not used afterwards, a request
gets one response, a message is delivered once and whole.

**LumiTest** (`interpreter/stdlib/lumitest.cpp`).  A stack of groups, four kinds of
hooks, retries of `avant_tout`, a summary.  Correct means: hooks run in order around
each test, an abandoned group is popped.

**Data libraries** (`interpreter/stdlib/`: `regex.cpp`, `temps.cpp`, `json.cpp`, `texte.cpp`,
`maths.cpp`, `chemin.cpp`).  No state beyond a call.  Regex compiles a pattern into a program of
threads and runs them in order of preference; Temps reads and writes dates and follows the rules of
a zone; JSON is a reader with positions and a writer that must notice a value containing itself;
Texte works on bytes and counts characters.  Hard: leftmost and preferred matches under nested
quantifiers that match nothing; instants around a change of hour, from a table or from a rule; shared values
that are not cycles.  Correct means: each gives what its notation means, and reading undoes writing.

**LumiDessin** (`interpreter/stdlib/lumidessin`): a window, an input snapshot per
frame, a raster.  **Files and random numbers**, **command line and REPL** (`src/lumiere.cpp`),
**diagnostics**.

### How components interact

- Engines and natives: an engine calls a native with its arguments; the native may
  call back through `IRuntime::call`, which runs a nested loop of the same engine on
  the same thread.  Everything is on one thread except a pending name resolution.
- Engines and collector: counts change with every copy; the engine only chooses *when*
  a collection runs (a loop's back edge, a return, the end).
- Emitter, verifier, VM: pass bytes; the VM trusts what the verifier accepted and
  checks some of it again, and some that the verifier skips.
- Semantic analysis and engines share the AST, and each has its own module loader.

`PROJECT.json` lists every component with its status and the hazards of the code with
the properties that would catch them.

## 2 The modules

### Cycle collection: `CycleCollector`, `ObjectHeap`

`CycleCollector` is the runtime's heap: a `Ref<T>` is a *holder*, either a handle
(a C++ local, a VM slot, a global) or a member of an object, and `ref` says what each
holder points at.  Counts, colours, flags and slots are the fields of `RefCounted`,
`candidates` and `due` the thread's buffer and its published length.  Addresses are
reused: a freed member of `Obj` may be allocated again, as an allocator would.

The program's operations are `MakeRef`, `CopyAssign`, `MoveAssign` and `Reset`, each
through a handle, for a program reaches a member only through the object that owns it.
A reference given up is *owed* one `Release`; destructors owe a release for each
member they drop, so a cascade is a sequence of steps, in any order, and every other
action waits for it where the C++ call would.  `collect` is the sequence of its phases
(mark grey, scan and scan black, gather white, restore and hold, clear, delete), one
object per step, in any order the explicit stacks might yield.  Members that
`trace_references` leaves out (`Untraced`) and objects that called `mark_acyclic` are
parameters.

`ObjectHeap` is what the runtime promises: references come and go, and an object loses
its references or is freed only when no handle leads to it.  It knows no counts.
`ImplementsHeap` states that the collector implements it under the identity mapping of
`ref` and `alive`: every count and colour is an implementation detail.  `CollectsAllGarbage` is the
other half, that a collection leaves nothing behind that no handle leads to (when no member is
untraced).  `EachWalkAdvances` says that every step of a phase leaves less for that phase to do, so
a collection ends whatever it finds.

Two branches of `collect` cannot be taken and are left out: a candidate is never found
with a count of zero (`freed_early`), because destruction takes an object out of the
buffer; `BufferConsistent`, which is proved, includes the fact.

### Bytecode: `BytecodeVerifier`, `BytecodeEmitter`

`BytecodeVerifier` begins with the format: opcodes by operand shape, bytes in a base `Base` (256 in
the code), an enumeration `Encoding` of the opcodes an instance uses.  Then it
holds the two switches, translated separately: `verify_module`'s walk (`Step`,
`StepRefused`, `FinishWalk`) and the interpreter's reads and jumps (`Advance` and its neighbours, with
`AfterOperands`, `ReadsOutside` and the checks it makes at run time).  Values are abstracted: a
branch goes either way, any instruction may raise.  The checks are of two kinds:

- those that repeat the verifier's on an operand (`FailsTableCheck`, `FailsTargetCheck`), with the captured
  variables looked for in the frame as `vm.cpp:1756` does: `frameCaptures` is what the call supplied,
  and `push_empty_call_frame` starts no frame with another number of them than the function has
  (`Start`, `wrong_captures`);
- those the interpreter makes alone, each an outcome of its own: the name of an argument
  (`bad_name`; `verifier.cpp:273` lets an index one past the table through), the sources of the captures of
  a `CLOSURE`, whose bytes `verifier.cpp:253` skips, and of a class's methods (`bad_source`,
  `CallFrame::capture`), and the type of an annotation (`bad_type`).  What a class's methods capture and which
  type an annotation names are in descriptors the verifier does not enter: the constants
  `MethodSources` and `AnnotationTypes`, arbitrary for bytes of any origin and bound by `WellFormed` (`EntryOk`)
  for emitted ones.

`NothingLeftToCheck` is about the first kind, for any accepted code; `EmittedRunsClean` is about both, for
emitted code.  `BytecodeEmitter` adds the two passes of `lir_to_bytecode.cpp` in
front of it: sizes and block offsets, then bytes, with the short and long form of each
instruction, the one-byte and two-byte limits, and the pool of constants.  `Base` is
scaled down so that the limits of the format are a few instructions away.  `WellFormed` says what the
lowering guarantees of a function it hands over (`LirFunctionsAssumption`): an operand refers to an entity that
was added to its table (`LirModule::add_global` and its like), a call has at most 255 arguments
(`ast_to_lir.cpp:533` and the other places), a terminator leads to a block of the function
(`LirFunction::set_terminator`), and the pool holds the constants the function uses.

### Name resolution: `DnsRequest`

`getaddrinfo_with_timeout` with its mutex and condition variable: the interpreter thread
(`Call`, `CallerLock`, `Park`, `Wake`, `GiveUp`, `TakeAnswer`, `Finish`) and one detached
thread per request (`Resolve`, `ThreadLock`, `FindAbandoned`, `Release`, `Store`, `Notify`).
Several requests may be alive, since a program that was told EAI_AGAIN may ask again.  The system may
answer EAI_AGAIN itself, and its status is passed through: a caller cannot tell that answer from the
deadline, so `AnsweredOrAbandoned` says only that an abandoned request is told EAI_AGAIN and given
no list, and that any other is told what the system answered to it.
`list` follows the `addrinfo` list of a request from the resolver to whoever frees it.

### LumiNet: `Sockets`, `CanalLoop`, `NetServers`, `LumiNet`

Everything runs on the interpreter's thread, so `Sockets` begins with that thread's stack: the
program, natives, and the callbacks they call, with a C++ exception unwinding one of them per step
and `network_result` turning a `NetworkFailure` into a Résultat where it stands.  Beside it is the
table of descriptors, which hands out the lowest free number, as POSIX does.  `CanalLoop` is
`run_canal_loop` and the methods of a `CanalClient`: what the other end may send follows the
protocol (fragments, control frames between them, an orderly end or not), and each hook is a
callback in which the program may call every method again, `attendre` included.  `NetServers` is
`écouter` and `arrêter` of the three servers, `run_chain` with its middlewares and its writers, and a
TCP or UDP object of the program's.  `LumiNet` puts them together.

The program of an instance has one `CanalClient` and one TCP or UDP object at a time, hooks set once,
and calls `écouter` outside of callbacks and only when its last call has closed its descriptor:
called again from a callback, or after `accept` has failed, it overwrites the descriptor of the
listening socket, which then stays open (`tcp_runtime.cpp:262`).  A response kept after `écouter` has
failed is not used: its descriptor was closed under it, and its number may be another connection's
(`KeptAfterFailure`, with which `AnsweredOnce` fails).  That a request has a route is a choice
made once, so what happens to the route table while a middleware runs is not seen.  The cfg names the
kinds of program (`Protocols`) and what their hooks are (`HookSets`), so the run is of `LumiNet` itself.

### What LumiNet sends and receives: `HttpMessages`

`HttpMessages` is everything between a call and the bytes of a connection, on texts whose separators,
names and numbers are atoms of one byte each.  `Receive` takes one piece of what `recv` returns:
it adds it, looks for the end of the head in all of what has come, reads the length the head announces
and stops when that much is there; `RecvHttpMessage` folds it over the pieces and ends with the peer's.
`ParseHttpRequest` and `ParseHttpResponse` cut a message into its parts, `SendHttpRequest`,
`SendHttpResponse` and the two handshakes write one, `SendFrame` and `RecvFrame` are the frames of a
Canal with masks, short and long sizes, and `pending`, the bytes that came with a handshake.
`RouteTo` is what `écouter` chooses for a path, `ParseHostPort` and `ParseHttpUrl` read addresses, and
`HeaderContainsToken` looks for one in a list.

These are requests of `Library` (next section), answered for every way of cutting the bytes in
two and for bytes that come one or three at a time; a connection may also end after any of them.
`MessagesComeThrough` says what the other side gets: the message that was written, whatever the
cuts, and nothing of one that was cut short; the frames that are whole; the first route that some values of its
parameters make equal to the path, with those values; the address that was written.

### LumiTest: `LumiTest`

`lumiere tester` over its files, and inside a file the stack of functions and of LumiTest's natives:
`Test` pushes a test, whose hooks, body and two `try` blocks are the actions `BeforeAll`,
`BeforeEach`, `AfterBody`, `AfterEach`, `Catch` and `Finish`; `Groupe`, `AfterAll` and `LeaveGroup` are
`groupe`; `Fail` is any check that fails and `Unwind` its way out, one function per step.  A test the
filter leaves out does nothing, so it is no step.  The hooks of an instance register no hook and open
no group (`InHook`): the vector their loop walks would move.

### Names in the two engines: `NameLowering`, `TwoEngines`

A program is the body of `principal` as a sequence of tokens: declarations, functions
(declared or lambdas bound to a name), assignments, reads, calls, `si`, `tant que`,
`pour`, the three exits, and a list in which functions are kept and called from later.
`NameLowering` begins with what `semantic_analysis.cpp` accepts of it: the scopes, with a
function's parameters and a loop's variable in the scope of the body, what may be
declared, read, assigned and called, and where exits may stand.  The rest of it is the
part of `ast_to_lir.cpp` that gives every declaration a slot and every use a slot, a
capture or a global, as one fold over the text (`Lower`): a stack of lowerers, a list of
bindings cut back at the end of a scope, slots that are never given back, captures found
by name and handed down from function to function.

`TwoEngines` first writes the text token by token (`Write`), compiles it (`Compile`) and
then executes it in both engines in lock-step: `tw` is the tree walker's environments
and `m_env`, `vm` the frames, slots, cells and globals, `control` the statements and
calls under way, which the two engines share because neither lets a name decide where
control goes.  Every value written is a new stamp, so two reads agree only if they read
the same variable; conditions and lengths of lists are arbitrary.  `FunctionDecl` makes
a closure (the environment in one engine, the cells in the other), `Enter` and `Return`
are calls with and without a parameter, `BeginTurn` the top of a loop's body with
`CLEAR_LOCALS`, `Leave` the ways out of several scopes at once.

Two programs on which the engines differ (section 5) are kept out of the run by
two parameters: `LateShadowing`, with which a scope may declare a name that a function inside
it has already looked up further out, and `SelfNaming`, with
which an initializer may read the name being declared (`soit x = x` gives the outer `x` in the
tree walker and `rien` in the VM).  `EnginesAgree` fails with each.

### Résultats in the analysis: `ResultObligations`

`ResultObligations` first writes the body of a function statement by statement, and walks it at the
same time as `analyze_stmt` does: every Résultat given to a variable has an *obligation*, open until
the variable is read (`active`), and each scope keeps the obligations there were before it
(`baseline`) and those its closed branches have left (`paths`).  `WriteDeclaration`, `WriteAssignment`,
`WriteUse`, `WriteMatch`, `WritePropagation`, `WriteOpener`, `WriteOther`, `WriteEnd` and the three exits are the cases
of the walk, with `Merged` for the branches of `si` and `agir selon`, `OpenSinceLoop` for what a turn
may not leave open, and a refusal wherever the analysis diagnoses a loss.  A body that is accepted then
runs: conditions go either way, loops turn as often as they like, and `pending` holds the
Résultats that were obtained and never used.

`ResultsAreHandled` says that each of those is still in a variable.  The analysis does not promise it
for every body, and `steady` notes, while the body is written, that a Résultat moves where the walk
loses sight of it: a variable declared outside a branch or a loop is assigned inside (the
branches' obligations are merged, what the variable holds is not), or `arrêter` leaves a loop with an
obligation of the turn.  Each of these passes `lumiere vérifier` and loses a failure:

    tant que vrai { soit r = f()  si c { arrêter }  ignorer r }
    soit r = f()  si c { ignorer r  r = f()  ignorer r }        (where c is false)
    soit r = f()  tant que c { r = f()  ignorer r }

The other way round, a `retourne` in a function declared inside another reports the obligations of
the function around it, which it does not leave.

### From text to tree: `Lexer`, `Parser`, `Grammar`, `FrontEnd`

`Lexer` is the scanner and the tokenizer as operators from a cursor (`at`, line, column) to the
next token: each rule returns the cursor it leaves behind, so what is read ahead and given back
is visible.  `Parser` is one operator per rule of the grammar, a cursor and a tree or the token
the error blames; rules that reach one another call each other by name through `Rule`.  The rules that are alike (the layers of binary operators, the lists between
brackets) are tables.  `FrontEnd` is the two loops around them: `Tokenise`, then
`ParseStatement`, `Recover` and `Finish`, or `StopAtLexicalErrors`, which only `analyze_source` does.
`Grammar` is the other direction, written from the table of precedences rather than from the
parser: how a tree is written down (`ProgramWords`), with the parentheses the table asks for,
and which statements may stand after each other (`Separate`: a statement that begins with `(`, `[`, `{`
or `-` would continue the expression before it).

### Modules of the program: `ModuleLoading`, `ModuleLoader`

A program is a few files in two directories.  The text of one is as much of it as loading
depends on: imports at the top level and in functions, calls of those functions, with or
without `LumiTest.test` around them, a failure, a lambda, text that does not parse.  The
constant `At` says which file a name denotes from which file.  Every body prints a line when
it ends, and every function one after its import, so what is printed is the order of effects.

`ModuleLoading` follows one program through its life: `Write` writes it, `FollowImport` and
`FinishUnit` are `build_import_environment` (what is in progress, what is cached, the errors
found), `LinkImport` and `LinkUnit` are `link_unit`, which leaves the VM a sequence of
initializers.  The tree walker's actions (prefix `Tw`) are `load_module`, `execute_module` and the
cache and path they work on; the VM's (prefix `Vm`) execute the initializers and what
`INIT_GLOBAL` calls.  An error unwinds one frame per step, so what each frame leaves behind is
visible.  The engines run one after the other, since they share nothing but the text.

`ModuleLoader` is what both promise: a body runs to its end at most once, never inside
itself, and ends only after the modules its top level imports.  `BothLoad` states that each engine
implements it.  `ProgramsLoadAsAnalysed` relates the three readings of a program: what the analysis
accepts links, cycles are reported, and imports are ready when they are read.  Four parameters keep
known differences (section 5) out of the run, and `EnginesAgree` fails with each:
`TopLevelLambdas`, a lambda in a top-level statement;
`CallsAcross`, a function that imports, called from a file of another directory; `LateImports`, an
import after other statements; and `Retries`, an import of a module that has failed before.

### Values and collections: `Numerics`, `Values`, `Engines`, `Collections`, `KeyedTables`

`Numerics` is the checked arithmetic, for any width: each operation is translated with the
questions it asks before it computes, and its result compared with the exact one.  `Values` has the
values (scalars, and addresses of collections in a heap), the types, `Matches` and `Annotate` of `runtime_type.hpp` with the merging of contracts, and equality of values that may contain one another.  `Engines` has, side by side,
what each engine wrote for itself: operators, `et` and `ou`, literals, reading and writing an index,
declarations, iteration and the binding of arguments (positions, names, defaults, what is missing
or given twice), each an operator from a heap to a heap and a result, prefix `Vm` or `Tw`.

`Collections` is a program over such a heap: `Write` makes literals that share and nest, `Declare`
checks one against a type, `UseIndex` assigns, `CallMember` and `Join` are the members of
`members.cpp`, and `CallLibrary` is `stdlib/collections.cpp` with callbacks that may change the list
being walked.  Every value passes for `Universel` in the analysis, so the runtime alone holds it to
a type.  `ContractsHold` is the promise of `runtime_type.hpp:52`; `broken` records that a program
has done one of the two things after which it does not hold in the code: a check that was refused
half way, having annotated what it had already passed, and the union of two sets with different
contracts (a run of its own).  `EnginesAgree` compares every operation both engines have at every heap reached.

`KeyedTables` is the table of entries with its index: probing, insertion, the growth at three
quarters, and removal, which shifts positions and rebuilds.  The loops of the code are recursive functions, so that
their results can be proved; `Called` is the table after each of a sequence of calls.

### Data libraries: `Scalars`, `Regex`, `RegexMeaning`, `Temps`, `Json`, `Texts`, `LibraryMeaning`, `Library`, `MCLibrary`

A call of a data library is a function of its arguments, so `Library` has one request, chosen in
`Init`, and one step that answers it with the algorithm; the properties compare the answer
with a meaning defined without that algorithm.

- `Regex` is the parser of patterns, the compiler to threads, the matcher with its list of threads in order of
  preference, and the searches and replacements around it.  `RegexMeaning` reads off the tree the
  ends it can reach from a position, preferred ones first, and the positions where a match can begin as far
  as its anchors tell (`Opens`): the matcher stops at the first one where none can.
- `Temps` is calendar fields, formats, ISO 8601 and the offset of a zone from its table and its
  footer; `LibraryMeaning` finds the last change of a rule by listing its firings over the years
  around, and gives what is left of an instant written in a format that names only some fields.
- `Json` is the reader, with the place of its errors, and the writer; `LibraryMeaning` has the texts
  that are JSON as a grammar, and the tree a heap denotes if it does not contain itself.
- `Texts` is UTF-8, the operations of Texte, conversions between texts and values, and paths.
- `KeyedTables` is compared with a plain ordered map and with the last call about each key, `Numerics` with exact arithmetic.
- `HttpMessages` is compared with what was sent: `LibraryMeaning!Pieces` cuts bytes, `Speakable` and `Measured` say
  which messages can be read back at all.

## 3 The runs

| run | what it checks | bounds |
| --- | --- | --- |
| `collector_rings` | three objects and a text under every interleaving of the program's operations and the collection's steps: `NoUseAfterFree`, `CountsExact`, `CollectsAllGarbage`, `ImplementsHeap`, `EachWalkAdvances` | one member per object, two handles, collection from two candidates on, symmetry over objects and handles |
| `bytecode_codes` | every code of the instance's shapes, well formed or not, and functions of the emitter around the limits of the short forms and of 16-bit offsets: `FetchesInstructionStarts`, `NothingLeftToCheck`, `EmittedIsAccepted`, `EmittedRunsClean`, `VerificationEnds` | codes of up to six bytes, one opcode per operand shape, closures of up to seven bytes; two blocks; `Base` 23 |
| `dns_retries` | a caller that retries while two earlier requests are out: `ListsAreFreedOnce`, `NothingLeaks`, `AnsweredOrAbandoned`, `CallsReturn` | three requests |
| `names_programs` | every program of the instance and every path, both engines use the same variable, captured or not: `EnginesAgree` | seven statements, two turns, three calls deep, two kept functions |
| `modules_programs` | every program of the instance: `ProgramsLoadAsAnalysed`, `EnginesAgree`, `BothLoad` | five statements in four files, three where the program is rejected |
| `results_bodies` | every body that the analysis accepts, whatever its conditions and however often its loops turn: `ResultsAreHandled` | eight statements, two variables, three Résultats |
| `net_program` | a program with a Canal of its own or one server, whose callbacks call any method again: `MessagesArrive`, `DescriptorsOwned`, `AnsweredOnce`, `CallsEnd` | three descriptors, two connections, three counted calls, two natives inside one another, three frames, one middleware |
| `tests_files` | test files whose groups, tests and hooks call LumiTest again and fail anywhere: `HooksSurround`, `FilteredGroupsStayQuiet`, `FailuresAreReported` | two files, and in each two hooks, two tests, two groups |
| `source_texts` | short texts, words under every layout, word sequences inside openings, written trees: `TokensAreExact`, `TreesComeBack`, `EveryTokenIsAccountedFor` | texts of three characters, sequences of two words in fourteen contexts, expressions two operators deep, pairs of statements |
| `library_requests` | one request of each data library against its meaning: `NumbersAreExact`, `SearchesFindWhatPatternsMean`, `TimesAreExact`, `TextsMeanTheirParts`, `TablesFindWhatTheyHold`, `MessagesComeThrough` | `Entier` of -21 to 20, tables of 6, 7, 11 or 12 keys and two more calls, JSON texts of four characters and those that begin like them, words of two; heads of 60 atoms, bodies of 6, up to 20 at a read |
| `collections_contracts` | every program of the instance over a heap of collections: `ContractsHold`, `KeysStayDistinct`, `EnginesAgree`, `LibraryMeansWhatItSays`, `ContractsOnlyNarrow` | `Entier` of -8 to 7, three collections, two elements given at a time, three operations after the literals |
| `collections_union` | *violation* of `ContractsAlwaysHold`: the union of two sets | as above |

**Why the bounds are enough to be worth running.**  Three objects with a member each form
every chain, ring and ring with a tail, and the text is the leaf kind that is never
buffered.  A threshold of two makes a collection start with a
buffer of one, two or three entries, so a swap-removal moves something.  Parallel edges, more
members and members that are not traced are covered by the proofs, which hold for any number of each.  The verifier
treats opcodes by shape only, so one per shape exercises each branch of its two switches;
codes of up to a few bytes contain an instruction cut short, one that ends exactly at the
end and a jump into the middle of another.  `Base` is scaled down so that a two-block
function crosses the one-byte index and two-byte offset limits.  Of the two classes one captures a local the
function does not have, and of the annotations one names a type that is not there.  Three requests are a
current one, an abandoned one being resolved and an abandoned one storing its list.  Seven
statements are enough for a function made in a loop, kept, and called after the next turn,
for a function in a function capturing through it, and for an exit out of two scopes; two
turns and three calls for reuse of a slot and for recursion.  `Worthwhile` leaves out
empty bodies, declarations that end their scope and calls of kept functions before any is kept.
Five statements in four files give a module imported along two paths, cycles through the
program's own file, one module under two names, two modules under one name, and an import that
fails under a test; `MCModuleLoading!Worthwhile` stops at three statements for programs the
analysis rejects and leaves out those that may retry.

Eight statements are a branch with two arms, or a loop, with a declaration before it, a use after it
and an exit in it; with two variables a Résultat can be copied, and with three one can be
lost while another is kept.

An operator inside an operator shows every pair of precedences and both associativities, a pair of
statements every border between statements.  A word sequence of two in an opening reaches every
error of the parser with something left to recover on; texts of three characters reach every
branch of a rule of the tokenizer, and longer ones that matter (escapes, numbers, nested comments)
are listed in `MCFrontEnd!Literally`.

The branches of a checked operation depend on signs, zero and the two ends of `Entier`, all of which
a small width has.  Patterns are over one letter, its complement and any scalar, under every quantifier,
alone, in groups, side by side and as alternatives: nesting a quantifier over what may match nothing
is where threads can go wrong.  Anchors stand behind them, in front of them and in one alternative.  Instants stand at both ends of years and of February and on both
sides of 1970; zones are asked one second before, at and after their changes.  Heaps of three nodes
share and contain one another in every way.  Tables are filled to just under the threshold of the
index (eight) and of its growth (twelve of sixteen) and then set and erased across it, with keys that collide.
Messages are cut at every place and read one and three atoms at a time, so every separator of two
or four bytes is met across two reads; the limits on a head and a body are a few atoms above what most of the
messages need, and some cross them; payloads lie on both sides of 126, where a frame's size takes two more bytes.
Three collections are a list, a list in it and a third that shares it or holds a callback's
additions; three operations annotate one, change it and look at it through another.

Each property has a mutant in `PROJECT.json`, a definition changed the way a plausible
mistake in the code would change it, that TLC finds violating that property.

**Stopping.**  `CHECK_DEADLOCK FALSE` is stated where the modelled computation ends (a
verdict is reached, a program has run to its end) or where a bound of the instance stops it
(addresses used up, turns and depth reached).  `dns_retries` checks deadlock.

**Fairness.**  `BytecodeEmitter!FairCodeSpec`: weak fairness of the walk, straight-line C++.  `LumiNet!FairSpec`: weak fairness of the
natives and of callbacks returning, one thread, and of a read once the other end has closed; nobody has
to connect, and no peer to send.  `DnsRequest!FairSpec`: weak fairness
of each thread and of the caller, strong fairness of the timed wait waking up (a
`wait_for` with a deadline returns even if the mutex is contended in between), and none of
`Resolve`: the system may never answer.  The other specifications are checked for safety only; that a
collection ends is the action property `EachWalkAdvances`, which needs no fairness.

**What the violation says.**  A comment promises that a collection that records a contract has
elements that were checked against it (`runtime_type.hpp:52`).  `Ensemble.union`
(`members.cpp:389`) gives its result the contract of the receiver without checking the elements of the
other set, whose contract may be another.  On the built program, with `e: Ensemble[Entier] = {1}` and
`f: Ensemble[Texte] = {"x"}`, `soit l: Liste[Entier] = e.union(f).en_liste()` passes the analysis and ends
both engines at the assertion of `runtime_type.hpp:290`; built without assertions, `l` holds a Texte.

## 4 The proofs

The proofs hold for every value of the constants, under the assumptions named in the modules.

**`CycleCollectorProofs`** (constants: any finite sets of objects, handles and slots, any
threshold).  `IInv` in `CycleCollector` adds to the invariants of the run:

- `CountsInv`: a count is the references to the object, plus the releases owed to it, plus the
  sweep's hold, minus the edges that trial deletion has subtracted.  *Which* edges are
  subtracted depends on the phase (`Subtracted`), and everything else rests on it.
- `MarkClosed`, `ScanClosed`, `ScanPending`, `WhiteClosed`, `GatherClosed`: no set of grey (white) objects
  is closed under being reached without the work list or a walked object leading into it.
  These say that the explicit stacks lose nothing, and so that what is gathered as white has
  every reference to it from inside the garbage, which is why the sweep frees nothing in use.
- `BufferInv`, `ColourInv`, `ControlInv`, `AliveInv`: the buffer and the slots, the colours a phase
  allows, the locals of `collect`, and that nothing refers to a freed object.

`CollectorImplementsHeap` rests on a second invariant, `SealInv`: when gathering ends nothing white is
left outside the garbage (`WhiteUncounted`), and a trial count of zero means that every reference to a member
of the garbage comes from the garbage (`GarbageSealed`), so no handle leads into what is swept.  Then a step of the
program is a step of `ObjectHeap`, a release that frees takes an object nothing refers to, and every phase of
a collection is a stutter but its sweep.

From both: `TypeCorrect`, `CountsAreExact`, `BufferStaysConsistent`, `NeverUsedAfterFree`,
`CollectorImplementsHeap`.

**`CollectionEndsProofs`** (the same constants) proves the other half of the promise: a collection
finishes, and finishes with everything done.

- `CollectionIsComplete`, when every member is traced (`Untraced = {}`, as in the run: with an untraced
  member a ring through it stays).  `CompleteInv` follows the *enclosed* sets, those that nothing
  outside refers to.  At rest each has a purple object in it (`CandidatesInv`): an assignment cannot
  close one without owing a release to a member, for code only reaches what lies outside; and the last
  release owed either makes its object purple or destroys it, or the object is a leaf, and what
  refers to the leaf is enclosed without it (`LeavesInv`: an object that called `mark_acyclic` has no members).
  Hence every enclosed set has a root when the walks begin and `mark_grey` reaches all of it
  (`MarkInv`); it is never counted from outside, so `scan` leaves it white, `gather_white` takes it, and the
  sweep holds it (`FoundInv`).  What is alive and out of reach is enclosed, so nothing of the kind is left.
  While the sweep runs no release destroys anything, and `delete` finds each object without references
  (`ClearedInv`).
- `EveryWalkAdvances`: each step leaves less of the stages, the recolourings and the entries, in this
  order.  The entries are those of the stacks, the releases owed and twice the members that point at
  something: a destructor turns the last into the second.  That there are no more releases than dropped
  members is an injection between the two (`DropAddsReleases`), not a sum.

**`BytecodeVerifierProofs`** (any base, any encoding, any tables, any code).  `IInv` says that
everything the walk has passed decodes from the first instruction on, start after start,
with operands inside the code and indices inside their tables (`Walked`), that an accepting
verdict means the walk covered the code and every jump lands on a start (`Judged`), and that
the interpreter of an accepted function stands on a start or just after the operands of one,
with as many captures in its frame as the function has (`Placed`, `Captured`).  From it: `TypeCorrect`, `DecodedOneWay`, `UncheckedReadsAreSafe`.

**`BytecodeEmitterProofs`** (besides: any well-formed functions, of any number of blocks, instructions,
arguments and constants).  Nothing emitted is refused (`NothingEmittedIsRefused`) and nothing emitted fails a
check when it runs (`NothingEmittedFailsACheck`).  The argument goes from a byte to a function:

- a number within the limit of a write function is read back as it was written, in one, two or three bytes (`ReadBack24`);
- each write function appends to the chunk, and says of the final code that it still begins with this chunk
  (`Kept`, which a later failure or overwriting would break): so what is known of the code is known at the
  place where it was written;
- `InstrLays` and `EveryTermLays`, one lemma per shape: what is written is as long as `instr_size` and `term_size`
  counted, the verifier lets it through, its argument names are in their table, the sources of its captures
  in the frame and the type of its annotation in its table;
- `PassesMatch`: the two passes are at the same offset and at the same constant before and after each block, so
  a jump leads where a block starts;
- `FunctionRuns`: instructions follow each other without a gap over the whole code, every jump leads to one of
  them, and what ends at the end of the code is a `RETURN` or a jump.

`EmittedInv` then follows the walk along these instructions: it stands on one of them, the ones behind it
are in `starts`, so `WalkIsSound` holds at the end; and the frame of an accepted function is on one of them.
The two passes are loops, written as functions on numbers; `Iterates` shows that such functions exist, and the
inductions (`Climb`, `Descend`) are over sets of numbers.

**`DnsRequestProofs`** (any set of requests).  `IInv` gives, for each request, the state of its
list as a function of where its thread and its caller are (`ListState`), with mutual exclusion
of their critical sections (`MutexInv`) and what the caller was told (`Outcome`), which for an answered
request is what the system answered, EAI_AGAIN included.  From it:
`TypeCorrect`, `FreedOnce`, `NoLeak`, `OneOutcome`.

**`RuntimeProofs`** (any width of an Entier, any hash function).  `ExactArithmetic`: addition, subtraction, multiplication, division,
remainder and negation of `numeric.hpp` and `temps.cpp` give the exact result when an Entier can
hold it and an error otherwise, at the minimum too, and quotient and remainder fit together.
`TablesAnswerTheLastCalls`: after any sequence of `set` and `erase`, over any number of keys, a table tells of
each key what the last call about it left and lists the keys in the order of their arrival
(`KeyedTables!TellsTheLastCalls`, which `TablesFindWhatTheyHold` includes).  What carries it is `Sits`: the slots hold
each position once, no slot before it on the way of its key is empty, and there are more slots than
positions, so by the pigeonhole principle a probe ends (`ProbeStops`), at its key if the table has it.
An insertion keeps it (`IndexedSits`), and a quarter of the slots is free after a rebuilding at
whatever size (`CapacityIsEnough`).  `Told` then relates the entries to the calls that hold each key.
`rebuild_positions`, the doubling of the capacity and the sequence of calls are recursive functions; the
inductions on them are over sets of numbers (`Induction`), from the least element of a nonempty set, and
`Iterates` shows that a function with such steps exists.

**`LumiTestProofs`** (any number of files, groups, hooks and tests, any depth).  `IInv` says what the
stack of functions may look like: code stands on the native that called it and natives on code, and
each test is at a place of its hooks that agrees with the hook above it (`Calling`); which groups
are on the stack, and which hooks have completed.  `HooksRunInOrder` needs the order of places
inwards and outwards besides, so that what a test has still to run lies behind what it has run.  From it:
`TypeCorrect`, `QuietWithoutTests`, `StatusTellsTheOutcome`, `HooksRunInOrder`.

**`LumiNetProofs`** (any numbers of descriptors, connections and calls, callbacks nested to any depth).
`Shape` is what the stack can be: `écouter` is called by the program itself and is its second
frame, every callback stands on a native.  A descriptor has one of four owners: the server, the
program's TCP or UDP object, its `CanalClient`, or the request `écouter` is in the middle of (`Owned`); the open
descriptors are exactly the four, and no two are the same.  A connection is open on one descriptor at
most (`Distinct`).  `accept` and `connect` take the lowest free descriptor, which exists and is unique
by `HasLeast` (every nonempty set of numbers has a least one).  From it: `TypeCorrect`, `OneOwnerEach`.
`OneAnswerEach` adds the writer of a request (`WritersInv`, `CurrentInv`, `AnswersInv`: an answer belongs to a request that
was taken, and a writer that has answered says so) and supposes `~KeptAfterFailure`: without it the
property fails, as section 2 says.

**Only model-checked**, and why:

- liveness under fairness (`VerificationEnds`, `CallsReturn`, `CallsEnd`), out of the prover's reach;
- what a recursive operator computes for every input (the provers have no theory of one; only loops over numbers,
  as in `RuntimeProofs` and `BytecodeEmitterProofs`, are written as functions with an induction): `MessagesArrive` (which messages of a sequence are whole is a selection from it),
  the lowering of names (`EnginesAgree` of `TwoEngines`), the lexer, the parser, the collections, the data libraries;
- `ResultsAreHandled`: the run of a body is related to the walk of its whole text, branch by branch,
  so its invariant is about what the walk of every prefix was;
- the loading of modules: the bodies under way and the imports of a text are selections from sequences.

## 5 What is not modelled

`PROJECT.json` has the reason for each component.  Within the modelled ones:

- the class, interface and annotation tables of the emitter;
- classes, methods, `agir selon`, Résultats with their traces and module-level functions in `TwoEngines`,
  and the values of defaults (`Engines` has which argument goes where);
- the deadlines of sockets, datagrams, payloads of a Canal above 65535 bytes, SHA-1 and base64,
  and the serving of files;
- types in the semantic analysis, and the obligations of Résultats in parameters, fields, collections and closures; nominal types and aliases at run time, the tables of fields of objects;
- the rounding of a Décimal, the real functions of Maths, letters outside ASCII in Texte beyond a
  sample, named groups of a match, calendar intervals, the reading of zone files;
- values in `ModuleLoading`, and built-in modules.

**Known differences between the engines**, each tried on the built program and kept out of the runs
by a parameter or by what is modelled:

- with a global `x`, `fonction f() { x = 5 }`, `soit x = 2`, `f()` leaves the local `x` at 5 in the
  tree walker and at 2 in the VM (`tree_walker_expr.cpp:381`, `ast_to_lir.cpp:1714`; `LateShadowing`),
  and `soit x = x` differs as said above (`SelfNaming`);
- `ast_to_lir.cpp:2162` takes the last function made while the top level is lowered for the
  initializer: if the file has a top-level lambda, the VM executes that in place of the file's body
  (`TopLevelLambdas`);
- an import after other statements runs first in the VM (`LateImports`); an import in a function is resolved against
  the directory of the file being executed in the tree walker (`tree_walker_modules.cpp:42`) and against the
  function's own in the VM (`CallsAcross`), and does not resolve at all in the tree walker when the program was named
  without a directory; a module that failed is executed again by the tree
  walker and taken as it was left by the VM (`vm.cpp:1708`; `Retries`);
- an exported variable is copied when it is declared in the tree walker and read when it is bound in
  the VM; the analysis prefers a file to a built-in module of its name and the engines do the reverse (`lumiere_spec.md:574`);
- the VM evaluates the defaults of a call once all arguments are bound and before any is checked
  against its type, the tree walker parameter by parameter (`ast_to_lir.cpp:1575`);
- `et` and `ou` on a value that is not a Logique: the VM takes its truth, the tree walker refuses it;
- the cause given for a wrong index, and which of two errors in a dictionary's entry comes first.

**What modelling and the built program show besides**, which no run claims against:

- a type that is refused has annotated what it had passed (`broken`), and a declaration of type
  `Liste[Entier] | Liste[Texte]` refuses a list already known as `Liste[Texte]`;
- `Collections.trier` leaves `[9007199254740993, 9007199254740992.0, 9007199254740992]` as it is: the
  comparison of an Entier with a Décimal rounds, so equality is not transitive (`docs/stdlib-foundations.md:335`
  has them compare numerically).  `SortsAreStable` leaves out lists with a Décimal that ties with two different
  Entiers, and only these (`Confused`);
- `Collections.étendue(9223372036854775806, 9223372036854775807, 2)` raises although its range has one
  element;
- `Regex.correspond` takes the preferred match and then asks whether it is the whole text, so `a|ab` does not
  match `ab` (`RegexMeaning` follows the code's preference);
- `Regex.chercher("$", "abc")` finds nothing: a search ends at the first position where no thread can begin
  (`regex.cpp:860`), though `regex.cpp:842` and `docs/stdlib-foundations.md:450` promise the leftmost match anywhere.
  `SearchesFindWhatPatternsMean` lets a search miss a match behind such a position and nowhere else;
- the verifier accepts a `CLOSURE` whose sources are not there, an argument name one past the table, and
  descriptors with such sources or types (`verifier.hpp` promises every table index in range): the interpreter
  checks them itself and raises, and nothing emitted does so (`EmittedRunsClean`);
- ISO 8601 does not come back for years after 9999 or before 0, and a zone without
  transitions does not use its footer;
- `"+-5".en_entier()` succeeds with -5 while `"+-5" en Entier` is refused, and `" 42"` is the other way
  round;
- a documentation comment in front of an interface's method is a syntax error, `prive` in front of a
  top-level `soit` is dropped from the tree, and `soit x = 1` followed by a line `-1` is one declaration;
- `recv_http_message` looks for `content-length:` anywhere in the head (`protocol.cpp:492`), so a header
  `X-Content-Length` gives a length, and what is in the read after a body is kept as part of it;
  a response of status 204 or 304 is sent with its body, although it announces none;
- a server drops what arrives in the same read as the request of a handshake: only a client keeps it
  (`http_canal.cpp:291`);
- `header_contains_token` does not look for quotes before the first comma, so `"a,b"` as the first of a list is
  taken for two (`TokensAreFound` states the property from the second on);
- the client checks its headers for line ends only, the server for everything that is not a name;
- in LumiTest, an `avant_tout` registered after the first test never runs, an earlier one is repeated when a
  second one fails, and `après_tout` is not run when the group's callback raises.

The front end knows ASCII only: accented letters in names and the accented spellings of keywords
are left out, and a decimal is refused by its exponent rather than by its value.

Out of reach or without a state of their own: rasterisation, formatting of diagnostics, the
disassembler, thin wrappers over files, clocks and random numbers.

## 6 Plan

What is left, in order:

1. **Calls and Résultats** (`vm.cpp` calls, `tree_walker_expr.cpp`): the values of defaults, bound
   methods, constructors, propagation and its trace, in both engines, beside `TwoEngines`; then classes and
   `agir selon` on values.
2. **Types in the semantic analysis**: inference and assignability, against the matching of `Values`.
3. **HTTP under change**: the table of routes while a middleware adds to it; deadlines of reads and writes.
4. **Proofs**: the loading of modules (what the analysis accepts links, `BothLoad`), once its stacks are
   written without selections from sequences; the slots-and-cells invariant of `TwoEngines`.
