--------------------------- MODULE ModuleLoading ----------------------------
(***************************************************************************)
(* One program of several files through its whole life: the analysis that  *)
(* follows its imports, the linker of the VM that follows them again, and  *)
(* the two engines that execute the top level of every file.               *)
(***************************************************************************)
EXTENDS Integers, Sequences, SequencesExt, FiniteSetsExt, TLC

(***************************************************************************)
(* The source files of a program and what their top level says about       *)
(* loading: imports, functions that import when they are called, calls of  *)
(* such functions, and statements that fail.  Every body ends by printing  *)
(* a line of its own, and so does every function once it has imported.     *)
(***************************************************************************)
CONSTANTS
    Order,            \* the files, in the order the instance writes them; the program first
    Names,            \* module names that an import may mention
    At,               \* At[f, n]: the file that n names in the directory of f
    Here,             \* in a call: a function of the same file
    NoFile,
    MaxStatements,    \* statements in all files together
    LateImports,      \* may a top-level import follow a statement with an effect?
    CallsAcross,      \* may a file call a function of another directory that imports?
    TopLevelLambdas,  \* may a top-level statement contain a lambda?
    Retries           \* may a file whose body failed be imported once more?

Files == Range(Order)
Root  == Head(Order)

ASSUME AtAssumption == At \in [Files \X Names -> Files \cup {NoFile}]
ASSUME NoFileAssumption == NoFile \notin Files /\ Here \notin Names

(***************************************************************************)
(* Statements.                                                             *)
(*   import    importer name                                               *)
(*   function  public fonction f_name() { importer name ; afficher(..) }   *)
(*   call      from.f_name(), or f_name() when from is Here                *)
(*   test      LumiTest.test("..", g) where g makes that call and goes on  *)
(*   fail      a runtime error                                             *)
(*   lambda    a statement with a lambda in it                             *)
(*   garbled   text that does not parse                                    *)
(***************************************************************************)
Stmt(op, from, name) == [op |-> op, from |-> from, name |-> name]

Imports == {Stmt("import", Here, n) : n \in Names}
Importers == {Stmt("function", Here, n) : n \in Names}
Calls   == {Stmt(op, from, n) : op \in {"call", "test"}, from \in Names \cup {Here}, n \in Names}
Others  == {Stmt(op, Here, Here) : op \in {"fail", "lambda", "garbled"}}
Statements == Imports \cup Importers \cup Calls \cup Others

Parses(body) == \A s \in Range(body) : s.op # "garbled"

\* collect_imports: the imports of a body and of the functions in it, in order.
Collected(body) ==
    LET importing == SelectSeq(body, LAMBDA s : s.op \in {"import", "function"})
    IN [i \in DOMAIN importing |-> importing[i].name]

\* The imports that the top level itself executes.
TopLevel(body) == LET imports == SelectSeq(body, LAMBDA s : s.op = "import")
                  IN [i \in DOMAIN imports |-> imports[i].name]

\* The file whose function a call in f reaches.
Target(f, s) == IF s.from = Here THEN f ELSE At[f, s.from]

SumOfLengths(text) == FoldLeft(LAMBDA n, f : n + Len(text[f]), 0, Order)

\* Whether s may be written next in file f: names are declared once and before
\* their use, and nothing follows a statement that ends the body.
Accepts(text, f, s) ==
    LET body == text[f] IN
    /\ \A i \in DOMAIN body : body[i].op \notin {"fail", "garbled"}
    /\ s.op \in {"import", "function", "lambda"} => s \notin Range(body)
    /\ s.op = "import" => LateImports \/ \A i \in DOMAIN body : body[i].op = "import"
    /\ s.op \in {"call", "test"} =>
          IF s.from = Here THEN Stmt("function", Here, s.name) \in Range(body)
          ELSE /\ Stmt("import", Here, s.from) \in Range(body)
               /\ Target(f, s) # NoFile
               /\ CallsAcross \/ \A n \in Names : At[f, n] = At[Target(f, s), n]
    /\ s.op = "lambda" => TopLevelLambdas
    /\ s.op = "garbled" => body = <<>>

\* Whether the functions called are there, once all files are written.
CallsResolve(text) ==
    \A f \in Files : \A s \in Range(text[f]) :
        s.op \in {"call", "test"} => Stmt("function", Here, s.name) \in Range(text[Target(f, s)])

(***************************************************************************)
(* The import graph over the files that parse.                             *)
(***************************************************************************)
Imported(text, f) ==
    IF Parses(text[f]) THEN {At[f, n] : n \in Range(Collected(text[f]))} \ {NoFile} ELSE {}

\* One round per file is enough to reach everything.
ReachableFrom(text, S) ==
    FoldLeft(LAMBDA T, round : T \cup UNION {Imported(text, f) : f \in T}, S, Order)
Cyclic(text) == \E f \in ReachableFrom(text, {Root}) : f \in ReachableFrom(text, Imported(text, f))

-----------------------------------------------------------------------------

VARIABLES
    phase,  \* what the program is at
    text,   \* text[f]: the statements of file f
    front,  \* build_import_environment: its calls under way, what it has seen
    link,   \* link_unit and LinkContext
    tw,     \* the tree walker
    vm      \* the VM

vars == <<phase, text, front, link, tw, vm>>

-----------------------------------------------------------------------------
(* Writing the program. *)

\* Files are written in their order, each once something imports it.
Write(f, s) ==
    /\ phase = "write"
    /\ SumOfLengths(text) < MaxStatements
    /\ \A i \in DOMAIN Order : text[Order[i]] # <<>> => i <= CHOOSE j \in DOMAIN Order : Order[j] = f
    /\ f \in ReachableFrom(text, {Root})
    /\ Accepts(text, f, s)
    /\ text' = [text EXCEPT ![f] = Append(@, s)]
    /\ UNCHANGED <<phase, front, link, tw, vm>>

-----------------------------------------------------------------------------
(* analyze_source: the imports, before either engine. *)

Unit(f) == [file |-> f, todo |-> Collected(text[f])]

Analyse ==
    /\ phase = "write" /\ CallsResolve(text)
    /\ phase' = IF Parses(text[Root]) THEN "analyse" ELSE "rejected"
    /\ front' = [front EXCEPT !.stack = <<Unit(Root)>>]
    /\ UNCHANGED <<text, link, tw, vm>>

\* Mutant: its exports are cached before its imports have been followed.
Enter_CachedFirst(rest, module) ==
    [front EXCEPT !.stack = Append(rest, Unit(module)), !.progress = @ \cup {module},
                  !.cache = @ \cup {module}]

\* A module is in progress from here until its own imports are analysed.
Enter(rest, module) ==
    [front EXCEPT !.stack = Append(rest, Unit(module)), !.progress = @ \cup {module}]

\* The next import of the innermost file: not found, known, in progress, or
\* read and, if it parses, analysed with its own imports first.
FollowImport ==
    /\ phase = "analyse"
    /\ LET unit == Last(front.stack)
           rest == Append(Front(front.stack), [unit EXCEPT !.todo = Tail(@)])
           module == At[unit.file, Head(unit.todo)]
       IN /\ unit.todo # <<>>
          /\ front' =
                IF module = NoFile THEN [front EXCEPT !.stack = rest, !.errors = @ \cup {"not found"}]
                ELSE IF module \in front.cache THEN [front EXCEPT !.stack = rest]
                ELSE IF module \in front.progress
                     THEN [front EXCEPT !.stack = rest, !.errors = @ \cup {"cycle"}]
                ELSE IF ~Parses(text[module])
                     THEN [front EXCEPT !.stack = rest, !.errors = @ \cup {"syntax"}]
                ELSE Enter(rest, module)
    /\ UNCHANGED <<phase, text, link, tw, vm>>

Accepted == front.errors = {}

FinishUnit ==
    /\ phase = "analyse"
    /\ LET unit == Last(front.stack)
           rest == Front(front.stack)
       IN /\ unit.todo = <<>>
          /\ front' = IF rest = <<>> THEN [front EXCEPT !.stack = rest]
                      ELSE [front EXCEPT !.stack = rest, !.progress = @ \ {unit.file},
                                         !.cache = @ \cup {unit.file}]
          /\ phase' = IF rest # <<>> THEN phase ELSE IF Accepted THEN "link" ELSE "rejected"
          /\ link' = IF phase' = "link" THEN [link EXCEPT !.stack = <<Unit(Root)>>] ELSE link
    /\ UNCHANGED <<text, tw, vm>>

-----------------------------------------------------------------------------
(* link_unit: one module for the VM, with the initializers in their order. *)

Initializer(kind, f) == [kind |-> kind, file |-> f]

\* AstToLir::lower records as initializer the last function there is once the
\* top level is lowered: the function of its last lambda, if it has one.
OwnInitializer(f) ==
    Initializer(IF Stmt("lambda", Here, Here) \in Range(text[f]) THEN "lambda" ELSE "body", f)

\* LinkedUnit.initializers, once every import of f is linked.
Initializers(loaded, f) ==
    LET imports == TopLevel(text[f])
        bindings == IF imports = <<>> THEN <<>> ELSE <<Initializer("bindings", f)>>
    IN FlattenSeq([i \in DOMAIN imports |-> loaded[At[f, imports[i]]]])
          \o bindings \o <<OwnInitializer(f)>>

\* resolve_module_path and parse_module, then `loaded` before `loading`.
Unlinkable(module) ==
    \/ module = NoFile
    \/ ~Parses(text[module])
    \/ module \in link.loading \ DOMAIN link.loaded

LinkImport ==
    /\ phase = "link"
    /\ LET unit == Last(link.stack)
           rest == Append(Front(link.stack), [unit EXCEPT !.todo = Tail(@)])
           module == At[unit.file, Head(unit.todo)]
       IN /\ unit.todo # <<>>
          /\ IF Unlinkable(module)
             THEN phase' = "refused" /\ UNCHANGED link
             ELSE /\ link' = IF module \in DOMAIN link.loaded THEN [link EXCEPT !.stack = rest]
                             ELSE [link EXCEPT !.stack = Append(rest, Unit(module)),
                                               !.loading = @ \cup {module}]
                  /\ UNCHANGED phase
    /\ UNCHANGED <<text, front, tw, vm>>

LinkUnit ==
    /\ phase = "link"
    /\ LET unit == Last(link.stack)
           rest == Front(link.stack)
           own == Initializers(link.loaded, unit.file)
       IN /\ unit.todo = <<>>
          /\ IF rest = <<>>
             THEN /\ link' = [link EXCEPT !.stack = rest]
                  /\ vm' = [vm EXCEPT !.queue = own]
                  /\ phase' = "tree walker"
             ELSE /\ link' = [link EXCEPT !.stack = rest, !.loading = @ \ {unit.file},
                                          !.loaded = (unit.file :> own) @@ @]
                  /\ UNCHANGED <<phase, vm>>
    /\ UNCHANGED <<text, front, tw>>

-----------------------------------------------------------------------------
(* Frames of both engines: a body at a statement, or a function of a file   *)
(* that imports a module, for which the VM has initializers yet to see to.  *)

Body(f) == [kind |-> "body", file |-> f, at |-> 1, name |-> Here, todo |-> <<>>]
Function(f, n, todo) == [kind |-> "function", file |-> f, at |-> 0, name |-> n, todo |-> todo]

Top(engine) == Last(engine.stack)
Ended(frame) == frame.at > Len(text[frame.file])

\* Whether the innermost frame of an engine is a body at a statement that op lists.
Facing(engine, ops) ==
    /\ engine.stack # <<>> /\ ~engine.raising
    /\ Top(engine).kind = "body" /\ ~Ended(Top(engine))
    /\ text[Top(engine).file][Top(engine).at].op \in ops
\* The statement an engine's innermost body is at.
Statement(engine) == text[Top(engine).file][Top(engine).at]

\* The innermost frame goes on to its next statement.
Advance(stack) == Append(Front(stack), [Last(stack) EXCEPT !.at = @ + 1])
Says(engine, what) == Append(engine.log, <<Top(engine).file, what>>)

\* An error leaves the innermost frame; LumiTest.test stops it in the caller.
Stops(stack) ==
    LET caller == Last(stack) IN
    /\ stack # <<>> /\ caller.kind = "body" /\ ~Ended(caller)
    /\ text[caller.file][caller.at].op = "test"
Unwound(engine) ==
    LET rest == Front(engine.stack) IN
    IF Stops(rest) THEN [engine EXCEPT !.stack = Advance(rest), !.raising = FALSE]
    ELSE [engine EXCEPT !.stack = rest, !.failed = rest = <<>>, !.raising = rest # <<>>]

-----------------------------------------------------------------------------
(* The tree walker: files are looked for from m_current_source_path, which  *)
(* a body sets and a call does not.                                         *)

Path == Last(SelectSeq(tw.stack, LAMBDA frame : frame.kind = "body")).file

TwLooksFor == IF Top(tw).kind = "function" THEN Top(tw).name ELSE Statement(tw).name
TwFound == At[Path, TwLooksFor]

TwStep == phase = "tree walker" /\ UNCHANGED <<text, front, link, vm>>

\* visit(ImportStmt), in a body or in a function.
TwImporting == (Top(tw).kind = "function" /\ ~tw.raising) \/ Facing(tw, {"import"})

TwStart ==
    /\ TwStep /\ tw.stack = <<>> /\ tw.log = <<>> /\ ~tw.failed
    /\ tw' = [tw EXCEPT !.stack = <<Body(Root)>>]
    /\ UNCHANGED phase

\* m_modules has the module: its public members are bound.
TwBind ==
    /\ TwStep /\ tw.stack # <<>> /\ TwImporting
    /\ TwFound \in tw.modules
    /\ tw' = IF Top(tw).kind = "body" THEN [tw EXCEPT !.stack = Advance(@)]
             ELSE [tw EXCEPT !.stack = Advance(Front(@)), !.log = Says(tw, Top(tw).name)]
    /\ UNCHANGED phase

\* load_module: not found, in the middle of its own loading, or unreadable is an
\* error; otherwise execute_module begins the body of the file.
TwCannotLoad(module) == module \in tw.loading \cup {NoFile} \/ ~Parses(text[module])

TwLoad ==
    /\ TwStep /\ tw.stack # <<>> /\ TwImporting
    /\ TwFound \notin tw.modules
    /\ tw' = IF TwCannotLoad(TwFound) THEN [tw EXCEPT !.raising = TRUE, !.unloadable = TRUE]
             ELSE [tw EXCEPT !.stack = Append(@, Body(TwFound)), !.loading = @ \cup {TwFound}]
    /\ UNCHANGED phase

TwCall ==
    /\ TwStep /\ Facing(tw, {"call", "test"})
    /\ tw' = [tw EXCEPT !.stack = Append(@, Function(Target(Top(tw).file, Statement(tw)), Statement(tw).name, <<>>))]
    /\ UNCHANGED phase

TwDeclare ==
    /\ TwStep /\ Facing(tw, {"function", "lambda"})
    /\ tw' = [tw EXCEPT !.stack = Advance(@)]
    /\ UNCHANGED phase

TwFail ==
    /\ TwStep /\ Facing(tw, {"fail"})
    /\ tw' = [tw EXCEPT !.raising = TRUE]
    /\ UNCHANGED phase

\* m_modules and m_loading_modules after the body of the innermost frame, which
\* keeps no place in either when the body is left by an error.
\* Mutant: a loaded module is not kept.
TwModules_Forgotten == tw.modules
TwModules == IF Len(tw.stack) = 1 THEN tw.modules ELSE tw.modules \cup {Top(tw).file}
TwLoading == IF Top(tw).kind = "body" THEN tw.loading \ {Top(tw).file} ELSE tw.loading

TwEnd ==
    /\ TwStep /\ tw.stack # <<>> /\ ~tw.raising /\ Top(tw).kind = "body" /\ Ended(Top(tw))
    /\ tw' = [tw EXCEPT !.stack = Front(@), !.log = Says(tw, "end"),
                        !.modules = TwModules, !.loading = TwLoading]
    /\ phase' = IF Len(tw.stack) = 1 THEN "vm" ELSE phase

TwUnwind ==
    /\ TwStep /\ tw.stack # <<>> /\ tw.raising
    /\ tw' = [Unwound(tw) EXCEPT !.loading = TwLoading]
    /\ phase' = IF Len(tw.stack) = 1 THEN "vm" ELSE phase

-----------------------------------------------------------------------------
(* The VM: VM::run goes through the initializers, an import in a function   *)
(* through those of the module it names (INIT_GLOBAL), each at most once.   *)

VmStep == phase = "vm" /\ UNCHANGED <<text, front, link, tw, phase>>
Started(i) == [kind |-> i.kind, file |-> i.file, at |-> 1, name |-> Here, todo |-> <<>>]

\* Mutant: it is run whenever it is asked for.
Initialize_Again(engine, i) ==
    [engine EXCEPT !.initialized = @ \cup {i}, !.stack = Append(@, Started(i))]

\* The initializer i is run unless initialized_functions has it.
Initialize(engine, i) ==
    IF i \in engine.initialized THEN engine
    ELSE [engine EXCEPT !.initialized = @ \cup {i}, !.stack = Append(@, Started(i))]

VmInitializer ==
    /\ VmStep /\ vm.stack = <<>> /\ vm.queue # <<>> /\ ~vm.failed
    /\ vm' = Initialize([vm EXCEPT !.queue = Tail(@)], Head(vm.queue))

\* __import_bindings__, and the function of a lambda run in place of the body.
VmOther ==
    /\ VmStep /\ vm.stack # <<>> /\ Top(vm).kind \in {"bindings", "lambda"}
    /\ vm' = [vm EXCEPT !.stack = Front(@),
                        !.log = IF Top(vm).kind = "lambda" THEN Says(vm, "lambda") ELSE @]

\* What is no instruction of the body, and the lambdas it makes.
VmPass ==
    /\ VmStep /\ Facing(vm, {"import", "function", "lambda"})
    /\ vm' = [vm EXCEPT !.stack = Advance(@)]

\* ResolvedVmImport.initializer_symbols of an import in a function.
ImportInitializers(module) == link.loaded[module]

VmCall ==
    /\ VmStep /\ Facing(vm, {"call", "test"})
    /\ LET callee == Target(Top(vm).file, Statement(vm))
           name == Statement(vm).name
       IN vm' = [vm EXCEPT !.stack = Append(@, Function(callee, name, ImportInitializers(At[callee, name])))]

\* One INIT_GLOBAL of an import in a function.
VmInitGlobal ==
    /\ VmStep /\ vm.stack # <<>> /\ ~vm.raising /\ Top(vm).kind = "function" /\ Top(vm).todo # <<>>
    /\ vm' = Initialize([vm EXCEPT !.stack = Append(Front(@), [Top(vm) EXCEPT !.todo = Tail(@)])],
                        Head(Top(vm).todo))

\* The members are bound and the function prints its line.
VmReturn ==
    /\ VmStep /\ vm.stack # <<>> /\ ~vm.raising /\ Top(vm).kind = "function" /\ Top(vm).todo = <<>>
    /\ vm' = [vm EXCEPT !.stack = Advance(Front(@)), !.log = Says(vm, Top(vm).name)]

VmFail ==
    /\ VmStep /\ Facing(vm, {"fail"})
    /\ vm' = [vm EXCEPT !.raising = TRUE]

VmEnd ==
    /\ VmStep /\ vm.stack # <<>> /\ ~vm.raising /\ Top(vm).kind = "body" /\ Ended(Top(vm))
    /\ vm' = [vm EXCEPT !.stack = Front(@), !.log = Says(vm, "end")]

VmUnwind ==
    /\ VmStep /\ vm.stack # <<>> /\ vm.raising
    /\ vm' = Unwound(vm)

-----------------------------------------------------------------------------
Init ==
    /\ phase = "write"
    /\ text = [f \in Files |-> <<>>]
    /\ front = [stack |-> <<>>, progress |-> {}, cache |-> {}, errors |-> {}]
    /\ link = [stack |-> <<>>, loading |-> {}, loaded |-> <<>>]
    /\ tw = [stack |-> <<>>, modules |-> {}, loading |-> {}, log |-> <<>>,
             raising |-> FALSE, failed |-> FALSE, unloadable |-> FALSE]
    /\ vm = [stack |-> <<>>, initialized |-> {}, queue |-> <<>>, log |-> <<>>,
             raising |-> FALSE, failed |-> FALSE]

Next ==
    \/ \E f \in Files, s \in Statements : Write(f, s)
    \/ Analyse \/ FollowImport \/ FinishUnit
    \/ LinkImport \/ LinkUnit
    \/ TwStart \/ TwBind \/ TwLoad \/ TwCall \/ TwDeclare \/ TwFail \/ TwEnd \/ TwUnwind
    \/ VmInitializer \/ VmOther \/ VmPass \/ VmCall \/ VmInitGlobal \/ VmReturn \/ VmFail \/ VmEnd \/ VmUnwind

Spec == Init /\ [][Next]_vars

-----------------------------------------------------------------------------
Bodies(engine) == LET bodies == SelectSeq(engine.stack, LAMBDA frame : frame.kind = "body")
                  IN [i \in DOMAIN bodies |-> bodies[i].file]
HasRun(engine, f) == <<f, "end">> \in Range(engine.log)
Needed(f) == {At[f, n] : n \in Range(TopLevel(text[f]))}

\* The state is well formed, and the sets that the recursions of analysis, linker
\* and loader keep beside them are the files those recursions are in the middle of.
TypeOK ==
    /\ phase \in {"write", "analyse", "rejected", "link", "refused", "tree walker", "vm"}
    /\ text \in [Files -> Seq(Statements)]
    /\ \A unit \in Range(front.stack \o link.stack) : unit \in [file : Files, todo : Seq(Names)]
    /\ phase = "analyse" => front.progress = {front.stack[i].file : i \in 2..Len(front.stack)}
    /\ phase = "link" => link.loading = {link.stack[i].file : i \in 2..Len(link.stack)}
    /\ phase = "tree walker" => tw.loading = Range(Bodies(tw)) \ {Root}
    /\ \A frame \in Range(tw.stack \o vm.stack) :
          frame.kind = "body" => frame.at \in 1..Len(text[frame.file]) + 1

\* The analysis reports a cycle exactly when the program can reach one, on
\* whatever paths and however often it meets the same file.
CyclesAreReported ==
    phase \in {"rejected", "link"} => ("cycle" \in front.errors <=> Cyclic(text))

\* What the analysis accepted loads: the linker refuses nothing, and the tree
\* walker meets no cycle, no missing module and no text it cannot parse.
AcceptedLoads == phase # "refused" /\ ~tw.unloadable

\* The engines print the same lines in the same order, and fail alike.
EnginesAgree ==
    phase = "vm" =>
        /\ IsPrefix(vm.log, tw.log)
        /\ vm.stack = <<>> /\ (vm.failed \/ vm.queue = <<>>) => vm.log = tw.log /\ vm.failed = tw.failed

\* In the VM a body runs only after every module its top level imports has run
\* to its end, and so do the members a function's import is about to bind.
ImportsAreReady ==
    /\ \A f \in Range(Bodies(vm)) : \A g \in Needed(f) : HasRun(vm, g)
    /\ \A frame \in Range(vm.stack) :
          frame.kind = "function" /\ frame.todo = <<>> /\ frame = Top(vm) /\ ~vm.raising =>
              HasRun(vm, At[frame.file, frame.name])

\* The analysis reports every cycle and nothing else that loads, and what it let through loads
\* in order: semantic_analysis.cpp, compiler.cpp and tree_walker_modules.cpp must agree on it.
ProgramsLoadAsAnalysed == TypeOK /\ CyclesAreReported /\ AcceptedLoads /\ ImportsAreReady

TwLoader == INSTANCE ModuleLoader WITH
    needs <- [f \in Files |-> Needed(f)], open <- Bodies(tw), ran <- {f \in Files : HasRun(tw, f)}
VmLoader == INSTANCE ModuleLoader WITH
    needs <- [f \in Files |-> Needed(f)], open <- Bodies(vm), ran <- {f \in Files : HasRun(vm, f)}

\* Both engines load modules as ModuleLoader says.
BothLoad == TwLoader!Spec /\ VmLoader!Spec
=============================================================================
