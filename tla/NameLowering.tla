---------------------------- MODULE NameLowering ----------------------------
(***************************************************************************)
(* How ast_to_lir.cpp turns names into operands: a stack of                *)
(* FunctionLowerers goes over the text once, giving every declaration a    *)
(* slot of its function's frame and every use a slot, a capture or a       *)
(* global.                                                                 *)
(***************************************************************************)
EXTENDS Integers, Sequences, SequencesExt, FiniteSetsExt

(***************************************************************************)
(* The programs whose names the two engines have to resolve alike: the     *)
(* body of a function `principal`, as a sequence of tokens in the order of *)
(* the text, and what semantic_analysis.cpp accepts of it.  Values are     *)
(* left out: a declaration or an assignment gives a value of its own.      *)
(***************************************************************************)
CONSTANTS
    Tokens,         \* the statements a program is written with
    Globals,        \* variables of the module
    NoName,
    MaxLength,      \* longest program
    LateShadowing,  \* may a scope declare a name a closure in it looks up beyond it?
    SelfNaming      \* may an initializer read the name it declares?

Loops   == {"While", "For"}
Openers == Loops \cup {"If", "FunctionDecl"}
Exits   == {"Break", "Continue", "Return"}
Uses    == {"Identifier", "Assign", "Call", "Keep"}
Plain   == Exits \cup {"CallKept", "End"}

(***************************************************************************)
(* A token is a statement, the head of one with a body, or an End.         *)
(*   VarDecl       soit name = param, or an initializer without a name     *)
(*   FunctionDecl  fonction name(param) {   -- or a lambda so named        *)
(*   For           pour chaque name dans ... {                             *)
(*   Keep          stores function name in a list; CallKept calls one      *)
(***************************************************************************)
ASSUME TokensAssumption ==
    \A t \in Tokens : t.op \in Uses \cup Openers \cup Plain \cup {"VarDecl"}
ASSUME GlobalsAssumption == NoName \notin Globals

(***************************************************************************)
(* m_scopes of the analysis.  `asked` are the names that a function inside *)
(* the scope looks up beyond it.                                           *)
(***************************************************************************)
Scope(kind, vars) == [kind |-> kind, vars |-> vars, funs |-> {}, asked |-> {}]
Named(n) == {n} \ {NoName}

Declared(scope) == scope.vars \cup scope.funs

\* find_local_value: the innermost scope that declares n, 0 for the module's.
Home(scopes, n) == SelectLastInSeq(scopes, LAMBDA s : n \in Declared(s))

IsVariable(scopes, n) ==
    LET home == Home(scopes, n) IN IF home = 0 THEN n \in Globals ELSE n \in scopes[home].vars

IsFunction(scopes, n) ==
    LET home == Home(scopes, n) IN home # 0 /\ n \in scopes[home].funs

\* A use of n: what is asked of the scopes between it and the declaration.
Asking(scopes, n) ==
    [k \in DOMAIN scopes |->
        IF k > Home(scopes, n) /\ \E j \in k + 1..Len(scopes) : scopes[j].kind = "FunctionDecl"
        THEN [scopes[k] EXCEPT !.asked = @ \cup Named(n)] ELSE scopes[k]]

\* declare_local: LUM-S0007 when the scope has the name already.
Declarable(scopes, n) ==
    /\ n \notin Declared(Last(scopes))
    /\ LateShadowing \/ n \notin Last(scopes).asked

\* The scopes of the current function, innermost last.
InLoop(scopes) ==
    LET function == SelectLastInSeq(scopes, LAMBDA s : s.kind = "FunctionDecl")
    IN \E k \in function + 1..Len(scopes) : scopes[k].kind \in Loops

\* Whether token t may come next, after the tokens of program.
Accepts(scopes, program, t) ==
    /\ program # <<>> /\ Last(program).op \in Exits => t.op = "End"
    /\ Len(program) + Len(scopes) + (IF t.op \in Openers THEN 1 ELSE 0) <= MaxLength + (IF t.op = "End" THEN 1 ELSE 0)
    /\ t.op = "VarDecl" => /\ Declarable(scopes, t.name)
                           /\ t.param # NoName => IsVariable(scopes, t.param)
                           /\ t.param = t.name => SelfNaming
    /\ t.op = "FunctionDecl" => Declarable(scopes, t.name)
    /\ t.op = "Identifier" => IsVariable(scopes, t.name) \/ IsFunction(scopes, t.name)
    /\ t.op = "Assign" => IsVariable(scopes, t.name)
    /\ t.op \in {"Call", "Keep"} => IsFunction(scopes, t.name)
    /\ t.op \in {"Break", "Continue"} => InLoop(scopes)
    /\ t.op = "End" => Len(scopes) > 1

\* The scopes after it.
After(scopes, t) ==
    LET here == Len(scopes) IN
    CASE t.op = "VarDecl" -> [Asking(scopes, t.param) EXCEPT ![here].vars = @ \cup {t.name}]
      [] t.op = "FunctionDecl" -> Append([scopes EXCEPT ![here].funs = @ \cup {t.name}],
                                         Scope(t.op, Named(t.param)))
      [] t.op = "For" -> Append(scopes, Scope(t.op, {t.name}))
      [] t.op \in {"If", "While"} -> Append(scopes, Scope(t.op, {}))
      [] t.op = "End" -> Front(scopes)
      [] t.op \in Uses -> Asking(scopes, t.name)
      [] OTHER -> scopes

-----------------------------------------------------------------------------

Local(i)   == [space |-> "local", index |-> i]
Capture(i) == [space |-> "capture", index |-> i]
Global(n)  == [space |-> "global", index |-> n]

(***************************************************************************)
(* A FunctionLowerer.  m_locals_by_name and m_scope_stack are one list of  *)
(* bindings in the order of their declaration, cut back to a mark at the   *)
(* end of a scope; slots is m_next_local_index, never given back.          *)
(***************************************************************************)
Lowerer(params) == [bindings |-> [i \in DOMAIN params |-> [name |-> params[i], slot |-> i]],
                    marks    |-> <<>>,
                    slots    |-> Len(params),
                    captures |-> <<>>]

Params(t) == IF t.param = NoName THEN <<>> ELSE <<t.param>>

lookup_local(lowerer, n) == SelectLastInSeq(lowerer.bindings, LAMBDA b : b.name = n)
CaptureOf(lowerer, n)    == SelectInSeq(lowerer.captures, LAMBDA c : c.name = n)

Found(lowerer, n) ==
    IF lookup_local(lowerer, n) # 0 THEN Local(lowerer.bindings[lookup_local(lowerer, n)].slot)
                                    ELSE Capture(CaptureOf(lowerer, n))

Holder(lowerers, n) ==
    SelectLastInSeq(lowerers, LAMBDA l : lookup_local(l, n) # 0 \/ CaptureOf(l, n) # 0)

\* resolve_capture, resolve_for_child and add_capture: every function between
\* the one that has the name and the current one captures it from its parent.
Captured(lowerers, n) ==
    LET holder  == Holder(lowerers, n)
        from(k) == IF k = holder + 1 THEN Found(lowerers[holder], n)
                                     ELSE Capture(Len(lowerers[k - 1].captures) + 1)
        capturing(k) == [lowerers[k] EXCEPT !.captures = Append(@, [name |-> n, from |-> from(k)])]
    IN IF holder = 0 THEN lowerers
       ELSE SubSeq(lowerers, 1, holder)
            \o [i \in 1..Len(lowerers) - holder |-> capturing(holder + i)]

Operand(lowerers, n) ==
    IF Holder(lowerers, n) = 0 THEN Global(n) ELSE Found(Last(Captured(lowerers, n)), n)

\* m_next_local_index++ and declare_binding, past hidden slots if any.
Declare(lowerers, n, hidden) ==
    LET here == Len(lowerers)
        slot == lowerers[here].slots + hidden + 1
    IN [lowerers EXCEPT ![here].slots = slot,
                        ![here].bindings = Append(@, [name |-> n, slot |-> slot])]

begin_scope(lowerers) == [lowerers EXCEPT ![Len(lowerers)].marks =
                              Append(@, Len(lowerers[Len(lowerers)].bindings))]

leave_scope(lowerers) ==
    LET here == Last(lowerers)
    IN [lowerers EXCEPT ![Len(lowerers)].bindings = SubSeq(@, 1, Last(here.marks)),
                        ![Len(lowerers)].marks = Front(@)]

(***************************************************************************)
(* What is emitted for a token: the operand it declares or uses, the       *)
(* operand of its initializer, and for one with a body where this ends,    *)
(* with the slots and captures of a function or the slots that             *)
(* CLEAR_LOCALS empties at the top of a loop's body.                       *)
(***************************************************************************)
Emitted == [operand |-> Global(NoName), source |-> Global(NoName), close |-> 0,
            slots |-> 0, captures |-> <<>>, first |-> 0, count |-> 0]

Emit(lowering, lowerers, instruction) ==
    [lowering EXCEPT !.lowerers = lowerers, !.code = Append(@, instruction)]

\* VarDeclStmt: the name is bound before its initializer is lowered.
LowerVarDecl(lowering, t) ==
    LET bound == Declare(lowering.lowerers, t.name, 0)
    IN Emit(lowering, Captured(bound, t.param),
            [Emitted EXCEPT !.operand = Local(Last(bound).slots), !.source = Operand(bound, t.param)])

LowerUse(lowering, t) ==
    Emit(lowering, Captured(lowering.lowerers, t.name),
         [Emitted EXCEPT !.operand = Operand(lowering.lowerers, t.name)])

Open(lowering, lowerers, instruction, t) ==
    [Emit(lowering, lowerers, instruction) EXCEPT
        !.open = Append(@, [at |-> Len(lowering.code) + 1, op |-> t.op])]

\* FunctionDeclStmt and lower_closure.
LowerFunction(lowering, t) ==
    LET bound == Declare(lowering.lowerers, t.name, 0)
    IN Open(lowering, Append(bound, Lowerer(Params(t))),
            [Emitted EXCEPT !.operand = Local(Last(bound).slots)], t)

\* IfStmt and WhileStmt, whose body is a scope.
LowerBlock(lowering, t) ==
    Open(lowering, begin_scope(lowering.lowerers),
         [Emitted EXCEPT !.first = Last(lowering.lowerers).slots + 1], t)

\* ForStmt keeps $iter and $index in slots of their own, before the item's.
LowerFor(lowering, t) ==
    LET bound == Declare(begin_scope(lowering.lowerers), t.name, 2)
        item  == Last(bound).slots
    IN Open(lowering, bound, [Emitted EXCEPT !.operand = Local(item), !.first = item], t)

\* clear_body_locals: from the first slot of the body to the last one given out.
ClearCount(first, slots) == slots + 1 - first

LowerEnd(lowering) ==
    LET opened  == Last(lowering.open)
        inner   == Last(lowering.lowerers)
        here    == Len(lowering.code) + 1
        isFunction == opened.op = "FunctionDecl"
        closed  == IF isFunction
                   THEN [lowering.code EXCEPT ![opened.at].close = here, ![opened.at].slots = inner.slots,
                            ![opened.at].captures = inner.captures]
                   ELSE [lowering.code EXCEPT ![opened.at].close = here,
                            ![opened.at].count = ClearCount(lowering.code[opened.at].first, inner.slots)]
    IN [lowerers |-> IF isFunction THEN Front(lowering.lowerers) ELSE leave_scope(lowering.lowerers),
        open     |-> Front(lowering.open),
        code     |-> Append(closed, Emitted)]

LowerToken(lowering, t) ==
    CASE t.op = "VarDecl"        -> LowerVarDecl(lowering, t)
      [] t.op \in Uses           -> LowerUse(lowering, t)
      [] t.op = "FunctionDecl"   -> LowerFunction(lowering, t)
      [] t.op \in {"If", "While"} -> LowerBlock(lowering, t)
      [] t.op = "For"            -> LowerFor(lowering, t)
      [] t.op = "End"            -> LowerEnd(lowering)
      [] OTHER                   -> Emit(lowering, lowering.lowerers, Emitted)

Lower(program) ==
    FoldLeft(LowerToken, [lowerers |-> <<Lowerer(<<>>)>>, open |-> <<>>, code |-> <<>>], program)
=============================================================================
