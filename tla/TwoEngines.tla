----------------------------- MODULE TwoEngines -----------------------------
(***************************************************************************)
(* The same program under the tree walker and under the VM, statement by   *)
(* statement.  The tree walker (environment.hpp, tree_walker_*.cpp) looks  *)
(* a name up in a chain of environments when it needs it; the VM (vm.cpp)  *)
(* follows the operand that NameLowering chose, through frames of slots    *)
(* and the cells that closures share.  Conditions and the lengths of       *)
(* iterables are arbitrary, and each value written is a new one.           *)
(***************************************************************************)
EXTENDS NameLowering, TLC

CONSTANTS MaxTurns,  \* turns of a loop
          MaxDepth,  \* calls under way
          MaxKept    \* functions kept in the list

VARIABLES
    program, scopes,  \* the text and, while it is written, the analysis' scopes
    code,             \* what it was lowered to, <<>> while it is written
    pc,               \* the next statement, 0 while the text is written
    control,          \* statements and calls under way, innermost last
    tw,               \* tree walker: its environments and m_env
    vm,               \* VM: its frames, cells and globals
    closures, kept,   \* every function value made; those in the list
    clock             \* values written so far

vars == <<program, scopes, code, pc, control, tw, vm, closures, kept, clock>>

Rien         == <<"rien", 0>>
Written(k)   == <<"valeur", k>>
Index(k)     == <<"indice", k>>
Closure(c)   == <<"fonction", c>>

-----------------------------------------------------------------------------
(* The tree walker.  Environments are numbered as they are made; 1 holds   *)
(* the globals and 0 is no parent.                                         *)

TwFind(from, n) ==
    LET up[e \in 0..Len(tw.envs)] ==
            IF e = 0 \/ n \in DOMAIN tw.envs[e].values THEN e ELSE up[tw.envs[e].parent]
    IN up[from]

\* Environment::get; Rien stands for the failure of a name found nowhere.
TwGet(from, n) == IF TwFind(from, n) = 0 THEN Rien ELSE tw.envs[TwFind(from, n)].values[n]

\* Environment::define
TwDefine(n, v) == [tw EXCEPT !.envs[tw.env].values = @ @@ (n :> v)]

\* Environment::assign
TwAssign(n, v) == [tw EXCEPT !.envs[TwFind(tw.env, n)].values[n] = v]

Environment(parent, values) == [parent |-> parent, values |-> values]

\* ScopeGuards: an environment with `values`, when the statement binds a name,
\* and the one of the block that is its body.
TwEnter(parent, values, own) ==
    LET first == IF own THEN <<Environment(parent, values)>> ELSE <<>>
        block == Environment(IF own THEN Len(tw.envs) + 1 ELSE parent, <<>>)
    IN [envs |-> tw.envs \o first \o <<block>>, env |-> Len(tw.envs) + Len(first) + 1]

-----------------------------------------------------------------------------
(* The VM.                                                                 *)

EmptySlot    == [value |-> Rien, cell |-> 0]
Slots(n)     == [i \in 1..n |-> EmptySlot]
Frame(n, captures) == [locals |-> Slots(n), captures |-> captures]
Top(m)       == Last(m.frames)
SlotOf(m, o) == Top(m).locals[o.index]

\* Mutant: a slot whose value has moved to a cell is still read itself.
VmLoad_IgnoresCell(m, o) ==
    CASE o.space = "global"  -> m.globals[o.index]
      [] o.space = "capture" -> m.cells[Top(m).captures[o.index]]
      [] OTHER -> SlotOf(m, o).value

\* GET_LOCAL, GET_CAPTURE, GET_GLOBAL
VmLoad(m, o) ==
    CASE o.space = "global"  -> m.globals[o.index]
      [] o.space = "capture" -> m.cells[Top(m).captures[o.index]]
      [] OTHER -> IF SlotOf(m, o).cell = 0 THEN SlotOf(m, o).value ELSE m.cells[SlotOf(m, o).cell]

\* SET_LOCAL, SET_CAPTURE, SET_GLOBAL
VmStore(m, o, v) ==
    CASE o.space = "global"  -> [m EXCEPT !.globals[o.index] = v]
      [] o.space = "capture" -> [m EXCEPT !.cells[Top(m).captures[o.index]] = v]
      [] OTHER -> IF SlotOf(m, o).cell = 0
                  THEN [m EXCEPT !.frames[Len(m.frames)].locals[o.index].value = v]
                  ELSE [m EXCEPT !.cells[SlotOf(m, o).cell] = v]

\* LocalSlot::capture: the first capture of a slot moves its value to a cell.
CaptureSlot(m, o) ==
    IF o.space = "capture" \/ SlotOf(m, o).cell # 0 THEN m
    ELSE [m EXCEPT !.frames[Len(m.frames)].locals[o.index] = [value |-> Rien, cell |-> Len(m.cells) + 1],
                   !.cells = Append(@, SlotOf(m, o).value)]

CellOf(m, o) == IF o.space = "capture" THEN Top(m).captures[o.index] ELSE SlotOf(m, o).cell

\* CLEAR_LOCALS
ClearLocals(m, first, count) ==
    [m EXCEPT !.frames[Len(m.frames)].locals =
        [i \in DOMAIN @ |-> IF i \in first..first + count - 1 THEN EmptySlot ELSE @[i]]]

-----------------------------------------------------------------------------
Init ==
    /\ program = <<>> /\ code = <<>> /\ pc = 0
    /\ scopes = <<Scope("FunctionDecl", {})>>
    /\ control = <<>>
    /\ tw = [envs |-> <<Environment(0, [n \in Globals |-> Written(0)]),
                        Environment(1, <<>>), Environment(2, <<>>)>>,
             env  |-> 3]
    /\ vm = [frames |-> <<>>, cells |-> <<>>, globals |-> [n \in Globals |-> Written(0)]]
    /\ closures = <<>> /\ kept = <<>> /\ clock = 1

engines == <<control, tw, vm, closures, kept, clock>>

\* The text grows by a statement that the analysis accepts.
Write(t) ==
    /\ pc = 0
    /\ Accepts(scopes, program, t)
    /\ program' = Append(program, t) /\ scopes' = After(scopes, t)
    /\ UNCHANGED <<code, pc, engines>>

\* Lowering, and the frame of principal.
Compile ==
    /\ pc = 0 /\ Len(scopes) = 1
    /\ LET lowered == Lower(program)
       IN /\ code' = lowered.code
          /\ vm' = [vm EXCEPT !.frames = <<Frame(lowered.lowerers[1].slots, <<>>)>>]
    /\ pc' = 1
    /\ UNCHANGED <<program, scopes, control, tw, closures, kept, clock>>

-----------------------------------------------------------------------------
At(op) == pc \in DOMAIN program /\ program[pc].op = op
Here   == program[pc]
Instr  == code[pc]
text   == <<program, scopes, code>>

VarDecl ==
    /\ At("VarDecl")
    /\ LET value(read) == IF Here.param = NoName THEN Written(clock) ELSE read
       IN /\ tw' = TwDefine(Here.name, value(TwGet(tw.env, Here.param)))
          /\ vm' = VmStore(vm, Instr.operand, IF Here.param = NoName THEN Written(clock)
                                              ELSE VmLoad(vm, Instr.source))
    /\ clock' = clock + 1 /\ pc' = pc + 1
    /\ UNCHANGED <<text, control, closures, kept>>

Assign ==
    /\ At("Assign")
    /\ tw' = TwAssign(Here.name, Written(clock))
    /\ vm' = VmStore(vm, Instr.operand, Written(clock))
    /\ clock' = clock + 1 /\ pc' = pc + 1
    /\ UNCHANGED <<text, control, closures, kept>>

Identifier ==
    /\ At("Identifier")
    /\ pc' = pc + 1
    /\ UNCHANGED <<text, engines>>

\* A function remembers m_env in one engine and its captures' cells in the other.
FunctionDecl ==
    /\ At("FunctionDecl")
    /\ LET sources  == [c \in DOMAIN Instr.captures |-> Instr.captures[c].from]
           captured == FoldLeft(CaptureSlot, vm, sources)
           made == Closure(Len(closures) + 1)
       IN /\ closures' = Append(closures,
                [at |-> pc, env |-> tw.env,
                 captures |-> [c \in DOMAIN sources |-> CellOf(captured, sources[c])]])
          /\ tw' = TwDefine(Here.name, made)
          /\ vm' = VmStore(captured, Instr.operand, made)
    /\ pc' = Instr.close + 1
    /\ UNCHANGED <<text, control, kept, clock>>

Keep ==
    /\ At("Keep") /\ Len(kept) < MaxKept
    /\ kept' = Append(kept, TwGet(tw.env, Here.name)[2])
    /\ pc' = pc + 1
    /\ UNCHANGED <<text, control, tw, vm, closures, clock>>

-----------------------------------------------------------------------------
Entry(kind, closure) == [kind |-> kind, at |-> pc, env |-> tw.env, turns |-> 1, closure |-> closure]

\* call_user_function and push_call_frame: the argument is a new value.
Enter(c) ==
    LET callee == closures[c]
        head   == program[callee.at]
        frame  == Frame(code[callee.at].slots, callee.captures)
        argument == [n \in Named(head.param) |-> Written(clock)]
    IN /\ Len(vm.frames) < MaxDepth
       /\ control' = Append(control, Entry("Call", c))
       /\ tw' = TwEnter(callee.env, argument, TRUE)
       /\ vm' = [vm EXCEPT !.frames = Append(@,
                    IF head.param = NoName THEN frame ELSE [frame EXCEPT !.locals[1].value = Written(clock)])]
       /\ clock' = clock + 1 /\ pc' = callee.at + 1
       /\ UNCHANGED <<text, closures, kept>>

Call     == At("Call") /\ Enter(TwGet(tw.env, Here.name)[2])
CallKept == At("CallKept") /\ \E i \in DOMAIN kept : Enter(kept[i])

\* Execution goes on at `to`, outside the k-th entry of control: the scope
\* guards in between have restored m_env.
Leave(k, to) ==
    /\ control' = SubSeq(control, 1, k - 1)
    /\ tw' = [tw EXCEPT !.env = control[k].env]
    /\ pc' = to

CurrentCall == SelectLastInSeq(control, LAMBDA e : e.kind = "Call")
CurrentLoop == SelectLastInSeq(control, LAMBDA e : e.kind \in Loops)

\* retour, or the end of the body; principal's ends the program.
Return ==
    /\ At("Return") \/ (At("End") /\ control # <<>> /\ Last(control).kind = "Call")
    /\ IF CurrentCall = 0
       THEN /\ pc' = Len(program) + 1 /\ control' = <<>>
            /\ UNCHANGED <<tw, vm>>
       ELSE /\ Leave(CurrentCall, control[CurrentCall].at + 1)
            /\ vm' = [vm EXCEPT !.frames = Front(@)]
    /\ UNCHANGED <<text, closures, kept, clock>>

-----------------------------------------------------------------------------
EnterIf ==
    /\ At("If")
    /\ control' = Append(control, Entry("If", 0))
    /\ tw' = TwEnter(tw.env, <<>>, FALSE)
    /\ pc' = pc + 1
    /\ UNCHANGED <<text, vm, closures, kept, clock>>

SkipIf ==
    /\ At("If")
    /\ pc' = Instr.close + 1
    /\ UNCHANGED <<text, engines>>

EndIf ==
    /\ At("End") /\ control # <<>> /\ Last(control).kind = "If"
    /\ Leave(Len(control), pc + 1)
    /\ UNCHANGED <<text, vm, closures, kept, clock>>

\* $index, the slot before the item's.
IndexSlot(head) == Local(code[head].operand.index - 1)

\* The top of a loop's body: new environments, emptied slots, the next item.
BeginTurn(head, m, outer) ==
    LET isFor   == program[head].op = "For"
        item    == Written(clock)
        emptied == ClearLocals(m, code[head].first, code[head].count)
    IN /\ tw' = TwEnter(outer, IF isFor THEN program[head].name :> item ELSE <<>>, isFor)
       /\ vm' = IF isFor THEN VmStore(emptied, code[head].operand, item) ELSE emptied
       /\ clock' = clock + 1 /\ pc' = head + 1

StartLoop ==
    /\ At("While") \/ At("For")
    /\ control' = Append(control, Entry(Here.op, 0))
    /\ BeginTurn(pc, IF Here.op = "For" THEN VmStore(vm, IndexSlot(pc), Index(1)) ELSE vm, tw.env)
    /\ UNCHANGED <<text, closures, kept>>

SkipLoop ==
    /\ At("While") \/ At("For")
    /\ pc' = Instr.close + 1
    /\ UNCHANGED <<text, engines>>

\* The end of the body or continuer: the innermost loop decides what is next.
EndOfTurn ==
    \/ At("End") /\ control # <<>> /\ Last(control).kind \in Loops
    \/ At("Continue")

NextTurn ==
    /\ EndOfTurn
    /\ LET loop == control[CurrentLoop]
           next == IF loop.kind = "For"
                   THEN VmStore(vm, IndexSlot(loop.at), Index(VmLoad(vm, IndexSlot(loop.at))[2] + 1))
                   ELSE vm
       IN /\ loop.turns < MaxTurns
          /\ control' = [SubSeq(control, 1, CurrentLoop) EXCEPT ![CurrentLoop].turns = @ + 1]
          /\ BeginTurn(loop.at, next, loop.env)
    /\ UNCHANGED <<text, closures, kept>>

LeaveLoop ==
    /\ EndOfTurn \/ At("Break")
    /\ Leave(CurrentLoop, code[control[CurrentLoop].at].close + 1)
    /\ UNCHANGED <<text, vm, closures, kept, clock>>

-----------------------------------------------------------------------------
Next ==
    \/ \E t \in Tokens : Write(t)
    \/ Compile
    \/ VarDecl \/ Assign \/ Identifier \/ FunctionDecl \/ Keep
    \/ Call \/ CallKept \/ Return
    \/ EnterIf \/ SkipIf \/ EndIf
    \/ StartLoop \/ SkipLoop \/ NextTurn \/ LeaveLoop

Spec == Init /\ [][Next]_vars

-----------------------------------------------------------------------------
Values == {Rien} \cup {Written(k) : k \in 0..clock} \cup {Index(k) : k \in 1..MaxTurns}
          \cup {Closure(c) : c \in DOMAIN closures}
CellIds == DOMAIN vm.cells

\* The state of both engines is well formed: environments point to older ones,
\* slots and captures to cells that exist, and every statement's operand is a
\* slot or a capture of the frame that executes it.
TypeOK ==
    /\ \A e \in DOMAIN tw.envs : tw.envs[e].parent \in 0..e - 1
    /\ \A e \in DOMAIN tw.envs : \A n \in DOMAIN tw.envs[e].values : tw.envs[e].values[n] \in Values
    /\ tw.env \in DOMAIN tw.envs
    /\ vm.cells \in Seq(Values)
    /\ \A f \in DOMAIN vm.frames :
          /\ \A i \in DOMAIN vm.frames[f].locals :
                vm.frames[f].locals[i] \in [value : Values, cell : {0} \cup CellIds]
          /\ \A c \in DOMAIN vm.frames[f].captures : vm.frames[f].captures[c] \in CellIds
    /\ \A c \in DOMAIN kept : kept[c] \in DOMAIN closures
    /\ pc \in DOMAIN program =>
          /\ Instr.operand.space = "local" => Instr.operand.index \in DOMAIN Top(vm).locals
          /\ Instr.operand.space = "capture" => Instr.operand.index \in DOMAIN Top(vm).captures

\* Whatever name a statement uses, both engines find the same value in it.
UsesAgree ==
    pc \in DOMAIN program =>
        /\ Here.op \in Uses => TwGet(tw.env, Here.name) = VmLoad(vm, Instr.operand)
        /\ Here.op = "VarDecl" /\ Here.param # NoName =>
              TwGet(tw.env, Here.param) = VmLoad(vm, Instr.source)

\* Every function still sees, in the cells it captured, what the tree walker
\* finds from the environment it was made in: made in different turns of a loop
\* or different calls, two functions share a variable exactly when it is one.
CapturesAgree ==
    \A c \in DOMAIN closures :
        LET captured == code[closures[c].at].captures
        IN \A k \in DOMAIN captured :
               TwGet(closures[c].env, captured[k].name) = vm.cells[closures[c].captures[k]]

\* The names of a program mean the same variables in both engines: at its uses, and in the
\* functions it has made and may call later (vm.cpp, ast_to_lir.cpp; environment.hpp).
EnginesAgree == TypeOK /\ UsesAgree /\ CapturesAgree
=============================================================================
