------------------------- MODULE ResultObligations --------------------------
(***************************************************************************)
(* Every Résultat a function obtains has to be used.  The analysis walks   *)
(* the body of a function once, in the order of the text, and keeps an     *)
(* obligation for every Résultat given to a variable: open until the       *)
(* variable is read, shared by the variables it is copied to, carried      *)
(* along the branches and reported where a scope or the function is left   *)
(* with it.  A body that it accepts then runs: its conditions go either    *)
(* way and its loops turn as often as they like.                           *)
(*                                                                         *)
(* Every variable of the body holds a Résultat: the analysis keeps no      *)
(* obligation for the others.  A statement is one of                       *)
(*   soit       soit name = appel(), or = from, another variable           *)
(*   affecte    name = appel(), or = from                                  *)
(*   utilise    ignorer name, or name passed to a call                     *)
(*   propager   appel() ou propager                                        *)
(*   bloc       { ... }                                                    *)
(*   si         si ... { ... sinon ... }                                   *)
(*   boucle     tant que ... { ... }, or pour chaque ... { ... }           *)
(*   agir       agir selon name { Succès ... autre (Échec) ... }           *)
(* or arreter, continuer, retourne; fin closes what is open.               *)
(***************************************************************************)
EXTENDS Naturals, Sequences

CONSTANTS Names,       \* the variables of the body
          Appel,       \* what a variable is given when it is the Résultat of a call
          MaxLength,   \* statements of a body
          MaxMade      \* Résultats that a run obtains

ASSUME ResultsAssumption == Appel \notin Names /\ MaxLength \in Nat /\ MaxMade \in Nat

VARIABLES
    program,    \* the statements written so far
    scopes,     \* m_scopes, with the state of obligations kept for what each closes
    active,     \* m_obligations: whether each is open
    verdict,    \* "walking", "accepted" or "refused"
    steady,     \* no Résultat moves where the walk loses sight of it
    pc,         \* the statement that is executed
    env,        \* the environments of the run, one per scope
    pending     \* the Résultats obtained and never used, and how many were obtained

walkVars == <<program, scopes, active, verdict, steady>>
runVars  == <<pc, env, pending>>
vars     == <<walkVars, runVars>>

Openers == {"bloc", "si", "boucle", "agir"}
Branching == {"si", "boucle", "agir"}
Exits   == {"arreter", "continuer", "retourne"}

-----------------------------------------------------------------------------
(* The scopes of the walk.  `at` is the statement that opened one, and     *)
(* `baseline` the obligations open before it; `paths` are those left open  *)
(* by the branches that are closed.                                        *)

Statement(op, name, from) == [op |-> op, name |-> name, from |-> from, other |-> 0, close |-> 0]
Scope(op, at, baseline) == [op |-> op, at |-> at, vars |-> <<>>, baseline |-> baseline, paths |-> {}]
Bind(vars_, name, value) == [n \in DOMAIN vars_ \cup {name} |-> IF n = name THEN value ELSE vars_[n]]

Front(s) == SubSeq(s, 1, Len(s) - 1)
Inner(stack) == stack[Len(stack)]

\* find_local_value_mutable; 0 when no scope has the name.
Homes(stack, name) == {k \in DOMAIN stack : name \in DOMAIN stack[k].vars}
Home(stack, name) == IF Homes(stack, name) = {} THEN 0 ELSE CHOOSE k \in Homes(stack, name) : \A j \in Homes(stack, name) : j <= k
Known(stack, name) == Homes(stack, name) # {}
Value(stack, name) == stack[Home(stack, name)].vars[name]

Owners(stack, id) == {k \in DOMAIN stack : \E n \in DOMAIN stack[k].vars : stack[k].vars[n] = id}
OtherOwner(id, name) ==
    \E k \in DOMAIN scopes : \E n \in DOMAIN scopes[k].vars :
        scopes[k].vars[n] = id /\ ~(k = Home(scopes, name) /\ n = name)

\* pop_scope: an open obligation that no scope further out owns is reported.
LostByPop == \E n \in DOMAIN Inner(scopes).vars :
    LET id == Inner(scopes).vars[n] IN active[id] /\ \A k \in Owners(scopes, id) : k = Len(scopes)

\* diagnose_active_obligations
OpenInScopes == \E k \in DOMAIN scopes : \E n \in DOMAIN scopes[k].vars : active[scopes[k].vars[n]]

InLoop(stack) == \E k \in DOMAIN stack : stack[k].op = "boucle"
LoopOf(stack) == CHOOSE k \in DOMAIN stack : stack[k].op = "boucle" /\ \A j \in DOMAIN stack : stack[j].op = "boucle" => j <= k
\* diagnose_new_loop_obligations
OpenSinceLoop ==
    LET before == scopes[LoopOf(scopes)].baseline
    IN \E id \in DOMAIN active : active[id] /\ ~(id \in DOMAIN before /\ before[id])

\* restore_obligation_state: those created since are left as they are.
Restored(baseline) == [id \in DOMAIN active |-> IF id \in DOMAIN baseline THEN baseline[id] ELSE active[id]]
\* Mutant: an obligation stays open only if every branch leaves it open.
MergedWhenAllAgree(baseline, paths) ==
    [id \in DOMAIN active |-> IF id \in DOMAIN baseline THEN \A path \in paths : path[id] ELSE active[id]]
\* merge_obligation_states
Merged(baseline, paths) ==
    [id \in DOMAIN active |-> IF id \in DOMAIN baseline THEN \E path \in paths : path[id] ELSE active[id]]

-----------------------------------------------------------------------------
(* The walk.  A body is left out when a statement follows an exit in its   *)
(* block, or when there is no room left to close what is open.             *)
Writable(op) ==
    /\ verdict = "walking"
    /\ program # <<>> /\ Inner(program).op \in Exits => op \in {"fin", "sinon", "autre"}
    /\ Len(program) + Len(scopes) + (IF op \in Openers THEN 1 ELSE 0) <= MaxLength + (IF op = "fin" THEN 1 ELSE 0)

Written(op, name, from) == program' = Append(program, Statement(op, name, from))
Walks == UNCHANGED runVars
\* The first diagnosis ends the walk: what follows it changes nothing to the verdict.
Refuse == verdict' = "refused" /\ UNCHANGED <<scopes, active, steady>>
Goes == verdict' = verdict
\* A statement whose check failed, or the walk after it.
Judged(lost, scopes_, active_) ==
    IF lost THEN Refuse ELSE scopes' = scopes_ /\ active' = active_ /\ Goes /\ UNCHANGED steady

\* What the obligations are when the right-hand side has been read, and once the variable has its own.
Read(from) == IF from = Appel THEN active ELSE [active EXCEPT ![Value(scopes, from)] = FALSE]
Given(stack, from, read) ==
    IF from = Appel THEN [id |-> Len(read) + 1, active |-> Append(read, TRUE)]
    ELSE [id |-> Value(stack, from), active |-> [read EXCEPT ![Value(stack, from)] = TRUE]]

WriteDeclaration(name, from) ==
    /\ Writable("soit")
    /\ name \notin DOMAIN Inner(scopes).vars
    /\ from # Appel => from # name /\ Known(scopes, from)
    /\ LET given == Given(scopes, from, Read(from)) IN
       Judged(FALSE, [scopes EXCEPT ![Len(scopes)].vars = Bind(@, name, given.id)], given.active)
    /\ Written("soit", name, from) /\ Walks

\* The scope that the innermost branch or loop opened.
Branch(stack) == {k \in DOMAIN stack : stack[k].op \in Branching}
OwnedByBranch(name) == \A k \in Branch(scopes) : k <= Home(scopes, name)

\* LUM-S0030
WriteAssignment(name, from) ==
    /\ Writable("affecte") /\ Known(scopes, name)
    /\ from # Appel => from # name /\ Known(scopes, from)
    /\ LET read  == Read(from)
           given == Given(scopes, from, read)
           id    == Value(scopes, name)
       IN IF read[id] /\ ~OtherOwner(id, name) THEN Refuse
          ELSE /\ scopes' = [scopes EXCEPT ![Home(scopes, name)].vars = Bind(@, name, given.id)]
               /\ active' = given.active
               /\ steady' = (steady /\ OwnedByBranch(name)) /\ Goes
    /\ Written("affecte", name, from) /\ Walks

WriteUse(name) ==
    /\ Writable("utilise") /\ Known(scopes, name)
    /\ Judged(FALSE, scopes, Read(name))
    /\ Written("utilise", name, Appel) /\ Walks

\* validate_propagation: the function may be left here.
WritePropagation ==
    /\ Writable("propager")
    /\ Judged(OpenInScopes, scopes, active)
    /\ Written("propager", Appel, Appel) /\ Walks

WriteOpener(op) ==
    /\ op \in Openers \ {"agir"} /\ Writable(op)
    /\ Judged(FALSE, Append(scopes, Scope(op, Len(program) + 1, active)), active)
    /\ Written(op, Appel, Appel) /\ Walks

WriteMatch(name) ==
    /\ Writable("agir") /\ Known(scopes, name)
    /\ Judged(FALSE, Append(scopes, Scope("agir", Len(program) + 1, Read(name))), Read(name))
    /\ Written("agir", name, Appel) /\ Walks

\* The first branch of a condition or of a match is closed and the second opens.
WriteOther(op) ==
    LET closing == Inner(scopes) IN
    /\ Writable(op) /\ Len(scopes) > 1 /\ closing.paths = {}
    /\ closing.op = (IF op = "sinon" THEN "si" ELSE "agir")
    /\ IF LostByPop THEN Refuse
       ELSE /\ scopes' = [scopes EXCEPT ![Len(scopes)] = [@ EXCEPT !.vars = <<>>, !.paths = {active}]]
            /\ active' = Restored(closing.baseline)
            /\ Goes /\ UNCHANGED steady
    /\ program' = Append([program EXCEPT ![closing.at].other = Len(program) + 1], Statement(op, Appel, Appel))
    /\ Walks

\* The paths that meet where a scope ends: those of both branches, or the one that skips them.
Meeting(closing) ==
    CASE closing.op = "bloc" -> {active}
      [] closing.op \in {"si", "boucle"} /\ closing.paths = {} -> {closing.baseline, active}
      [] OTHER -> closing.paths \cup {active}
WriteEnd ==
    LET closing == Inner(scopes) IN
    /\ Writable("fin") /\ Len(scopes) > 1
    /\ closing.op = "agir" => closing.paths # {}
    /\ Judged(LostByPop, Front(scopes), Merged(closing.baseline, Meeting(closing)))
    /\ program' = Append([program EXCEPT ![closing.at].close = Len(program) + 1], Statement("fin", Appel, Appel))
    /\ Walks

\* arrêter is asked for nothing that is open.
WriteBreak ==
    /\ Writable("arreter") /\ InLoop(scopes)
    /\ steady' = (steady /\ ~OpenSinceLoop)
    /\ UNCHANGED <<scopes, active>> /\ Goes
    /\ Written("arreter", Appel, Appel) /\ Walks

\* LUM-S0039
WriteContinue ==
    /\ Writable("continuer") /\ InLoop(scopes)
    /\ Judged(OpenSinceLoop, scopes, active)
    /\ Written("continuer", Appel, Appel) /\ Walks

WriteReturn ==
    /\ Writable("retourne")
    /\ Judged(OpenInScopes, scopes, active)
    /\ Written("retourne", Appel, Appel) /\ Walks

\* The end of the body pops the scope of the function.
Accept ==
    /\ verdict = "walking" /\ Len(scopes) = 1 /\ program # <<>>
    /\ verdict' = IF LostByPop THEN "refused" ELSE "accepted"
    /\ pc' = 1
    /\ env' = <<[at |-> 0, vars |-> <<>>]>>
    /\ UNCHANGED <<program, scopes, active, steady, pending>>

-----------------------------------------------------------------------------
(* The run.  A Résultat is the number of the call that gave it.            *)
Here == program[pc]
Runs(op) == verdict = "accepted" /\ pc \in DOMAIN program /\ Here.op = op /\ UNCHANGED walkVars
GoTo(k) == pc' = k
Enters(at) == env' = Append(env, [at |-> at, vars |-> <<>>])

Obtains ==
    IF Here.from = Appel
    THEN pending.made < MaxMade /\ pending' = [made |-> pending.made + 1, open |-> pending.open \cup {pending.made + 1}]
    ELSE UNCHANGED pending
Obtained == IF Here.from = Appel THEN pending.made + 1 ELSE Value(env, Here.from)
Uses(name) == pending' = [pending EXCEPT !.open = @ \ {Value(env, name)}]

Declare ==
    /\ Runs("soit") /\ Obtains
    /\ env' = [env EXCEPT ![Len(env)].vars = Bind(@, Here.name, Obtained)]
    /\ GoTo(pc + 1)
Assign ==
    /\ Runs("affecte") /\ Obtains
    /\ env' = [env EXCEPT ![Home(env, Here.name)].vars = Bind(@, Here.name, Obtained)]
    /\ GoTo(pc + 1)
Use == Runs("utilise") /\ Uses(Here.name) /\ GoTo(pc + 1) /\ UNCHANGED env

\* A success lets the function go on; a failure leaves it.
Leave == env' = <<>> /\ GoTo(Len(program) + 1) /\ UNCHANGED pending
Succeed == Runs("propager") /\ GoTo(pc + 1) /\ UNCHANGED <<env, pending>>
Propagate == Runs("propager") /\ Leave
Return == Runs("retourne") /\ Leave
ReachEnd == /\ verdict = "accepted" /\ pc = Len(program) + 1 /\ env # <<>>
            /\ Leave /\ UNCHANGED walkVars

EnterBlock == Runs("bloc") /\ Enters(pc) /\ GoTo(pc + 1) /\ UNCHANGED pending
EnterFirst == Runs("si") /\ Enters(pc) /\ GoTo(pc + 1) /\ UNCHANGED pending
EnterOther == Runs("si") /\ Here.other # 0 /\ Enters(pc) /\ GoTo(Here.other + 1) /\ UNCHANGED pending
SkipFirst  == Runs("si") /\ Here.other = 0 /\ GoTo(Here.close + 1) /\ UNCHANGED <<env, pending>>
Match ==
    /\ Runs("agir") /\ Uses(Here.name) /\ Enters(pc)
    /\ \E k \in {pc, Here.other} : GoTo(k + 1)
Turn == Runs("boucle") /\ Enters(pc) /\ GoTo(pc + 1) /\ UNCHANGED pending
LeaveLoop == Runs("boucle") /\ GoTo(Here.close + 1) /\ UNCHANGED <<env, pending>>

EndBranch ==
    /\ Runs("sinon") \/ Runs("autre")
    /\ env' = Front(env) /\ GoTo(program[Inner(env).at].close + 1) /\ UNCHANGED pending
End ==
    LET at == Inner(env).at IN
    /\ Runs("fin")
    /\ env' = Front(env) /\ GoTo(IF program[at].op = "boucle" THEN at ELSE pc + 1) /\ UNCHANGED pending

Loops == {k \in DOMAIN env : env[k].at # 0 /\ program[env[k].at].op = "boucle"}
Loop == CHOOSE k \in Loops : \A j \in Loops : j <= k
Break ==
    /\ Runs("arreter")
    /\ env' = SubSeq(env, 1, Loop - 1) /\ GoTo(program[env[Loop].at].close + 1) /\ UNCHANGED pending
Continue ==
    /\ Runs("continuer")
    /\ env' = SubSeq(env, 1, Loop - 1) /\ GoTo(env[Loop].at) /\ UNCHANGED pending

-----------------------------------------------------------------------------
Init ==
    /\ program = <<>> /\ scopes = <<Scope("fonction", 0, <<>>)>> /\ active = <<>>
    /\ verdict = "walking" /\ steady = TRUE
    /\ pc = 0 /\ env = <<>> /\ pending = [made |-> 0, open |-> {}]

Walk ==
    \/ \E name \in Names, from \in Names \cup {Appel} : WriteDeclaration(name, from) \/ WriteAssignment(name, from)
    \/ \E name \in Names : WriteUse(name) \/ WriteMatch(name)
    \/ \E op \in Openers : WriteOpener(op)
    \/ \E op \in {"sinon", "autre"} : WriteOther(op)
    \/ WritePropagation \/ WriteEnd \/ WriteBreak \/ WriteContinue \/ WriteReturn \/ Accept
Run ==
    \/ Declare \/ Assign \/ Use \/ Succeed \/ Propagate \/ Return \/ ReachEnd
    \/ EnterBlock \/ EnterFirst \/ EnterOther \/ SkipFirst \/ Match \/ Turn \/ LeaveLoop
    \/ EndBranch \/ End \/ Break \/ Continue
Next == Walk \/ Run
Spec == Init /\ [][Next]_vars

-----------------------------------------------------------------------------
\* The walk and the run are well formed: every name that is bound has an obligation or a Résultat.
TypeOK ==
    /\ verdict \in {"walking", "accepted", "refused"} /\ steady \in BOOLEAN
    /\ active \in Seq(BOOLEAN)
    /\ \A k \in DOMAIN scopes : \A n \in DOMAIN scopes[k].vars : n \in Names /\ scopes[k].vars[n] \in DOMAIN active
    /\ pc \in 0..Len(program) + 1
    /\ pending.made \in 0..MaxMade /\ pending.open \subseteq 1..pending.made
    /\ \A k \in DOMAIN env : \A n \in DOMAIN env[k].vars : n \in Names /\ env[k].vars[n] \in 1..pending.made

\* In a body that the analysis accepts, whatever its conditions and however often its loops turn, a
\* Résultat that was not used is still in a variable: none is overwritten, goes out with its scope
\* or is left behind by an exit (semantic_analysis.cpp 1005-1132).  It holds for the bodies where the
\* walk sees every Résultat move: it does not when a branch or a loop assigns to a variable declared
\* outside it, since the branches' obligations are merged and the variable's is not, nor when arrêter
\* leaves a loop with a Résultat of the turn, since it is asked for nothing.
ResultsAreHandled ==
    /\ TypeOK
    /\ steady => \A r \in pending.open : Owners(env, r) # {}
=============================================================================
