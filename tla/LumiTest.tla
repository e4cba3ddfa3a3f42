------------------------------ MODULE LumiTest ------------------------------
(***************************************************************************)
(* lumiere tester: the test files in order, and in each the calls of       *)
(* LumiTest: groups, tests, the four kinds of hooks, checks that fail.     *)
(* What a function of the program does is arbitrary, so every test, group  *)
(* and hook may call LumiTest again.                                       *)
(***************************************************************************)
EXTENDS Integers, Sequences, FiniteSets, SequencesExt

CONSTANTS
    MaxFiles,   \* how many test files there are
    MaxHooks,   \* how many hooks a file registers
    MaxTests,   \* how many tests of a file the filter lets through
    MaxGroups,  \* how many groups are open inside one another
    MaxGroupCalls,  \* how many times a file calls groupe
    MaxDepth    \* how deep calls nest
ASSUME BoundsAssumption ==
    /\ MaxFiles \in Nat /\ MaxHooks \in Nat /\ MaxTests \in Nat
    /\ MaxGroups \in Nat /\ MaxGroupCalls \in Nat /\ MaxDepth \in Nat

VARIABLES
    stack,      \* what the thread is inside of, innermost last
    raising,    \* whether a RuntimeError is on its way
    groups,     \* group_contexts, with the index of every hook
    abort,      \* abort_requested
    summary,    \* the LumiTestRunSummary of the file
    stop,       \* the option stop_on_failure
    file,       \* how many files have been taken up
    aggregate,  \* the summary of the files before
    status,     \* the exit status, once there is one
    hooks,      \* of every hook of the file: registered in time, and how often it has completed
    opened,     \* how many times the file has called groupe
    struck      \* whether an error has reached a test, a file or LumiTest's caller

fileVars == <<file, aggregate, status, stop>>
testVars == <<groups, abort, summary, hooks, opened>>
vars == <<stack, raising, testVars, fileVars, struck>>

None == -1
NoResults == [executed |-> 0, failed |-> 0]
Kinds == {"before_all", "before_each", "after_each", "after_all"}
NewGroup == [hooks |-> [kind \in Kinds |-> <<>>], before_all_ran |-> FALSE, admitted |-> FALSE]

\* Code of the program's, or a native of LumiTest on behalf of it.
Code(of) == [kind |-> "code", of |-> of, hook |-> 0]
Hook(kind, h) == [kind |-> "code", of |-> kind, hook |-> h]
Group == [kind |-> "groupe", at |-> "callback", hook |-> 1]
Case == [kind |-> "test", at |-> "before_all", group |-> 1, hook |-> 1, passed |-> TRUE, ran |-> <<>>]
Lance == [kind |-> "lance"]

Top == Last(stack)
Goes(frame) == Append(Front(stack), frame)
Calls(frame, code) == Append(Goes(frame), code)
Running == ~raising /\ stack # <<>> /\ Top.kind = "code"
At(kind, point) == ~raising /\ stack # <<>> /\ Top.kind = kind /\ Top.at = point

-----------------------------------------------------------------------------
(* What a program does. *)

\* A loop over hooks is under way.  The hooks of an instance register none and
\* open no group: either moves the vector that the loop above them walks.
InHook == \E i \in DOMAIN stack : stack[i].kind = "code" /\ stack[i].of \in Kinds

\* avant_tout, avant_chaque, après_chaque, après_tout: of the innermost group, and
\* an error outside of any.
Register ==
    /\ Running /\ ~InHook
    /\ IF groups = <<>> THEN raising' = TRUE /\ UNCHANGED <<groups, hooks>>
       ELSE /\ Len(hooks) < MaxHooks
            /\ \E kind \in Kinds :
                  groups' = [groups EXCEPT ![Len(groups)].hooks[kind] = Append(@, Len(hooks) + 1)]
            /\ hooks' = Append(hooks, [late |-> Last(groups).before_all_ran, done |-> 0])
            /\ UNCHANGED raising
    /\ UNCHANGED <<stack, abort, summary, opened, fileVars, struck>>

\* groupe, which after an abort does nothing.
Groupe ==
    /\ Running /\ ~InHook /\ ~abort
    /\ Len(groups) < MaxGroups /\ opened < MaxGroupCalls /\ Len(stack) < MaxDepth
    /\ stack' = Append(Append(stack, Group), Code("group"))
    /\ groups' = Append(groups, NewGroup) /\ opened' = opened + 1
    /\ UNCHANGED <<raising, abort, summary, hooks, fileVars, struck>>

\* test, of a name that the filter lets through.  Otherwise, and after an abort, it
\* does nothing.
Test ==
    /\ Running /\ ~abort
    /\ summary.executed + Len(SelectSeq(stack, LAMBDA f : f.kind = "test")) < MaxTests
    /\ Len(stack) < MaxDepth
    /\ stack' = Append(stack, Case)
    /\ groups' = [g \in DOMAIN groups |-> [groups[g] EXCEPT !.admitted = TRUE]]
    /\ UNCHANGED <<raising, abort, summary, hooks, opened, fileVars, struck>>

\* vérifier_lance, whose function must fail.
VerifierLance ==
    /\ Running /\ Len(stack) < MaxDepth
    /\ stack' = Append(Append(stack, Lance), Code("lance"))
    /\ UNCHANGED <<raising, testVars, fileVars, struck>>

\* A check fails, or anything else raises.
Fail ==
    /\ Running
    /\ raising' = TRUE
    /\ UNCHANGED <<stack, testVars, fileVars, struck>>

\* The function returns.  Nothing was raised for vérifier_lance to see.
Return ==
    /\ Running /\ Top.of # "file"
    /\ IF Top.of = "lance" THEN stack' = Front(Front(stack)) /\ raising' = TRUE
       ELSE stack' = Front(stack) /\ UNCHANGED raising
    /\ hooks' = IF Top.hook = 0 THEN hooks ELSE [hooks EXCEPT ![Top.hook].done = @ + 1]
    /\ UNCHANGED <<groups, abort, summary, opened, fileVars, struck>>

\* An error leaves a function; vérifier_lance catches it.
Unwind ==
    /\ raising /\ stack # <<>> /\ Top.kind \in {"code", "lance"}
    /\ Top.kind = "code" => Top.of # "file"
    /\ stack' = Front(stack)
    /\ raising' = (Top.kind # "lance")
    /\ UNCHANGED <<testVars, fileVars, struck>>

-----------------------------------------------------------------------------
(* test. *)

\* One hook of a group, as part of a test, which notes the group and the place.
RunsHook(kind, g) ==
    LET h == groups[g].hooks[kind][Top.hook]
    IN stack' = Calls([Top EXCEPT !.hook = @ + 1, !.ran = Append(@, <<g, Top.hook>>)], Hook(kind, h))
HasHook(kind, g) == Top.hook <= Len(groups[g].hooks[kind])

\* run_before_all_hooks_if_needed: a group is marked once all of its hooks have
\* completed.
BeforeAll ==
    /\ At("test", "before_all")
    /\ LET g == Top.group
       IN IF g > Len(groups)
          THEN stack' = Goes([Top EXCEPT !.at = "before_each", !.group = 1, !.hook = 1, !.ran = <<>>]) /\ UNCHANGED groups
          ELSE IF (~groups[g].before_all_ran \/ Top.hook > 1) /\ HasHook("before_all", g)
          THEN RunsHook("before_all", g) /\ UNCHANGED groups
          ELSE /\ stack' = Goes([Top EXCEPT !.group = g + 1, !.hook = 1])
               /\ groups' = [groups EXCEPT ![g].before_all_ran = TRUE]
    /\ UNCHANGED <<raising, abort, summary, hooks, opened, fileVars, struck>>

\* avant_chaque from the outermost group in, then the body.
BeforeEach ==
    /\ At("test", "before_each")
    /\ LET g == Top.group
       IN IF g > Len(groups) THEN stack' = Calls([Top EXCEPT !.at = "body"], Code("test"))
          ELSE IF HasHook("before_each", g) THEN RunsHook("before_each", g)
          ELSE stack' = Goes([Top EXCEPT !.group = g + 1, !.hook = 1])
    /\ UNCHANGED <<raising, testVars, fileVars, struck>>

AfterBody ==
    /\ At("test", "body")
    /\ stack' = Goes([Top EXCEPT !.at = "after_each", !.group = Len(groups), !.hook = 1, !.ran = <<>>])
    /\ UNCHANGED <<raising, testVars, fileVars, struck>>

\* Mutant: the hooks of the outermost group come first.
AfterEach_Outwards ==
    /\ At("test", "after_each")
    /\ LET g == Len(groups) + 1 - Top.group
       IN IF Top.group = 0 THEN stack' = Goes([Top EXCEPT !.at = "finish"])
          ELSE IF HasHook("after_each", g) THEN RunsHook("after_each", g)
          ELSE stack' = Goes([Top EXCEPT !.group = @ - 1, !.hook = 1])
    /\ UNCHANGED <<raising, testVars, fileVars, struck>>

\* après_chaque from the innermost group out.
AfterEach ==
    /\ At("test", "after_each")
    /\ LET g == Top.group
       IN IF g = 0 THEN stack' = Goes([Top EXCEPT !.at = "finish"])
          ELSE IF HasHook("after_each", g) THEN RunsHook("after_each", g)
          ELSE stack' = Goes([Top EXCEPT !.group = g - 1, !.hook = 1])
    /\ UNCHANGED <<raising, testVars, fileVars, struck>>

\* Either of the two try blocks catches an error: what follows the first still
\* runs, what is left of the second does not.
Catch ==
    /\ raising /\ stack # <<>> /\ Top.kind = "test"
    /\ raising' = FALSE /\ struck' = TRUE
    /\ stack' = Goes(IF Top.at = "after_each" THEN [Top EXCEPT !.at = "finish", !.passed = FALSE]
                     ELSE [Top EXCEPT !.at = "after_each", !.group = Len(groups), !.hook = 1,
                                      !.ran = <<>>, !.passed = FALSE])
    /\ UNCHANGED <<testVars, fileVars>>

Finish ==
    /\ At("test", "finish")
    /\ stack' = Front(stack)
    /\ summary' = [executed |-> summary.executed + 1,
                   failed |-> summary.failed + (IF Top.passed THEN 0 ELSE 1)]
    /\ abort' = (abort \/ (stop /\ ~Top.passed))
    /\ UNCHANGED <<raising, groups, hooks, opened, fileVars, struck>>

-----------------------------------------------------------------------------
(* groupe. *)

\* Mutant: whatever has become of avant_tout.
AfterAll_Always ==
    /\ At("groupe", "callback")
    /\ IF Top.hook <= Len(Last(groups).hooks["after_all"])
       THEN /\ stack' = Calls([Top EXCEPT !.hook = @ + 1],
                              Hook("after_all", Last(groups).hooks["after_all"][Top.hook]))
            /\ UNCHANGED groups
       ELSE stack' = Front(stack) /\ groups' = Front(groups)
    /\ UNCHANGED <<raising, abort, summary, hooks, opened, fileVars, struck>>

\* The callback has returned: après_tout if avant_tout had been run, and the group
\* is taken off.
AfterAll ==
    /\ At("groupe", "callback")
    /\ IF Last(groups).before_all_ran /\ Top.hook <= Len(Last(groups).hooks["after_all"])
       THEN /\ stack' = Calls([Top EXCEPT !.hook = @ + 1],
                              Hook("after_all", Last(groups).hooks["after_all"][Top.hook]))
            /\ UNCHANGED groups
       ELSE stack' = Front(stack) /\ groups' = Front(groups)
    /\ UNCHANGED <<raising, abort, summary, hooks, opened, fileVars, struck>>

\* It is taken off when an error leaves it too.
LeaveGroup ==
    /\ raising /\ stack # <<>> /\ Top.kind = "groupe"
    /\ stack' = Front(stack) /\ groups' = Front(groups)
    /\ UNCHANGED <<raising, abort, summary, hooks, opened, fileVars, struck>>

-----------------------------------------------------------------------------
(* run_tester_command. *)

\* The next file, in an interpreter of its own.
StartFile ==
    /\ stack = <<>> /\ status = None /\ file < MaxFiles
    /\ ~(stop /\ aggregate.failed > 0)
    /\ file' = file + 1
    /\ stack' = <<Code("file")>>
    /\ groups' = <<>> /\ abort' = FALSE /\ summary' = NoResults /\ hooks' = <<>> /\ opened' = 0
    /\ UNCHANGED <<raising, aggregate, status, stop, struck>>

\* It has run to its end, and its results are added up.
EndFile ==
    /\ Running /\ Top.of = "file"
    /\ stack' = <<>>
    /\ aggregate' = [executed |-> aggregate.executed + summary.executed,
                     failed |-> aggregate.failed + summary.failed]
    /\ UNCHANGED <<raising, testVars, file, status, stop, struck>>

\* Mutant: the error is printed, and the next file taken up.
FailFile_GoesOn ==
    /\ raising /\ stack # <<>> /\ Top.kind = "code" /\ Top.of = "file"
    /\ stack' = <<>> /\ raising' = FALSE /\ struck' = TRUE
    /\ UNCHANGED <<testVars, fileVars>>

\* An error leaves the file: nothing more is run and no summary printed.
FailFile ==
    /\ raising /\ stack # <<>> /\ Top.kind = "code" /\ Top.of = "file"
    /\ stack' = <<>> /\ raising' = FALSE /\ struck' = TRUE
    /\ status' = 1
    /\ UNCHANGED <<testVars, file, aggregate, stop>>

\* Every file has been run, or one has failed and the option says to stop.
Conclude ==
    /\ stack = <<>> /\ status = None
    /\ file = MaxFiles \/ (stop /\ aggregate.failed > 0)
    /\ status' = IF aggregate.failed = 0 THEN 0 ELSE 1
    /\ UNCHANGED <<stack, raising, testVars, file, aggregate, stop, struck>>

Init ==
    /\ stack = <<>> /\ raising = FALSE
    /\ groups = <<>> /\ abort = FALSE /\ summary = NoResults /\ hooks = <<>> /\ opened = 0
    /\ stop \in BOOLEAN /\ file = 0 /\ aggregate = NoResults /\ status = None
    /\ struck = FALSE

Next ==
    \/ Register \/ Groupe \/ Test \/ VerifierLance \/ Fail \/ Return \/ Unwind
    \/ BeforeAll \/ BeforeEach \/ AfterBody \/ AfterEach \/ Catch \/ Finish
    \/ AfterAll \/ LeaveGroup
    \/ StartFile \/ EndFile \/ FailFile \/ Conclude

Spec == Init /\ [][Next]_vars

-----------------------------------------------------------------------------
(* Properties. *)

\* groupe: the variables have their types, and the groups that are open are those
\* whose callback is under way, on whatever path the others were left.
Frames ==
    [kind : {"code"}, of : Kinds \cup {"file", "group", "test", "lance"}, hook : 0 .. Len(hooks)]
    \cup [kind : {"groupe"}, at : {"callback"}, hook : Nat \ {0}]
    \cup [kind : {"test"}, at : {"before_all", "before_each", "body", "after_each", "finish"}, group : Nat,
          hook : Nat \ {0}, passed : BOOLEAN, ran : Seq(Nat \X Nat)]
    \cup [kind : {"lance"}]
Groups == [hooks : [Kinds -> Seq(1 .. Len(hooks))], before_all_ran : BOOLEAN, admitted : BOOLEAN]
Results == [executed : Nat, failed : Nat]
TypeOK ==
    /\ hooks \in Seq([late : BOOLEAN, done : Nat])
    /\ stack \in Seq(Frames) /\ groups \in Seq(Groups)
    /\ Len(groups) = Cardinality({i \in DOMAIN stack : stack[i].kind = "groupe"})
    /\ raising \in BOOLEAN /\ abort \in BOOLEAN /\ struck \in BOOLEAN /\ stop \in BOOLEAN
    /\ summary \in Results /\ summary.failed <= summary.executed
    /\ aggregate \in Results /\ aggregate.failed <= aggregate.executed
    /\ status \in {None, 0, 1} /\ file \in 0 .. MaxFiles /\ opened \in Nat

\* The hooks of a kind as places, group and position, and the two orders in which they run.
Places(kind) == UNION {{g} \X DOMAIN groups[g].hooks[kind] : g \in DOMAIN groups}
Inwards(p, q) == p[1] < q[1] \/ (p[1] = q[1] /\ p[2] < q[2])
Outwards(p, q) == p[1] > q[1] \/ (p[1] = q[1] /\ p[2] < q[2])
InOrder(ran, Before(_, _)) == \A i, j \in DOMAIN ran : i < j => Before(ran[i], ran[j])
Completed(g) ==
    \A k \in DOMAIN groups[g].hooks["before_all"] :
        LET h == groups[g].hooks["before_all"][k] IN hooks[h].late \/ hooks[h].done > 0

\* The step is the one with which the body of a test begins, or the test ends.
Begins == At("test", "before_each") /\ stack' # <<>> /\ Last(stack').kind = "code" /\ Last(stack').of = "test"
Ends == At("test", "after_each") /\ stack' # <<>> /\ Last(stack').kind = "test" /\ Last(stack').at = "finish"
Surrounded ==
    /\ Begins => /\ Range(Top.ran) = Places("before_each") /\ InOrder(Top.ran, Inwards)
                 /\ \A g \in DOMAIN groups : Completed(g)
    /\ Ends => Range(Top.ran) = Places("after_each") /\ InOrder(Top.ran, Outwards)

\* run_before_all_hooks_if_needed, run_after_each_hooks, test: when the body of a test
\* begins, every avant_tout of the groups around it has completed, and the avant_chaque
\* have been run for it from the outermost group in.  When the test ends and no
\* après_chaque has failed, they have been run from the innermost group out, whatever
\* became of the rest.
HooksSurround == [][Surrounded]_vars

\* test, groupe: the open groups are those under way, and one in which the filter has let no
\* test through runs neither its avant_tout nor its après_tout.
FilteredGroupsStayQuiet ==
    /\ TypeOK
    /\ \A i \in DOMAIN stack :
           stack[i].kind = "code" /\ stack[i].of \in {"before_all", "after_all"}
           => \E g \in DOMAIN groups : Contains(groups[g].hooks[stack[i].of], stack[i].hook) /\ groups[g].admitted

\* test, run_test_file, run_tester_command: the status is 0 exactly when no error has
\* reached a test or left a file, in whichever hook, group, inner test or file it was
\* raised; vérifier_lance alone may swallow one.
FailuresAreReported == status # None => (status = 0 <=> ~struck)
=============================================================================
