---------------------------- MODULE ModuleLoader ----------------------------
(***************************************************************************)
(* What loading modules promises a program, whichever engine does it: the  *)
(* top level of a file runs to its end at most once, never inside itself,  *)
(* and not before the modules its own top level imports.                   *)
(***************************************************************************)
EXTENDS Sequences, SequencesExt

CONSTANT Files

VARIABLES
    needs,  \* needs[f]: the files that the top level of f imports
    open,   \* bodies that have begun and not ended, innermost last
    ran     \* files whose body has run to its end

vars == <<open, ran>>

Init == open = <<>> /\ ran = {}

Begin(f) ==
    /\ f \notin ran \cup Range(open)
    /\ open' = Append(open, f)
    /\ UNCHANGED ran

End ==
    /\ open # <<>>
    /\ needs[Last(open)] \subseteq ran
    /\ open' = Front(open)
    /\ ran' = ran \cup {Last(open)}

\* A runtime error leaves a body.
Abandon ==
    /\ open # <<>>
    /\ open' = Front(open)
    /\ UNCHANGED ran

Next == (\E f \in Files : Begin(f)) \/ End \/ Abandon

Spec == Init /\ [][Next]_vars
=============================================================================
