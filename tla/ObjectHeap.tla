----------------------------- MODULE ObjectHeap -----------------------------
(***************************************************************************)
(* What the runtime promises about the lifetime of its values, without     *)
(* counts, colours or a buffer: references come and go, and an object goes *)
(* away only when no handle leads to it any more.                          *)
(***************************************************************************)
CONSTANTS Obj, Handle, Slot, NoObj

Holder == Handle \cup (Obj \X Slot)

VARIABLES
    ref,    \* what each Ref<T> points at
    alive   \* the objects that exist

vars == <<ref, alive>>

Targets(S) == {ref[r] : r \in S \X Slot} \ {NoObj}

\* The objects that a chain of references leads to from a handle: those of every set that holds
\* what the handles point at and what its own members do.
Closed(S) ==
    /\ {ref[h] : h \in Handle} \ {NoObj} \subseteq S
    /\ Targets(S) \subseteq S
Reachable == {o \in Obj : \A S \in SUBSET Obj : Closed(S) => o \in S}

Init ==
    /\ ref = [r \in Holder |-> NoObj]
    /\ alive = {}

Allocate(h, o) ==
    /\ o \notin alive /\ ref[h] = NoObj
    /\ alive' = alive \cup {o}
    /\ ref' = [ref EXCEPT ![h] = o]

Reaches(r) == r \in Handle \cup (Reachable \X Slot)

\* A reference is stored, copied or moved from one that code can reach.
Store(src, dst) ==
    /\ Reaches(src) /\ Reaches(dst) /\ ref[src] # NoObj
    /\ \/ ref' = [ref EXCEPT ![dst] = ref[src]]
       \/ ref' = [ref EXCEPT ![dst] = ref[src], ![src] = NoObj]
    /\ UNCHANGED alive

Drop(r) ==
    /\ Reaches(r)
    /\ ref' = [ref EXCEPT ![r] = NoObj]
    /\ UNCHANGED alive

WithoutMembers(o) == [r \in Holder |-> IF r \in {o} \X Slot THEN NoObj ELSE ref[r]]

\* Garbage loses its references, and garbage is freed.
Sever(o) ==
    /\ o \in alive \ Reachable
    /\ ref' = WithoutMembers(o)
    /\ UNCHANGED alive

Free(o) ==
    /\ o \in alive \ Reachable
    /\ ref' = WithoutMembers(o)
    /\ alive' = alive \ {o}

Next ==
    \/ \E h \in Handle, o \in Obj : Allocate(h, o)
    \/ \E src, dst \in Holder : Store(src, dst)
    \/ \E r \in Holder : Drop(r)
    \/ \E o \in Obj : Sever(o) \/ Free(o)

Spec == Init /\ [][Next]_vars
=============================================================================
