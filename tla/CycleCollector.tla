--------------------------- MODULE CycleCollector ---------------------------
(***************************************************************************)
(* The reference counts of the runtime and its per-thread cycle collector  *)
(* (ref.hpp, cycles.cpp): synchronous trial deletion over a buffer of      *)
(* objects that survived a dropped reference.                              *)
(*                                                                         *)
(* A Ref<T> is a holder: a handle outside the heap (a C++ local, a stack   *)
(* slot of the VM, a global) or a member of an object.  C++ code reaches a *)
(* member only through a handle on the object that owns it, so every       *)
(* mutator action goes through a handle.                                   *)
(***************************************************************************)
EXTENDS Integers, Sequences, FiniteSets, TLC

CONSTANTS
    Obj,        \* the addresses a counted object may live at (reused)
    Handle,     \* Ref<T> variables outside the heap
    Slot,       \* Ref<T> members of an object
    Acyclic,    \* objects that called mark_acyclic (TexteData)
    Untraced,   \* members that trace_references does not report
    Threshold,  \* detail::candidate_threshold
    NoObj       \* the null pointer

ASSUME CollectorAssumption ==
    /\ IsFiniteSet(Obj) /\ IsFiniteSet(Handle) /\ IsFiniteSet(Slot)
    /\ Acyclic \subseteq Obj
    /\ Untraced \subseteq Slot
    /\ NoObj \notin Obj
    /\ Handle \cap (Obj \X Slot) = {}
    /\ Threshold \in Nat \ {0}

Member == Obj \X Slot
Holder == Handle \cup Member
Traced == Slot \ Untraced

VARIABLES
    ref,         \* what each Ref<T> points at
    alive,       \* objects constructed and not yet destroyed
    count,       \* m_count
    colour,      \* m_colour
    buffered,    \* m_buffered
    slot,        \* m_buffer_slot
    candidates,  \* ThreadCollector::candidates
    due,         \* detail::candidates_pending
    owed,        \* release() calls that running destructors still owe each object
    collector,   \* g_collector: absent, at rest, or inside collect()
    phase,       \* where collect() is
    roots,       \* collect()'s locals
    pending,
    darken,      \* the stack of scan_black
    garbage,
    ending       \* collect() was called by ~ThreadCollector

heapVars    == <<ref, alive>>
objectVars  == <<count, colour, buffered, slot>>
bufferVars  == <<candidates, due>>
collectVars == <<collector, phase, roots, pending, darken, garbage, ending>>
vars == <<heapVars, objectVars, bufferVars, owed, collectVars>>

Colours == {"Black", "Grey", "White", "Purple"}
Phases  == {"rest", "mark", "scan", "gather", "clear", "delete"}

Init ==
    /\ ref = [r \in Holder |-> NoObj]
    /\ alive = {}
    /\ count = [o \in Obj |-> 0]
    /\ colour = [o \in Obj |-> "Black"]
    /\ buffered = [o \in Obj |-> FALSE]
    /\ slot = [o \in Obj |-> 1]
    /\ candidates = <<>>
    /\ due = 0
    /\ owed = [o \in Obj |-> 0]
    /\ collector = "none"
    /\ phase = "rest"
    /\ roots = {} /\ pending = {} /\ darken = {} /\ garbage = {}
    /\ ending = FALSE

(***************************************************************************)
(* The mutator: what code does with Ref<T>.  It runs only between releases *)
(* and outside collect(), all on one thread.                               *)
(***************************************************************************)
Settled == \A o \in Obj : owed[o] = 0

Running == phase = "rest" /\ Settled

\* The holders code can name through the handles in H: every handle, and the
\* members of the objects that H points at.
Accessible(H) ==
    Handle \cup ({ref[h] : h \in H} \ (Acyclic \cup {NoObj})) \X Slot

\* The reference a holder gives up is owed one release().
Owe(o) == owed' = IF o = NoObj THEN owed ELSE [owed EXCEPT ![o] = @ + 1]

\* make_ref: the object is constructed and its first handle retains it.
MakeRef(h, o) ==
    /\ Running /\ collector # "gone"
    /\ ref[h] = NoObj /\ o \notin alive
    /\ collector' = "ready"
    /\ alive' = alive \cup {o}
    /\ ref' = [ref EXCEPT ![h] = o]
    /\ count' = [count EXCEPT ![o] = 1]
    /\ colour' = [colour EXCEPT ![o] = "Black"]
    /\ buffered' = [buffered EXCEPT ![o] = FALSE]
    /\ slot' = [slot EXCEPT ![o] = 1]
    /\ UNCHANGED <<bufferVars, owed, phase, roots, pending, darken, garbage, ending>>

\* Ref::operator=(const Ref &): retain the new referent, then release the old.
\* The source is read again after the release, so it must not live in what the
\* destination alone kept alive.
CopyAssign(src, dst) ==
    /\ Running /\ src # dst
    /\ src \in Accessible(Handle \ {dst}) /\ dst \in Accessible(Handle)
    /\ ref[src] # NoObj
    /\ count' = [count EXCEPT ![ref[src]] = @ + 1]
    /\ colour' = [colour EXCEPT ![ref[src]] = "Black"]
    /\ ref' = [ref EXCEPT ![dst] = ref[src]]
    /\ Owe(ref[dst])
    /\ UNCHANGED <<alive, buffered, slot, bufferVars, collectVars>>

\* Ref::operator=(Ref &&): release the old referent and steal the source, with
\* no count touched.  The object that owns the destination is reached through a
\* handle that is not the one being emptied.
MoveAssign(src, dst) ==
    /\ Running /\ src # dst
    /\ src \in Accessible(Handle \ {dst}) /\ dst \in Accessible(Handle \ {src})
    /\ ref[src] # NoObj
    /\ ref' = [ref EXCEPT ![dst] = ref[src], ![src] = NoObj]
    /\ Owe(ref[dst])
    /\ UNCHANGED <<alive, objectVars, bufferVars, collectVars>>

\* Ref::reset and ~Ref.
Reset(r) ==
    /\ Running /\ r \in Accessible(Handle)
    /\ ref[r] # NoObj
    /\ ref' = [ref EXCEPT ![r] = NoObj]
    /\ Owe(ref[r])
    /\ UNCHANGED <<alive, objectVars, bufferVars, collectVars>>

(***************************************************************************)
(* RefCounted::release, and what it leads to.                              *)
(***************************************************************************)
ReferencesHeldBy(o, x) == Cardinality({m \in {o} \X Slot : ref[m] = x})

\* Take o out of the buffer: the last entry moves into its slot and is told.
LeaveBuffer(o) ==
    LET last == candidates[Len(candidates)]
    IN  /\ candidates' = SubSeq([candidates EXCEPT ![slot[o]] = last], 1, Len(candidates) - 1)
        /\ slot' = [slot EXCEPT ![last] = slot[o]]
        /\ due' = Len(candidates) - 1
        /\ buffered' = [buffered EXCEPT ![o] = FALSE]

\* The destructor drops every member, so each referent is owed a release.
DropMembers(o, releases) ==
    /\ ref' = [r \in Holder |-> IF r \in {o} \X Slot THEN NoObj ELSE ref[r]]
    /\ owed' = [x \in Obj |-> releases[x] + ReferencesHeldBy(o, x)]

\* on_destroyed: leave the buffer, then delete.
OnDestroyed(o, releases) ==
    /\ colour' = [colour EXCEPT ![o] = "Black"]
    /\ IF buffered[o] /\ collector # "gone"
       THEN LeaveBuffer(o)
       ELSE UNCHANGED <<candidates, slot, due, buffered>>
    /\ alive' = alive \ {o}
    /\ DropMembers(o, releases)

\* note_possible_root: queue the survivor once, unless a collection is running.
NotePossibleRoot(o) ==
    IF collector # "ready" \/ colour[o] = "Purple"
    THEN UNCHANGED <<colour, buffered, slot, candidates, due>>
    ELSE /\ colour' = [colour EXCEPT ![o] = "Purple"]
         /\ IF buffered[o]
            THEN UNCHANGED <<buffered, slot, candidates, due>>
            ELSE /\ buffered' = [buffered EXCEPT ![o] = TRUE]
                 /\ slot' = [slot EXCEPT ![o] = Len(candidates) + 1]
                 /\ candidates' = Append(candidates, o)
                 /\ due' = Len(candidates) + 1

Release(o) ==
    LET releases == [owed EXCEPT ![o] = @ - 1]
    IN  /\ owed[o] > 0
        /\ count' = [count EXCEPT ![o] = @ - 1]
        /\ \/ count[o] = 1 /\ OnDestroyed(o, releases)
           \/ /\ count[o] # 1
              /\ IF o \in Acyclic
                 THEN UNCHANGED <<colour, buffered, slot, candidates, due>>
                 ELSE NotePossibleRoot(o)
              /\ owed' = releases
              /\ UNCHANGED heapVars
        /\ UNCHANGED collectVars

(***************************************************************************)
(* CycleCollector::collect.  Each walk pops one object per step; the order *)
(* in which a stack yields its objects is left open.                       *)
(***************************************************************************)
Children(o) == {ref[<<o, s>>] : s \in Traced} \ {NoObj}

\* Reported references from the objects of S to o.
EdgesInto(S, o) == {e \in S \X Traced : ref[e] = o}

Add(S)      == [o \in Obj |-> count[o] + Cardinality(EdgesInto(S, o))]
Subtract(S) == [o \in Obj |-> count[o] - Cardinality(EdgesInto(S, o))]

Buffer == {candidates[i] : i \in DOMAIN candidates}

\* Mutant: the candidates taken out keep m_buffered.
StartCollect_StillBuffered(byTeardown) ==
    /\ Running /\ collector = "ready"
    /\ collector' = "collecting"
    /\ candidates' = <<>> /\ due' = 0
    /\ UNCHANGED buffered
    /\ roots' = {o \in Buffer : colour[o] = "Purple" /\ count[o] > 0}
    /\ colour' = [o \in Obj |-> IF o \in roots' THEN "Grey" ELSE colour[o]]
    /\ pending' = roots'
    /\ phase' = "mark"
    /\ ending' = byTeardown
    /\ UNCHANGED <<heapVars, count, slot, owed, darken, garbage>>

\* Swap the buffer out, keep the candidates still purple, and grey them.
StartCollect(byTeardown) ==
    /\ Running /\ collector = "ready"
    /\ collector' = "collecting"
    /\ candidates' = <<>> /\ due' = 0
    /\ buffered' = [o \in Obj |-> buffered[o] /\ o \notin Buffer]
    /\ roots' = {o \in Buffer : colour[o] = "Purple" /\ count[o] > 0}
    /\ colour' = [o \in Obj |-> IF o \in roots' THEN "Grey" ELSE colour[o]]
    /\ pending' = roots'
    /\ phase' = "mark"
    /\ ending' = byTeardown
    /\ UNCHANGED <<heapVars, count, slot, owed, darken, garbage>>

\* collect_cycles_if_due, at a loop's back edge and at a return.
CollectIfDue == due >= Threshold /\ StartCollect(FALSE)

\* collect_cycles, as the VM does when a program ends.
CollectCycles == StartCollect(FALSE)

\* ~ThreadCollector, as the thread ends.
EndThread == StartCollect(TRUE)

MarkGrey(o) ==
    /\ phase = "mark" /\ o \in pending
    /\ count' = Subtract({o})
    /\ LET fresh == {c \in Children(o) : colour[c] # "Grey"}
       IN  /\ colour' = [c \in Obj |-> IF c \in fresh THEN "Grey" ELSE colour[c]]
           /\ pending' = (pending \ {o}) \cup fresh
    /\ UNCHANGED <<heapVars, buffered, slot, bufferVars, owed, collector, phase,
                   roots, darken, garbage, ending>>

StartScan ==
    /\ phase = "mark" /\ pending = {}
    /\ phase' = "scan" /\ pending' = roots
    /\ UNCHANGED <<heapVars, objectVars, bufferVars, owed, collector, roots,
                   darken, garbage, ending>>

Scan(o) ==
    /\ phase = "scan" /\ darken = {} /\ o \in pending
    /\ IF colour[o] # "Grey"
       THEN pending' = pending \ {o} /\ UNCHANGED <<colour, darken>>
       ELSE IF count[o] > 0
       THEN /\ colour' = [colour EXCEPT ![o] = "Black"]
            /\ darken' = {o}
            /\ pending' = pending \ {o}
       ELSE /\ colour' = [colour EXCEPT ![o] = "White"]
            /\ pending' = (pending \ {o}) \cup Children(o)
            /\ UNCHANGED darken
    /\ UNCHANGED <<heapVars, count, buffered, slot, bufferVars, owed, collector,
                   phase, roots, garbage, ending>>

\* Mutant: what a live object refers to is not walked in turn.
ScanBlack_Shallow(o) ==
    /\ phase = "scan" /\ o \in darken
    /\ count' = Add({o})
    /\ LET fresh == {c \in Children(o) : colour[c] # "Black"}
       IN  /\ colour' = [c \in Obj |-> IF c \in fresh THEN "Black" ELSE colour[c]]
           /\ darken' = darken \ {o}
    /\ UNCHANGED <<heapVars, buffered, slot, bufferVars, owed, collector, phase,
                   roots, pending, garbage, ending>>

\* Mutant: an edge to a child already black is not restored.
ScanBlack_OnlyFresh(o) ==
    /\ phase = "scan" /\ o \in darken
    /\ count' = [c \in Obj |-> IF colour[c] = "Black" THEN count[c] ELSE Add({o})[c]]
    /\ LET fresh == {c \in Children(o) : colour[c] # "Black"}
       IN  /\ colour' = [c \in Obj |-> IF c \in fresh THEN "Black" ELSE colour[c]]
           /\ darken' = (darken \ {o}) \cup fresh
    /\ UNCHANGED <<heapVars, buffered, slot, bufferVars, owed, collector, phase,
                   roots, pending, garbage, ending>>

ScanBlack(o) ==
    /\ phase = "scan" /\ o \in darken
    /\ count' = Add({o})
    /\ LET fresh == {c \in Children(o) : colour[c] # "Black"}
       IN  /\ colour' = [c \in Obj |-> IF c \in fresh THEN "Black" ELSE colour[c]]
           /\ darken' = (darken \ {o}) \cup fresh
    /\ UNCHANGED <<heapVars, buffered, slot, bufferVars, owed, collector, phase,
                   roots, pending, garbage, ending>>

StartGather ==
    /\ phase = "scan" /\ pending = {} /\ darken = {}
    /\ phase' = "gather" /\ pending' = roots
    /\ UNCHANGED <<heapVars, objectVars, bufferVars, owed, collector, roots,
                   darken, garbage, ending>>

\* Mutant: an object is taken up without being blackened.
GatherWhite_StaysWhite(o) ==
    /\ phase = "gather" /\ o \in pending
    /\ IF colour[o] # "White" \/ buffered[o]
       THEN pending' = pending \ {o} /\ UNCHANGED garbage
       ELSE /\ garbage' = garbage \cup {o}
            /\ pending' = (pending \ {o}) \cup Children(o)
    /\ UNCHANGED <<heapVars, objectVars, bufferVars, owed, collector,
                   phase, roots, darken, ending>>

GatherWhite(o) ==
    /\ phase = "gather" /\ o \in pending
    /\ IF colour[o] # "White" \/ buffered[o]
       THEN pending' = pending \ {o} /\ UNCHANGED <<colour, garbage>>
       ELSE /\ colour' = [colour EXCEPT ![o] = "Black"]
            /\ garbage' = garbage \cup {o}
            /\ pending' = (pending \ {o}) \cup Children(o)
    /\ UNCHANGED <<heapVars, count, buffered, slot, bufferVars, owed, collector,
                   phase, roots, darken, ending>>

\* Mutant: the sweep does not hold its objects up.
HoldGarbage_NotHeld ==
    /\ phase = "gather" /\ pending = {}
    /\ count' = [o \in Obj |-> Add(garbage)[o]]
    /\ phase' = "clear" /\ pending' = garbage /\ roots' = {}
    /\ UNCHANGED <<heapVars, colour, buffered, slot, bufferVars, owed, collector,
                   darken, garbage, ending>>

\* Put the subtracted edges back, and hold every object of the sweep up.
HoldGarbage ==
    /\ phase = "gather" /\ pending = {}
    /\ count' = [o \in Obj |-> Add(garbage)[o] + (IF o \in garbage THEN 1 ELSE 0)]
    /\ phase' = "clear" /\ pending' = garbage /\ roots' = {}
    /\ UNCHANGED <<heapVars, colour, buffered, slot, bufferVars, owed, collector,
                   darken, garbage, ending>>

\* clear_references drops the unreported members as well.
ClearReferences(o) ==
    /\ phase = "clear" /\ Settled /\ o \in pending
    /\ DropMembers(o, owed)
    /\ pending' = pending \ {o}
    /\ UNCHANGED <<alive, objectVars, bufferVars, collector, phase, roots, darken,
                   garbage, ending>>

StartDelete ==
    /\ phase = "clear" /\ Settled /\ pending = {}
    /\ phase' = "delete" /\ pending' = garbage
    /\ UNCHANGED <<heapVars, objectVars, bufferVars, owed, collector, roots, darken,
                   garbage, ending>>

DeleteGarbage(o) ==
    /\ phase = "delete" /\ Settled /\ o \in pending
    /\ count' = [count EXCEPT ![o] = @ - 1]
    /\ pending' = pending \ {o}
    /\ garbage' = garbage \ {o}
    /\ IF count[o] = 1
       THEN alive' = alive \ {o} /\ DropMembers(o, owed)
       ELSE UNCHANGED <<heapVars, owed>>
    /\ UNCHANGED <<colour, buffered, slot, bufferVars, collector, phase, roots,
                   darken, ending>>

\* The end of collect(), and of ~ThreadCollector when it was the caller.
FinishCollect ==
    /\ phase = "delete" /\ Settled /\ pending = {}
    /\ phase' = "rest" /\ ending' = FALSE
    /\ IF ending
       THEN /\ collector' = "gone"
            /\ buffered' = [o \in Obj |-> buffered[o] /\ o \notin Buffer]
            /\ candidates' = <<>> /\ due' = 0
       ELSE collector' = "ready" /\ UNCHANGED <<buffered, bufferVars>>
    /\ UNCHANGED <<heapVars, count, colour, slot, owed, roots, pending, darken,
                   garbage>>

-----------------------------------------------------------------------------
Mutate ==
    \/ \E h \in Handle, o \in Obj : MakeRef(h, o)
    \/ \E src, dst \in Holder : CopyAssign(src, dst)
    \/ \E src, dst \in Holder : MoveAssign(src, dst)
    \/ \E r \in Holder : Reset(r)

CollectStep ==
    \/ \E o \in Obj : MarkGrey(o)
    \/ StartScan
    \/ \E o \in Obj : Scan(o)
    \/ \E o \in Obj : ScanBlack(o)
    \/ StartGather
    \/ \E o \in Obj : GatherWhite(o)
    \/ HoldGarbage
    \/ \E o \in Obj : ClearReferences(o)
    \/ StartDelete
    \/ \E o \in Obj : DeleteGarbage(o)
    \/ FinishCollect

ReleaseStep == \E o \in Obj : Release(o)

Next ==
    \/ Mutate
    \/ ReleaseStep
    \/ CollectIfDue
    \/ CollectCycles
    \/ EndThread
    \/ CollectStep

Spec == Init /\ [][Next]_vars

-----------------------------------------------------------------------------
(***************************************************************************)
(* Properties                                                              *)
(***************************************************************************)
TypeOK ==
    /\ ref \in [Holder -> Obj \cup {NoObj}]
    /\ alive \subseteq Obj
    /\ count \in [Obj -> Int]
    /\ colour \in [Obj -> Colours]
    /\ buffered \in [Obj -> BOOLEAN]
    /\ slot \in [Obj -> Nat]
    /\ candidates \in Seq(Obj)
    /\ due \in Nat
    /\ owed \in [Obj -> Nat]
    /\ collector \in {"none", "ready", "collecting", "gone"}
    /\ phase \in Phases
    /\ roots \subseteq Obj /\ pending \subseteq Obj
    /\ darken \subseteq Obj /\ garbage \subseteq Obj
    /\ ending \in BOOLEAN

\* The buffer and the objects agree (cycles.cpp, on_destroyed and
\* note_possible_root): an object believes it is buffered exactly when the
\* entry at its own slot is itself, and the counter the back edge tests is the
\* buffer's length.  An entry always has a reference left, which is why collect()
\* never finds one that was "freed early".
BufferConsistent ==
    /\ \A i \in DOMAIN candidates :
            /\ buffered[candidates[i]] /\ slot[candidates[i]] = i
            /\ count[candidates[i]] > 0
    /\ \A o \in Obj : buffered[o] => slot[o] \in DOMAIN candidates /\ candidates[slot[o]] = o
    /\ due = Len(candidates)

\* No pointer the program or the collector is about to follow leads to an
\* object that has been destroyed: handles, members of live objects, buffer
\* entries, releases owed, and the locals of collect() (ref.hpp, "free
\* something still in use").
NoUseAfterFree ==
    /\ \A h \in Handle : ref[h] \in alive \cup {NoObj}
    /\ \A o \in alive, s \in Slot : ref[<<o, s>>] \in alive \cup {NoObj}
    /\ \A o \in Obj : owed[o] > 0 => o \in alive
    /\ Buffer \subseteq alive
    /\ roots \cup pending \cup darken \cup garbage \subseteq alive

\* Outside a collection the count of an object is the number of handles and
\* members that point at it, and releases still owed to it: no walk of
\* collect() leaves a subtraction behind or restores an edge twice.
CountsExact ==
    phase = "rest" =>
        \A o \in Obj : count[o] = Cardinality({r \in Holder : ref[r] = o}) + owed[o]

Heap == INSTANCE ObjectHeap

\* When collect() returns, everything that no handle leads to is gone: nothing
\* is missed and nothing is queued for later.
CollectsAllGarbage ==
    [][collector = "collecting" /\ collector' # "collecting" => alive' = Heap!Reachable']_vars

\* The detailed collector implements the heap: only objects that no handle
\* leads to are ever cleared or freed, whatever the counts and colours do.
ImplementsHeap == Heap!Spec
-----------------------------------------------------------------------------
(***************************************************************************)
(* The inductive invariant of the collector: what the counts, the colours, *)
(* the buffer and the locals of collect() mean at every step of it.        *)
(***************************************************************************)
Coloured(c) == {o \in Obj : colour[o] = c}
Grey  == Coloured("Grey")
White == Coloured("White")

RefsTo(o) == {r \in Holder : ref[r] = o}

\* Objects whose own edges are taken out of the counts at present.
Subtracted ==
    CASE phase = "mark"   -> Grey \ pending
      [] phase = "scan"   -> Grey \cup White \cup darken
      [] phase = "gather" -> White \cup garbage
      [] OTHER            -> {}

\* Objects the sweep holds up with a reference of its own.
Held == IF phase \in {"clear", "delete"} THEN garbage ELSE {}

\* What keeps an object: references, releases still owed, the sweep's own hold.
Claims(o) == Cardinality(RefsTo(o)) + owed[o] + (IF o \in Held THEN 1 ELSE 0)

CountsInv ==
    /\ \A o \in Obj : count[o] = Claims(o) - Cardinality(EdgesInto(Subtracted, o))
    /\ \A o \in alive : Claims(o) > 0

BufferInv ==
    /\ \A i \in DOMAIN candidates : buffered[candidates[i]] /\ slot[candidates[i]] = i
    /\ \A o \in Obj : buffered[o] => slot[o] \in DOMAIN candidates /\ candidates[slot[o]] = o
    /\ due = Len(candidates)
    /\ collector # "ready" => candidates = <<>>

ColoursAllowed ==
    CASE phase = "rest"   -> {"Black", "Purple"}
      [] phase = "mark"   -> {"Black", "Grey"}
      [] phase = "scan"   -> {"Black", "Grey", "White"}
      [] phase = "gather" -> {"Black", "White"}
      [] OTHER            -> {"Black"}

ColourInv ==
    /\ \A o \in Obj : colour[o] \in ColoursAllowed
    /\ \A o \in Obj : colour[o] = "Purple" => buffered[o]

ControlInv ==
    /\ collector = "collecting" <=> phase # "rest"
    /\ phase \in {"mark", "scan", "gather"} => Settled
    /\ phase # "scan" => darken = {}
    /\ phase \notin {"gather", "clear", "delete"} => garbage = {}
    /\ phase = "rest" => pending = {}
    /\ phase \in {"rest", "clear", "delete"} => roots = {}
    /\ phase = "mark" => pending \cup roots \subseteq Grey
    /\ phase = "scan" => \A o \in darken : colour[o] = "Black"
    /\ phase = "clear" => pending \subseteq garbage
    /\ phase = "delete" => pending = garbage

AliveInv ==
    /\ NoUseAfterFree
    /\ \A o \in Obj \ alive : ~buffered[o] /\ \A s \in Slot : ref[<<o, s>>] = NoObj
    /\ Grey \cup White \subseteq alive

\* No set of greyed objects is entered from nowhere: some walked object outside
\* it, or a root inside it, leads to it.
MarkClosed ==
    phase = "mark" =>
        \A X \in SUBSET Grey : X # {} /\ X \cap roots = {} =>
            \E p \in (Grey \ pending) \ X : Children(p) \cap X # {}

\* What the scan has still to reach, it will: a grey set with nothing in the
\* stack is entered from an object whose children are still to be visited.
ScanClosed ==
    phase = "scan" =>
        \A X \in SUBSET Grey : X # {} /\ X \cap pending = {} =>
            \E p \in (Grey \cup darken) \ X : Children(p) \cap X # {}

ScanPending ==
    phase = "scan" =>
        \A x \in pending \cap Grey : x \in roots \/ \E p \in White \cup darken : x \in Children(p)

WhiteClosed ==
    phase = "scan" =>
        \A X \in SUBSET White : X # {} /\ X \cap roots = {} =>
            \E p \in (White \cup darken) \ X : Children(p) \cap X # {}

GatherClosed ==
    phase = "gather" =>
        \A X \in SUBSET White : X # {} /\ X \cap pending = {} =>
            \E p \in White \ X : Children(p) \cap X # {}

\* A white object is one whose every reference comes from the objects subtracted with it.
WhiteUncounted ==
    phase \in {"scan", "gather"} => \A o \in White \cup garbage : count[o] = 0

\* While the sweep drops the members of the garbage, nothing but garbage refers to garbage.
GarbageSealed ==
    phase = "clear" => \A o \in garbage : RefsTo(o) \subseteq garbage \X Slot

SealInv == WhiteUncounted /\ GarbageSealed

IInv ==
    /\ TypeOK /\ CountsInv /\ BufferInv /\ ColourInv /\ ControlInv /\ AliveInv
    /\ MarkClosed /\ ScanClosed /\ ScanPending /\ WhiteClosed /\ GatherClosed
-----------------------------------------------------------------------------
(***************************************************************************)
(* Why a collection finds all the garbage, when every member is traced: a  *)
(* set of objects that nothing outside it refers to has a candidate in it  *)
(* at rest, a root when the walks begin, and is what each walk has found.  *)
(***************************************************************************)
Enclosed(X) ==
    /\ X # {} /\ X \subseteq alive
    /\ \A o \in X : RefsTo(o) \subseteq X \X Slot

\* What cannot refer to anything never does, and without a collector there is no object.
LeavesInv ==
    /\ \A o \in Acyclic, s \in Slot : ref[<<o, s>>] = NoObj
    /\ collector = "none" => alive = {}

CandidatesInv ==
    phase = "rest" /\ collector # "gone" =>
        \A X \in SUBSET Obj : Enclosed(X) /\ (\A o \in X : owed[o] = 0) =>
            \E o \in X : colour[o] = "Purple"

MarkInv ==
    phase = "mark" =>
        /\ \A X \in SUBSET Obj : Enclosed(X) => X \cap roots # {}
        /\ \A o \in Grey \ pending : Children(o) \subseteq Grey

FoundInv ==
    /\ phase = "scan" => \A X \in SUBSET Obj : Enclosed(X) => X \subseteq Grey \cup White
    /\ phase = "gather" => \A X \in SUBSET Obj : Enclosed(X) => X \subseteq White \cup garbage
    /\ phase \in {"clear", "delete"} => \A X \in SUBSET Obj : Enclosed(X) => X \subseteq garbage

ClearedInv ==
    /\ phase = "clear" => \A o \in garbage \ pending, s \in Slot : ref[<<o, s>>] = NoObj
    /\ phase = "delete" =>
            \A o \in garbage : RefsTo(o) = {} /\ \A s \in Slot : ref[<<o, s>>] = NoObj

CompleteInv == LeavesInv /\ CandidatesInv /\ MarkInv /\ FoundInv /\ ClearedInv
-----------------------------------------------------------------------------
(***************************************************************************)
(* What a collection still has to do, largest part first: the stages left, *)
(* the colour changes the walk at hand can still make, and the entries of  *)
(* its stacks with the releases a destructor owes and the members to drop. *)
(***************************************************************************)
StagesLeft ==
    CASE phase = "mark"   -> 5
      [] phase = "scan"   -> 4
      [] phase = "gather" -> 3
      [] phase = "clear"  -> 2
      [] phase = "delete" -> 1
      [] OTHER            -> 0

ChangesLeft ==
    CASE phase = "mark"   -> Cardinality(Obj \ Grey)
      [] phase = "scan"   -> 2 * Cardinality(Grey) + Cardinality(White)
      [] phase = "gather" -> Cardinality(White)
      [] OTHER            -> 0

\* One entry for each release() owed.
Releases(owes) == UNION {{o} \X (1 .. owes[o]) : o \in Obj}

Pointing == {r \in Holder : ref[r] # NoObj}

EntriesLeft ==
    Cardinality(pending) + Cardinality(darken)
        + Cardinality(Releases(owed)) + 2 * Cardinality(Pointing)

\* A collection that starts ends, and so does every release: each of their
\* steps leaves less to do, so no walk of collect() comes back to an object
\* without end (cycles.cpp, the loops over `pending` in collect()).
EachWalkAdvances ==
    [][phase # "rest" \/ ~Settled =>
        \/ StagesLeft' < StagesLeft
        \/ StagesLeft' = StagesLeft /\ ChangesLeft' < ChangesLeft
        \/ /\ StagesLeft' = StagesLeft /\ ChangesLeft' = ChangesLeft
           /\ EntriesLeft' < EntriesLeft]_vars
-----------------------------------------------------------------------------
\* What the model checker may interchange: the objects that can be in a cycle,
\* and the handles.
Symmetric == Permutations(Obj \ Acyclic) \cup Permutations(Handle)
=============================================================================
