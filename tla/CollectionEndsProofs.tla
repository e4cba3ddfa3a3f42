------------------------ MODULE CollectionEndsProofs ------------------------
(***************************************************************************)
(* A collection finds all the garbage when every member is traced, and it  *)
(* ends whatever it finds: for any finite set of objects, handles and      *)
(* members.                                                                *)
(***************************************************************************)
EXTENDS CycleCollectorProofs

USE CollectorAssumption

-----------------------------------------------------------------------------
(* What the three ways of assigning a Ref<T> leave in every holder. *)
LEMMA AfterAssign ==
    ASSUME TypeOK, NEW dst \in Holder, NEW v, ref' = [ref EXCEPT ![dst] = v]
    PROVE  \A r \in Holder : ref'[r] = IF r = dst THEN v ELSE ref[r]
PROOF
  BY DEF TypeOK

\* A move assignment: the destination takes the reference and the source loses
\* it.
LEMMA AfterMove ==
    ASSUME TypeOK, NEW src \in Holder, NEW dst \in Holder, src # dst,
           ref' = [ref EXCEPT ![dst] = ref[src], ![src] = NoObj]
    PROVE  \A r \in Holder :
               ref'[r] = IF r = dst THEN ref[src] ELSE IF r = src THEN NoObj ELSE ref[r]
PROOF
  <1>1. TAKE r \in Holder
  <1>2. CASE r = dst
    BY <1>2 DEF TypeOK
  <1>3. CASE r # dst
    BY <1>3 DEF TypeOK
  <1> QED
    BY <1>2, <1>3

-----------------------------------------------------------------------------
(* Sets of objects that nothing outside them refers to. *)

\* Who refers to whom decides alone whether a set is enclosed.
LEMMA EnclosedStays ==
    ASSUME UNCHANGED <<ref, alive>>, NEW X
    PROVE  Enclosed(X)' <=> Enclosed(X)
PROOF
  <1> QED
    BY DEF Enclosed, RefsTo

\* What code names through handles that the set does not lead to lies outside it.
LEMMA AccessedFromOutside ==
    ASSUME TypeOK, NEW f, NEW X \in SUBSET Obj,
           \A x \in X : {r \in Holder : f[r] = x} \subseteq X \X Slot,
           NEW H \in SUBSET Handle, NEW r \in Accessible(H),
           r \notin Handle => \A h \in H : f[h] = ref[h]
    PROVE  r \notin X \X Slot
PROOF
  <1>1. Handle \cap (X \X Slot) = {}
    OBVIOUS
  <1>2. CASE r \in Handle
    BY <1>1, <1>2
  <1>3. CASE r \notin Handle
    <2>1. PICK h \in H, s \in Slot : r = <<ref[h], s>>
      BY <1>3 DEF Accessible
    <2>2. SUFFICES ASSUME ref[h] \in X PROVE FALSE
      BY <2>1
    <2>3. h \in Holder /\ f[h] = ref[h]
      BY <1>3 DEF Holder
    <2> QED
      BY <1>1, <2>2, <2>3
  <1> QED
    BY <1>2, <1>3

\* Of an object without members, a set loses nothing that kept it together.
LEMMA WithoutLeaf ==
    ASSUME TypeOK, NEW X \in SUBSET Obj, Enclosed(X), NEW o \in X, X \ {o} # {},
           \A s \in Slot : ref[<<o, s>>] = NoObj
    PROVE  Enclosed(X \ {o})
PROOF
  <1>1. ASSUME NEW x \in X \ {o}, NEW r \in RefsTo(x) PROVE r \in (X \ {o}) \X Slot
    <2>1. r \in X \X Slot /\ ref[r] = x
      BY <1>1 DEF Enclosed, RefsTo
    <2>2. PICK p \in X, s \in Slot : r = <<p, s>>
      BY <2>1
    <2>3. p # o
      BY <2>1, <2>2
    <2> QED
      BY <2>2, <2>3
  <1> QED
    BY <1>1 DEF Enclosed

\* A destructor, or clear_references, leaves nothing in the members of one object.
LEMMA DroppedMembers ==
    ASSUME TypeOK, NEW o \in Obj, NEW releases, DropMembers(o, releases)
    PROVE  /\ \A r \in Holder : r \notin {o} \X Slot => ref'[r] = ref[r]
           /\ \A r \in Holder : ref'[r] \in {ref[r], NoObj}
           /\ \A s \in Slot : ref'[<<o, s>>] = NoObj
PROOF
  <1>1. ref' = [r \in Holder |-> IF r \in {o} \X Slot THEN NoObj ELSE ref[r]]
    BY DEF DropMembers
  <1>2. \A s \in Slot : <<o, s>> \in Holder
    BY DEF Holder, Member
  <1> QED
    BY <1>1, <1>2

\* At rest and while the sweep runs, what the last release of an object destroys was referred to by nothing.
LEMMA DestroyedAlone ==
    ASSUME IInv, NEW o \in Obj, owed[o] > 0, count[o] = 1
    PROVE  /\ o \in alive /\ RefsTo(o) = {} /\ o \notin Held
           /\ Enclosed({o})
PROOF
  <1>1. TypeOK /\ ControlInv /\ AliveInv
    BY DEF IInv
  <1>2. Subtracted = {}
    <2>1. phase \notin {"mark", "scan", "gather"}
      BY <1>1 DEF ControlInv, Settled
    <2> QED
      BY <1>1, <2>1, WholePhases DEF TypeOK, Phases
  <1>3. Claims(o) = 1
    BY <1>2, ExactWhenWhole
  <1>4. (\A r \in Holder : ref[r] # o) /\ o \notin Held
    BY <1>1, <1>3, LastClaim
  <1>5. RefsTo(o) = {}
    BY <1>4 DEF RefsTo
  <1>6. o \in alive
    BY <1>1 DEF AliveInv, NoUseAfterFree
  <1> QED
    BY <1>4, <1>5, <1>6 DEF Enclosed

-----------------------------------------------------------------------------
(* Every step keeps the objects that have no members without. *)
LEMMA LeavesStep ==
    ASSUME IInv, LeavesInv, [Next]_vars
    PROVE  LeavesInv'
PROOF
  <1> USE DEF heapVars, objectVars, bufferVars, collectVars
  <1>i. TypeOK /\ AliveInv
    BY DEF IInv
  <1>l. (\A o \in Acyclic, s \in Slot : ref[<<o, s>>] = NoObj) /\ (collector = "none" => alive = {})
    BY DEF LeavesInv
  <1>h. /\ \A o \in Acyclic, s \in Slot : <<o, s>> \in Holder /\ <<o, s>> \notin Handle
        /\ Acyclic \subseteq Obj
    BY HolderFinite DEF Holder, Member
  <1>a. ASSUME NEW H \in SUBSET Handle, NEW r \in Accessible(H) PROVE r \notin Acyclic \X Slot
    BY <1>a, <1>h DEF Accessible
  <1>s. ASSUME UNCHANGED <<ref, alive>>, collector' = "none" => collector = "none" PROVE LeavesInv'
    BY <1>l, <1>s DEF LeavesInv
  <1>d. ASSUME \A r \in Holder : ref'[r] \in {ref[r], NoObj}, alive' \subseteq alive, collector' = collector PROVE LeavesInv'
    BY <1>l, <1>h, <1>d DEF LeavesInv
  <1>1. ASSUME NEW h \in Handle, NEW o \in Obj, MakeRef(h, o) PROVE LeavesInv'
    <2>1. collector' = "ready" /\ ref' = [ref EXCEPT ![h] = o]
      BY <1>1 DEF MakeRef
    <2>2. \A p \in Acyclic, s \in Slot : ref'[<<p, s>>] = NoObj
      <3>1. h \in Holder /\ \A r \in Holder : ref'[r] = IF r = h THEN o ELSE ref[r]
        BY <1>i, <2>1, AfterAssign DEF Holder
      <3> QED
        BY <1>h, <1>l, <3>1
    <2> QED
      BY <2>1, <2>2 DEF LeavesInv
  <1>2. ASSUME NEW src \in Holder, NEW dst \in Holder, CopyAssign(src, dst) PROVE LeavesInv'
    <2>1. dst \notin Acyclic \X Slot /\ ref' = [ref EXCEPT ![dst] = ref[src]] /\ UNCHANGED <<alive, collector>>
      BY <1>2, <1>a DEF CopyAssign
    <2>2. \A p \in Acyclic, s \in Slot : ref'[<<p, s>>] = NoObj
      <3>1. \A r \in Holder : ref'[r] = IF r = dst THEN ref[src] ELSE ref[r]
        BY <1>i, <2>1, AfterAssign
      <3>2. ASSUME NEW p \in Acyclic, NEW s \in Slot PROVE <<p, s>> # dst /\ <<p, s>> \in Holder
        <4>1. <<p, s>> \in Acyclic \X Slot
          OBVIOUS
        <4> QED
          BY <1>h, <2>1, <4>1
      <3> QED
        BY <1>l, <3>1, <3>2
    <2> QED
      BY <1>l, <2>1, <2>2 DEF LeavesInv
  <1>3. ASSUME NEW src \in Holder, NEW dst \in Holder, MoveAssign(src, dst) PROVE LeavesInv'
    <2>1. /\ dst \notin Acyclic \X Slot /\ ref' = [ref EXCEPT ![dst] = ref[src], ![src] = NoObj]
          /\ UNCHANGED <<alive, collector>>
      BY <1>3, <1>a DEF MoveAssign
    <2>2. \A p \in Acyclic, s \in Slot : ref'[<<p, s>>] = NoObj
      <3>1. \A r \in Holder :
                ref'[r] = IF r = dst THEN ref[src] ELSE IF r = src THEN NoObj ELSE ref[r]
        <4>1. src # dst
          BY <1>3 DEF MoveAssign
        <4> QED
          BY <1>i, <2>1, <4>1, AfterMove, Zenon
      <3>2. ASSUME NEW p \in Acyclic, NEW s \in Slot PROVE <<p, s>> # dst /\ <<p, s>> \in Holder
        <4>1. <<p, s>> \in Acyclic \X Slot
          OBVIOUS
        <4> QED
          BY <1>h, <2>1, <4>1
      <3> QED
        BY <1>l, <3>1, <3>2
    <2> QED
      BY <1>l, <2>1, <2>2 DEF LeavesInv
  <1>4. ASSUME NEW r \in Holder, Reset(r) PROVE LeavesInv'
    <2>1. ref' = [ref EXCEPT ![r] = NoObj] /\ UNCHANGED <<alive, collector>>
      BY <1>4 DEF Reset
    <2> QED
      BY <1>i, <1>d, <2>1 DEF TypeOK
  <1>5. ASSUME NEW o \in Obj, Release(o) PROVE LeavesInv'
    <2>1. CASE OnDestroyed(o, [owed EXCEPT ![o] = @ - 1]) /\ collector' = collector
      BY <1>i, <1>d, <2>1, DroppedMembers DEF OnDestroyed
    <2>2. CASE UNCHANGED <<ref, alive, collector>>
      BY <1>s, <2>2
    <2> QED
      BY <1>5, <2>1, <2>2 DEF Release
  <1>6. ASSUME NEW o \in Obj, ClearReferences(o) PROVE LeavesInv'
    BY <1>6, <1>i, <1>d, DroppedMembers DEF ClearReferences
  <1>7. ASSUME NEW o \in Obj, DeleteGarbage(o) PROVE LeavesInv'
    <2>1. CASE alive' = alive \ {o} /\ DropMembers(o, owed)
      BY <1>7, <1>i, <1>d, <2>1, DroppedMembers DEF DeleteGarbage
    <2>2. CASE UNCHANGED <<ref, alive>>
      BY <1>7, <1>s, <2>2 DEF DeleteGarbage
    <2> QED
      BY <1>7, <2>1, <2>2 DEF DeleteGarbage
  <1>8. CASE \/ \E b \in BOOLEAN : StartCollect(b)
             \/ \E o \in Obj : MarkGrey(o) \/ Scan(o) \/ ScanBlack(o) \/ GatherWhite(o)
    BY <1>8, <1>s DEF StartCollect, MarkGrey, Scan, ScanBlack, GatherWhite
  <1>9. CASE StartScan \/ StartGather \/ HoldGarbage \/ StartDelete \/ FinishCollect
    BY <1>9, <1>s DEF StartScan, StartGather, HoldGarbage, StartDelete, FinishCollect
  <1>10. CASE UNCHANGED vars
    BY <1>10, <1>s DEF vars
  <1> QED
    BY <1>1, <1>2, <1>3, <1>4, <1>5, <1>6, <1>7, <1>8, <1>9, <1>10, NextCases


-----------------------------------------------------------------------------
(* At rest, every enclosed set that is owed no release has a candidate in it. *)
LEMMA EnclosedBefore ==
    ASSUME TypeOK, NEW X \in SUBSET Obj, Enclosed(X)', X \subseteq alive,
           \A x \in X, r \in Holder : ref[r] = x => ref'[r] = x
    PROVE  Enclosed(X)
PROOF
  BY DEF Enclosed, RefsTo

\* While the collector rests, an enclosed set that owes no release keeps its
\* purple object.
LEMMA CandidateKept ==
    ASSUME CandidatesInv, phase = "rest", collector # "gone",
           NEW X \in SUBSET Obj, Enclosed(X),
           \A x \in X : owed[x] = 0 /\ colour'[x] = colour[x]
    PROVE  \E x \in X : colour'[x] = "Purple"
PROOF
  BY DEF CandidatesInv

\* What an assignment gives up is owed a release.
LEMMA GivenUp ==
    ASSUME TypeOK, NEW dst \in Holder, Owe(ref[dst])
    PROVE  /\ \A x \in Obj : ref[dst] = x => owed'[x] > 0
           /\ \A x \in Obj : owed'[x] = 0 => owed[x] = 0
PROOF
  <1>1. ref[dst] \in Obj \cup {NoObj} /\ owed \in [Obj -> Nat]
    BY DEF TypeOK
  <1>2. CASE ref[dst] = NoObj
    BY <1>1, <1>2 DEF Owe
  <1>3. CASE ref[dst] # NoObj
    <2>1. owed' = [owed EXCEPT ![ref[dst]] = @ + 1]
      BY <1>3 DEF Owe
    <2> QED
      BY <1>1, <1>3, <2>1
  <1> QED
    BY <1>2, <1>3

\* make_ref: the new object is referred to from outside every set.
LEMMA CandidatesMake ==
    ASSUME IInv, CandidatesInv, NEW h \in Handle, NEW o \in Obj, MakeRef(h, o)
    PROVE  CandidatesInv'
PROOF
  <1>1. TypeOK
    BY DEF IInv
  <1>2. h \in Holder /\ \A r \in Holder : ref'[r] = IF r = h THEN o ELSE ref[r]
    <2>1. h \in Holder /\ ref' = [ref EXCEPT ![h] = o]
      BY DEF Holder, MakeRef
    <2> QED
      BY <1>1, <2>1, AfterAssign
  <1>3. SUFFICES ASSUME NEW X \in SUBSET Obj, Enclosed(X)', \A x \in X : owed'[x] = 0
                 PROVE  \E x \in X : colour'[x] = "Purple"
    BY DEF CandidatesInv
  <1>4. o \notin X
    <2>1. h \in RefsTo(o)'
      BY <1>2 DEF RefsTo, Holder
    <2> QED
      BY <1>3, <2>1 DEF Enclosed
  <1>5. Enclosed(X)
    <2>1. X \subseteq alive
      BY <1>3, <1>4 DEF Enclosed, MakeRef
    <2>2. \A x \in X, r \in Holder : ref[r] = x => ref'[r] = x
      BY <1>2 DEF MakeRef
    <2> QED
      BY <1>1, <1>3, <2>1, <2>2, EnclosedBefore
  <1>6. \A x \in X : owed[x] = 0 /\ colour'[x] = colour[x]
    BY <1>1, <1>3, <1>4 DEF MakeRef, TypeOK
  <1> QED
    BY <1>5, <1>6, CandidateKept DEF MakeRef, Running

\* Copying a Ref<T> may enclose a set only by owing it a release.
LEMMA CandidatesCopy ==
    ASSUME IInv, CandidatesInv, NEW src \in Holder, NEW dst \in Holder, CopyAssign(src, dst)
    PROVE  CandidatesInv'
PROOF
  <1>1. TypeOK
    BY DEF IInv
  <1>2. \A r \in Holder : ref'[r] = IF r = dst THEN ref[src] ELSE ref[r]
    BY <1>1, AfterAssign DEF CopyAssign
  <1>0. CASE ~(phase = "rest" /\ collector # "gone")
    BY <1>0 DEF CandidatesInv, CopyAssign, collectVars
  <1>3. SUFFICES ASSUME phase = "rest", collector # "gone",
                        NEW X \in SUBSET Obj, Enclosed(X)', \A x \in X : owed'[x] = 0
                 PROVE  \E x \in X : colour'[x] = "Purple"
    BY <1>0 DEF CandidatesInv
  <1>4. src \notin X \X Slot
    <2>1. \A x \in X : {r \in Holder : ref'[r] = x} \subseteq X \X Slot
      BY <1>3 DEF Enclosed, RefsTo
    <2>2. \A h \in Handle \ {dst} : ref'[h] = ref[h]
      BY <1>2 DEF Holder
    <2>3. src \in Accessible(Handle \ {dst})
      BY DEF CopyAssign
    <2> HIDE DEF Accessible
    <2> QED
      BY <1>1, <2>1, <2>2, <2>3, AccessedFromOutside
  <1>5. ref[src] \notin X
    <2>1. ref'[src] = ref[src]
      BY <1>2
    <2> QED
      BY <1>3, <1>4, <2>1 DEF Enclosed, RefsTo
  <1>6. (\A x \in Obj : ref[dst] = x => owed'[x] > 0) /\ \A x \in Obj : owed'[x] = 0 => owed[x] = 0
    BY <1>1, GivenUp DEF CopyAssign
  <1>7. Enclosed(X)
    <2>1. X \subseteq alive
      BY <1>3 DEF Enclosed, CopyAssign
    <2>2. \A x \in X, r \in Holder : ref[r] = x => ref'[r] = x
      BY <1>2, <1>3, <1>6
    <2> QED
      BY <1>1, <1>3, <2>1, <2>2, EnclosedBefore
  <1>8. \A x \in X : owed[x] = 0 /\ colour'[x] = colour[x]
    BY <1>1, <1>3, <1>5, <1>6 DEF CopyAssign, TypeOK
  <1> QED
    BY <1>3, <1>7, <1>8, CandidateKept

\* Moving a Ref<T> may enclose a set only by owing it a release.
LEMMA CandidatesMove ==
    ASSUME IInv, CandidatesInv, NEW src \in Holder, NEW dst \in Holder, MoveAssign(src, dst)
    PROVE  CandidatesInv'
PROOF
  <1>1. TypeOK
    BY DEF IInv
  <1>2. \A r \in Holder :
            ref'[r] = IF r = dst THEN ref[src] ELSE IF r = src THEN NoObj ELSE ref[r]
    <2>1. src # dst /\ ref' = [ref EXCEPT ![dst] = ref[src], ![src] = NoObj]
      BY DEF MoveAssign
    <2> QED
      BY <1>1, <2>1, AfterMove, Zenon
  <1>0. CASE ~(phase = "rest" /\ collector # "gone")
    BY <1>0 DEF CandidatesInv, MoveAssign, collectVars
  <1>3. SUFFICES ASSUME phase = "rest", collector # "gone",
                        NEW X \in SUBSET Obj, Enclosed(X)', \A x \in X : owed'[x] = 0
                 PROVE  \E x \in X : colour'[x] = "Purple"
    BY <1>0 DEF CandidatesInv
  <1>4. dst \notin X \X Slot
    <2>1. \A x \in X : {r \in Holder : ref'[r] = x} \subseteq X \X Slot
      BY <1>3 DEF Enclosed, RefsTo
    <2>2. dst \notin Handle => \A h \in Handle \ {src} : ref'[h] = ref[h]
      BY <1>2 DEF Holder
    <2>3. dst \in Accessible(Handle \ {src})
      BY DEF MoveAssign
    <2> HIDE DEF Accessible
    <2> QED
      BY <1>1, <2>1, <2>2, <2>3, AccessedFromOutside
  <1>5. ref[src] \notin X
    <2>1. ref'[dst] = ref[src]
      BY <1>2
    <2> QED
      BY <1>3, <1>4, <2>1 DEF Enclosed, RefsTo
  <1>6. (\A x \in Obj : ref[dst] = x => owed'[x] > 0) /\ \A x \in Obj : owed'[x] = 0 => owed[x] = 0
    BY <1>1, GivenUp DEF MoveAssign
  <1>7. Enclosed(X)
    <2>1. X \subseteq alive
      BY <1>3 DEF Enclosed, MoveAssign
    <2>2. \A x \in X, r \in Holder : ref[r] = x => ref'[r] = x
      BY <1>2, <1>3, <1>5, <1>6
    <2> QED
      BY <1>1, <1>3, <2>1, <2>2, EnclosedBefore
  <1>8. \A x \in X : owed[x] = 0 /\ colour'[x] = colour[x]
    BY <1>3, <1>6 DEF MoveAssign, objectVars
  <1> QED
    BY <1>3, <1>7, <1>8, CandidateKept

\* Emptying a Ref<T> may enclose a set only by owing it a release.
LEMMA CandidatesReset ==
    ASSUME IInv, CandidatesInv, NEW dst \in Holder, Reset(dst)
    PROVE  CandidatesInv'
PROOF
  <1>1. TypeOK
    BY DEF IInv
  <1>2. \A r \in Holder : ref'[r] = IF r = dst THEN NoObj ELSE ref[r]
    BY <1>1, AfterAssign DEF Reset
  <1>0. CASE ~(phase = "rest" /\ collector # "gone")
    BY <1>0 DEF CandidatesInv, Reset, collectVars
  <1>3. SUFFICES ASSUME phase = "rest", collector # "gone",
                        NEW X \in SUBSET Obj, Enclosed(X)', \A x \in X : owed'[x] = 0
                 PROVE  \E x \in X : colour'[x] = "Purple"
    BY <1>0 DEF CandidatesInv
  <1>6. (\A x \in Obj : ref[dst] = x => owed'[x] > 0) /\ \A x \in Obj : owed'[x] = 0 => owed[x] = 0
    BY <1>1, GivenUp DEF Reset
  <1>7. Enclosed(X)
    <2>1. X \subseteq alive
      BY <1>3 DEF Enclosed, Reset
    <2>2. \A x \in X, r \in Holder : ref[r] = x => ref'[r] = x
      BY <1>2, <1>3, <1>6
    <2> QED
      BY <1>1, <1>3, <2>1, <2>2, EnclosedBefore
  <1>8. \A x \in X : owed[x] = 0 /\ colour'[x] = colour[x]
    BY <1>3, <1>6 DEF Reset, objectVars
  <1> QED
    BY <1>3, <1>7, <1>8, CandidateKept

\* A member that a destructor drops is owed a release.
LEMMA DropOwes ==
    ASSUME TypeOK, NEW o \in Obj, NEW releases \in [Obj -> Nat], DropMembers(o, releases)
    PROVE  /\ \A s \in Slot, x \in Obj : ref[<<o, s>>] = x => owed'[x] > 0
           /\ \A x \in Obj : owed'[x] = 0 => releases[x] = 0
PROOF
  <1>1. ASSUME NEW x \in Obj
        PROVE  /\ IsFiniteSet({m \in {o} \X Slot : ref[m] = x})
               /\ ReferencesHeldBy(o, x) \in Nat
    <2>1. {m \in {o} \X Slot : ref[m] = x} \in SUBSET Holder
      BY DEF Holder, Member
    <2> QED
      BY <2>1, HolderFinite DEF ReferencesHeldBy
  <1>2. \A x \in Obj : owed'[x] = releases[x] + ReferencesHeldBy(o, x)
    BY DEF DropMembers
  <1>3. ASSUME NEW s \in Slot, NEW x \in Obj, ref[<<o, s>>] = x PROVE owed'[x] > 0
    <2>1. <<o, s>> \in {m \in {o} \X Slot : ref[m] = x}
      BY <1>3
    <2>2. Cardinality({m \in {o} \X Slot : ref[m] = x}) # 0
      BY <1>1, <2>1, FS_EmptySet
    <2>3. ReferencesHeldBy(o, x) > 0
      BY <1>1, <2>2 DEF ReferencesHeldBy
    <2>4. releases[x] \in Nat /\ owed'[x] = releases[x] + ReferencesHeldBy(o, x)
      BY <1>2
    <2>5. ReferencesHeldBy(o, x) \in Nat
      BY <1>1
    <2> QED
      BY <2>3, <2>4, <2>5
  <1>4. ASSUME NEW x \in Obj, owed'[x] = 0 PROVE releases[x] = 0
    <2>1. releases[x] \in Nat /\ owed'[x] = releases[x] + ReferencesHeldBy(o, x)
      BY <1>2
    <2>2. ReferencesHeldBy(o, x) \in Nat
      BY <1>1
    <2> QED
      BY <1>4, <2>1, <2>2
  <1> QED
    BY <1>3, <1>4

\* The last release destroys an object, and what its members referred to is
\* owed one.
LEMMA CandidatesDestroy ==
    ASSUME IInv, CandidatesInv, NEW o \in Obj, owed[o] > 0,
           OnDestroyed(o, [owed EXCEPT ![o] = @ - 1]), UNCHANGED collectVars
    PROVE  CandidatesInv'
PROOF
  <1>1. TypeOK
    BY DEF IInv
  <1> DEFINE releases == [owed EXCEPT ![o] = @ - 1]
  <1>r. releases \in [Obj -> Nat] /\ \A x \in Obj : x # o => releases[x] = owed[x]
    BY <1>1 DEF TypeOK
  <1>d. DropMembers(o, releases) /\ alive' = alive \ {o} /\ colour' = [colour EXCEPT ![o] = "Black"]
    BY DEF OnDestroyed
  <1> HIDE DEF releases
  <1>0. CASE ~(phase = "rest" /\ collector # "gone")
    BY <1>0 DEF CandidatesInv, collectVars
  <1>3. SUFFICES ASSUME phase = "rest", collector # "gone",
                        NEW X \in SUBSET Obj, Enclosed(X)', \A x \in X : owed'[x] = 0
                 PROVE  \E x \in X : colour'[x] = "Purple"
    BY <1>0 DEF CandidatesInv
  <1>4. X \subseteq alive /\ o \notin X
    BY <1>3, <1>d DEF Enclosed
  <1>5. /\ \A s \in Slot, x \in Obj : ref[<<o, s>>] = x => owed'[x] > 0
        /\ \A x \in Obj : owed'[x] = 0 => releases[x] = 0
    BY <1>1, <1>r, <1>d, DropOwes
  <1>6. \A x \in X, r \in Holder : ref[r] = x => ref'[r] = x
    <2>1. \A r \in Holder : r \notin {o} \X Slot => ref'[r] = ref[r]
      BY <1>1, <1>d, DroppedMembers
    <2>2. \A r \in {o} \X Slot, x \in X : ref[r] # x
      BY <1>3, <1>5
    <2> QED
      BY <2>1, <2>2
  <1>7. Enclosed(X)
    BY <1>1, <1>3, <1>4, <1>6, EnclosedBefore
  <1>8. \A x \in X : owed[x] = 0 /\ colour'[x] = colour[x]
    BY <1>1, <1>3, <1>4, <1>5, <1>r, <1>d DEF TypeOK
  <1> QED
    BY <1>3, <1>7, <1>8, CandidateKept

\* A release that is not the last notes its object as a possible root.
LEMMA CandidatesSurvive ==
    ASSUME IInv, LeavesInv, CandidatesInv, NEW o \in Obj, owed[o] > 0, count[o] # 1,
           o \in Acyclic => UNCHANGED colour, o \notin Acyclic => NotePossibleRoot(o),
           owed' = [owed EXCEPT ![o] = @ - 1], UNCHANGED heapVars, UNCHANGED collectVars
    PROVE  CandidatesInv'
PROOF
  <1>1. TypeOK /\ ControlInv /\ AliveInv
    BY DEF IInv
  <1>0. CASE ~(phase = "rest" /\ collector # "gone")
    BY <1>0 DEF CandidatesInv, collectVars
  <1>3. SUFFICES ASSUME phase = "rest", collector # "gone",
                        NEW X \in SUBSET Obj, Enclosed(X)', \A x \in X : owed'[x] = 0
                 PROVE  \E x \in X : colour'[x] = "Purple"
    BY <1>0 DEF CandidatesInv
  <1>4. Enclosed(X)
    BY <1>3, EnclosedStays DEF heapVars
  <1>5. \A x \in Obj \ {o} : owed'[x] = owed[x] /\ colour'[x] = colour[x]
    BY <1>1 DEF TypeOK, NotePossibleRoot
  <1>6. CASE o \notin X
    BY <1>3, <1>4, <1>5, <1>6, CandidateKept
  <1>7. CASE o \in X /\ o \in Acyclic
    <2>1. owed[o] = 1
      BY <1>1, <1>3, <1>7 DEF TypeOK
    <2>2. RefsTo(o) # {}
      <3>1. SUFFICES ASSUME RefsTo(o) = {} PROVE FALSE
        OBVIOUS
      <3>2. o \notin Held
        BY <1>3 DEF Held
      <3>3. Claims(o) = 1
        BY <2>1, <3>1, <3>2, FS_EmptySet DEF Claims
      <3> QED
        BY <1>3, <3>3, WholePhases, ExactWhenWhole
    <2>3. \A s \in Slot : ref[<<o, s>>] = NoObj
      BY <1>7 DEF LeavesInv
    <2>4. X \ {o} # {}
      <3>1. PICK r \in RefsTo(o) : TRUE
        BY <2>2
      <3>2. r \in X \X Slot /\ ref[r] = o
        BY <1>4, <1>7, <3>1 DEF Enclosed, RefsTo
      <3>3. PICK p \in X, s \in Slot : r = <<p, s>>
        BY <3>2
      <3>4. p # o
        BY <2>3, <3>2, <3>3
      <3> QED
        BY <3>4
    <2>5. Enclosed(X \ {o})
      BY <1>1, <1>4, <1>7, <2>3, <2>4, WithoutLeaf
    <2>6. \E x \in X \ {o} : colour'[x] = "Purple"
      BY <1>3, <1>5, <2>5, CandidateKept
    <2> QED
      BY <2>6
  <1>8. CASE o \in X /\ o \notin Acyclic
    <2>1. collector = "ready"
      <3>1. o \in alive
        BY <1>4, <1>8 DEF Enclosed
      <3>2. collector # "none" /\ collector # "collecting"
        BY <1>1, <1>3, <3>1 DEF LeavesInv, ControlInv
      <3> QED
        BY <1>1, <1>3, <3>2 DEF TypeOK
    <2>2. colour'[o] = "Purple"
      BY <1>1, <1>8, <2>1 DEF NotePossibleRoot, TypeOK
    <2> QED
      BY <1>8, <2>2
  <1> QED
    BY <1>6, <1>7, <1>8

\* Every step leaves a candidate, or a release to come, in every enclosed set.
LEMMA CandidatesStep ==
    ASSUME IInv, LeavesInv, CandidatesInv, FoundInv, [Next]_vars
    PROVE  CandidatesInv'
PROOF
  <1> USE DEF collectVars
  <1>1. CASE UNCHANGED vars
    <2>1. UNCHANGED <<ref, alive, colour, owed, phase, collector>>
      BY <1>1 DEF vars, heapVars, objectVars
    <2>2. \A X : Enclosed(X)' <=> Enclosed(X)
      BY <2>1, EnclosedStays
    <2> QED
      BY <2>1, <2>2 DEF CandidatesInv
  <1>2. ASSUME NEW o \in Obj, Release(o) PROVE CandidatesInv'
    <2>1. CASE count[o] = 1 /\ OnDestroyed(o, [owed EXCEPT ![o] = @ - 1])
      BY <1>2, <2>1, CandidatesDestroy DEF Release
    <2>2. CASE count[o] # 1 /\ UNCHANGED heapVars
      <3>1. /\ o \in Acyclic => UNCHANGED colour
            /\ o \notin Acyclic => NotePossibleRoot(o)
            /\ owed' = [owed EXCEPT ![o] = @ - 1]
        BY <1>2, <2>2 DEF Release
      <3> QED
        BY <1>2, <2>2, <3>1, CandidatesSurvive DEF Release
    <2> QED
      BY <1>2, <2>1, <2>2 DEF Release
  <1>3. CASE \/ \E b \in BOOLEAN : StartCollect(b)
             \/ \E o \in Obj : MarkGrey(o) \/ Scan(o) \/ ScanBlack(o) \/ GatherWhite(o) \/ ClearReferences(o) \/ DeleteGarbage(o)
             \/ StartScan \/ StartGather \/ HoldGarbage \/ StartDelete
    <2>1. phase' # "rest"
      BY <1>3 DEF StartCollect, MarkGrey, Scan, ScanBlack, GatherWhite, ClearReferences,
                  DeleteGarbage, StartScan, StartGather, HoldGarbage, StartDelete
    <2> QED
      BY <2>1 DEF CandidatesInv
  <1>4. CASE FinishCollect
    <2>1. garbage = {}
      BY <1>4 DEF FinishCollect, IInv, ControlInv
    <2>2. \A X : Enclosed(X)' <=> Enclosed(X)
      BY <1>4, EnclosedStays DEF FinishCollect, heapVars
    <2>3. \A X \in SUBSET Obj : ~Enclosed(X)
      BY <1>4, <2>1 DEF FinishCollect, FoundInv, Enclosed
    <2> QED
      BY <2>2, <2>3 DEF CandidatesInv
  <1>5. CASE Next
    BY <1>2, <1>3, <1>4, <1>5, NextCases, CandidatesMake, CandidatesCopy, CandidatesMove, CandidatesReset
  <1> QED
    BY <1>1, <1>5

-----------------------------------------------------------------------------
(* What each phase of collect() is reached from, and stays in, by. *)
LEMMA MarkSteps ==
    ASSUME IInv, [Next]_vars, phase' = "mark"
    PROVE  \/ \E b \in BOOLEAN : StartCollect(b)
           \/ phase = "mark" /\ \E o \in Obj : MarkGrey(o)
           \/ phase = "mark" /\ UNCHANGED vars
PROOF
  <1>1. CASE UNCHANGED vars
    BY <1>1 DEF vars, collectVars
  <1>2. CASE Next
    <2>1. ASSUME NEW o \in Obj, Release(o) PROVE phase' \notin {"mark", "scan", "gather"}
      <3>1. TypeOK /\ ControlInv
        BY DEF IInv
      <3>2. owed[o] # 0 /\ phase' = phase
        BY <2>1, <3>1 DEF Release, TypeOK, collectVars
      <3> QED
        BY <3>1, <3>2 DEF ControlInv, Settled
    <2> QED
      BY <1>2, <2>1, NextCases DEF MakeRef, CopyAssign, MoveAssign, Reset, Running,
         MarkGrey, StartScan, Scan, ScanBlack, StartGather, GatherWhite, HoldGarbage,
         ClearReferences, StartDelete, DeleteGarbage, FinishCollect, collectVars
  <1> QED
    BY <1>1, <1>2

\* The steps that lead into, or stay in, the second and the third walk.
LEMMA ScanSteps ==
    ASSUME IInv, [Next]_vars, phase' \in {"scan", "gather"}
    PROVE  /\ phase' = "scan" =>
                  \/ StartScan
                  \/ phase = "scan" /\ \E o \in Obj : Scan(o) \/ ScanBlack(o)
                  \/ phase = "scan" /\ UNCHANGED vars
           /\ phase' = "gather" =>
                  \/ StartGather
                  \/ phase = "gather" /\ \E o \in Obj : GatherWhite(o)
                  \/ phase = "gather" /\ UNCHANGED vars
PROOF
  <1>1. CASE UNCHANGED vars
    BY <1>1 DEF vars, collectVars
  <1>2. CASE Next
    <2>1. ASSUME NEW o \in Obj, Release(o) PROVE phase' \notin {"mark", "scan", "gather"}
      <3>1. TypeOK /\ ControlInv
        BY DEF IInv
      <3>2. owed[o] # 0 /\ phase' = phase
        BY <2>1, <3>1 DEF Release, TypeOK, collectVars
      <3> QED
        BY <3>1, <3>2 DEF ControlInv, Settled
    <2> QED
      BY <1>2, <2>1, NextCases DEF MakeRef, CopyAssign, MoveAssign, Reset, Running,
         StartCollect, MarkGrey, StartScan, Scan, ScanBlack, StartGather, GatherWhite, HoldGarbage,
         ClearReferences, StartDelete, DeleteGarbage, FinishCollect, collectVars
  <1> QED
    BY <1>1, <1>2

\* The steps that lead into, or stay in, the sweep.
LEMMA SweepSteps ==
    ASSUME IInv, [Next]_vars, phase' \in {"clear", "delete"}
    PROVE  \/ phase' = "clear" /\ HoldGarbage
           \/ phase = "clear" /\ phase' = "clear" /\ \E o \in Obj : ClearReferences(o)
           \/ phase = "clear" /\ phase' = "delete" /\ StartDelete
           \/ phase = "delete" /\ phase' = "delete" /\ \E o \in Obj : DeleteGarbage(o)
           \/ phase' = phase /\ \E o \in Obj : Release(o)
           \/ phase' = phase /\ UNCHANGED vars
PROOF
  <1>1. CASE UNCHANGED vars
    BY <1>1 DEF vars, collectVars
  <1>2. CASE Next
    <2> USE DEF collectVars
    <2>1. ASSUME NEW h \in Handle, NEW o \in Obj, MakeRef(h, o) PROVE FALSE
      BY <2>1 DEF MakeRef, Running
    <2>2. ASSUME NEW src \in Holder, NEW dst \in Holder, CopyAssign(src, dst) PROVE FALSE
      BY <2>2 DEF CopyAssign, Running
    <2>3. ASSUME NEW src \in Holder, NEW dst \in Holder, MoveAssign(src, dst) PROVE FALSE
      BY <2>3 DEF MoveAssign, Running
    <2>4. ASSUME NEW r \in Holder, Reset(r) PROVE FALSE
      BY <2>4 DEF Reset, Running
    <2>5. ASSUME NEW o \in Obj, Release(o) PROVE phase' = phase
      BY <2>5 DEF Release
    <2>6. ASSUME NEW b \in BOOLEAN, StartCollect(b) PROVE FALSE
      BY <2>6 DEF StartCollect
    <2>7. ASSUME NEW o \in Obj, MarkGrey(o) PROVE FALSE
      BY <2>7 DEF MarkGrey
    <2>8. ASSUME StartScan PROVE FALSE
      BY <2>8 DEF StartScan
    <2>9. ASSUME NEW o \in Obj, Scan(o) PROVE FALSE
      BY <2>9 DEF Scan
    <2>10. ASSUME NEW o \in Obj, ScanBlack(o) PROVE FALSE
      BY <2>10 DEF ScanBlack
    <2>11. ASSUME StartGather PROVE FALSE
      BY <2>11 DEF StartGather
    <2>12. ASSUME NEW o \in Obj, GatherWhite(o) PROVE FALSE
      BY <2>12 DEF GatherWhite
    <2>13. ASSUME HoldGarbage PROVE phase' = "clear"
      BY <2>13 DEF HoldGarbage
    <2>14. ASSUME NEW o \in Obj, ClearReferences(o) PROVE phase = "clear" /\ phase' = "clear"
      BY <2>14 DEF ClearReferences
    <2>15. ASSUME StartDelete PROVE phase = "clear" /\ phase' = "delete"
      BY <2>15 DEF StartDelete
    <2>16. ASSUME NEW o \in Obj, DeleteGarbage(o) PROVE phase = "delete" /\ phase' = "delete"
      BY <2>16 DEF DeleteGarbage
    <2>17. ASSUME FinishCollect PROVE FALSE
      BY <2>17 DEF FinishCollect
    <2> QED
      BY <1>2, <2>1, <2>2, <2>3, <2>4, <2>5, <2>6, <2>7, <2>8, <2>9, <2>10, <2>11, <2>12,
         <2>13, <2>14, <2>15, <2>16, <2>17, NextCases
  <1> QED
    BY <1>1, <1>2

-----------------------------------------------------------------------------
(* When the walks begin, every enclosed set has a root in it. *)
LEMMA MarkStep ==
    ASSUME IInv, CandidatesInv, MarkInv, [Next]_vars
    PROVE  MarkInv'
PROOF
  <1> USE DEF heapVars, objectVars, bufferVars, collectVars
  <1>1. SUFFICES ASSUME phase' = "mark" PROVE MarkInv'
    BY DEF MarkInv
  <1>2. TypeOK /\ ControlInv /\ ColourInv /\ BufferInv /\ CountsInv
    BY DEF IInv
  <1>3. ASSUME NEW b \in BOOLEAN, StartCollect(b) PROVE MarkInv'
    <2>1. \A X : Enclosed(X)' <=> Enclosed(X)
      BY <1>3, EnclosedStays DEF StartCollect
    <2>2. phase = "rest" /\ collector = "ready" /\ Settled
      BY <1>3 DEF StartCollect, Running
    <2>3. ASSUME NEW X \in SUBSET Obj, Enclosed(X) PROVE X \cap roots' # {}
      <3>1. PICK x \in X : colour[x] = "Purple"
        BY <2>2, <2>3 DEF CandidatesInv, Settled
      <3>2. x \in Buffer
        BY <1>2, <3>1 DEF ColourInv, BufferInv, Buffer
      <3>3. count[x] > 0
        <4>1. count[x] = Claims(x)
          BY <2>2, WholePhases, ExactWhenWhole
        <4>2. x \in alive
          BY <2>3 DEF Enclosed
        <4> QED
          BY <1>2, <4>1, <4>2 DEF CountsInv
      <3>4. x \in roots'
        BY <1>3, <3>1, <3>2, <3>3 DEF StartCollect
      <3> QED
        BY <3>4
    <2>4. Grey' \ pending' = {}
      BY <1>2, <1>3, <2>2 DEF StartCollect, Grey, Coloured, ColourInv, ColoursAllowed
    <2> QED
      BY <2>1, <2>3, <2>4 DEF MarkInv
  <1>4. ASSUME phase = "mark", NEW o \in Obj, MarkGrey(o) PROVE MarkInv'
    <2>1. /\ \A X : Enclosed(X)' <=> Enclosed(X)
          /\ roots' = roots
      BY <1>4, EnclosedStays DEF MarkGrey
    <2>2. \A p : Children(p)' = Children(p)
      BY <1>4 DEF MarkGrey, Children
    <2>3. Grey' = Grey \cup Children(o)
      BY <1>2, <1>4, ChildrenTyped DEF MarkGrey, Grey, Coloured, TypeOK
    <2>4. pending' = (pending \ {o}) \cup (Children(o) \ Grey)
      BY <1>2, <1>4, ChildrenTyped DEF MarkGrey, Grey, Coloured
    <2> QED
      BY <1>4, <2>1, <2>2, <2>3, <2>4 DEF MarkInv
  <1>5. CASE phase = "mark" /\ UNCHANGED vars
    <2>1. \A X : Enclosed(X)' <=> Enclosed(X)
      BY <1>5, EnclosedStays DEF vars
    <2>2. UNCHANGED <<roots, Grey, pending>> /\ \A p : Children(p)' = Children(p)
      BY <1>5 DEF vars, Grey, Coloured, Children
    <2> QED
      BY <1>5, <2>1, <2>2 DEF MarkInv
  <1> QED
    BY <1>1, <1>3, <1>4, <1>5, MarkSteps

-----------------------------------------------------------------------------
(* What each walk has found holds every enclosed set, if every member is traced. *)
LEMMA ScanFinds ==
    ASSUME Untraced = {}, IInv, MarkInv, FoundInv, [Next]_vars, phase' = "scan",
           NEW X \in SUBSET Obj, Enclosed(X)'
    PROVE  X \subseteq (Grey \cup White)'
PROOF
  <1> USE DEF heapVars, objectVars, bufferVars, collectVars
  <1>1. TypeOK /\ ControlInv /\ CountsInv
    BY DEF IInv
  <1>t. Traced = Slot
    BY DEF Traced
  <1>2. CASE StartScan
    <2>1. Enclosed(X) /\ UNCHANGED <<Grey, White>>
      BY <1>2, EnclosedStays DEF StartScan, Grey, White, Coloured
    <2>2. SUFFICES ASSUME X \ Grey # {} PROVE FALSE
      BY <2>1
    <2>3. ASSUME NEW y \in X \ Grey, NEW r \in RefsTo(y) PROVE r \in (X \ Grey) \X Slot
      <3>1. r \in X \X Slot /\ ref[r] = y
        BY <2>1, <2>3 DEF Enclosed, RefsTo
      <3>2. PICK p \in X, s \in Slot : r = <<p, s>>
        BY <3>1
      <3>3. y \in Children(p)
        BY <1>t, <3>1, <3>2 DEF Children
      <3>4. p \notin Grey
        BY <1>2, <2>3, <3>3 DEF StartScan, MarkInv
      <3> QED
        BY <3>2, <3>4
    <2>4. Enclosed(X \ Grey)
      BY <2>1, <2>2, <2>3 DEF Enclosed
    <2>5. (X \ Grey) \cap roots # {}
      BY <1>2, <2>4 DEF StartScan, MarkInv
    <2> QED
      BY <1>1, <1>2, <2>5 DEF StartScan, ControlInv
  <1>3. ASSUME phase = "scan", NEW o \in Obj, Scan(o) PROVE X \subseteq (Grey \cup White)'
    <2>1. Enclosed(X) /\ X \subseteq Grey \cup White
      BY <1>3, EnclosedStays DEF Scan, FoundInv
    <2>2. \A x \in X \ {o} : x \in (Grey \cup White)'
      BY <1>1, <1>3, <2>1 DEF Scan, Grey, White, Coloured, TypeOK
    <2>3. SUFFICES ASSUME o \in X PROVE o \in (Grey \cup White)'
      BY <2>2
    <2>4. count[o] = 0
      <3>1. EdgesInto(Subtracted, o) = RefsTo(o)
        <4>1. X \subseteq Subtracted /\ Subtracted \subseteq Obj
          BY <1>1, <1>3, <2>1 DEF Subtracted, Grey, White, Coloured, TypeOK
        <4>2. RefsTo(o) \subseteq Subtracted \X Traced
          BY <1>t, <2>1, <2>3, <4>1 DEF Enclosed
        <4>3. Subtracted \X Traced \subseteq Holder
          BY <4>1, HolderFinite
        <4> QED
          BY <4>2, <4>3 DEF EdgesInto, RefsTo
      <3>2. Claims(o) = Cardinality(RefsTo(o))
        <4>1. owed[o] = 0 /\ o \notin Held
          BY <1>1, <1>3 DEF ControlInv, Settled, Held
        <4> QED
          BY <1>1, <4>1, RefsTyped DEF Claims
      <3> QED
        BY <1>1, <3>1, <3>2, RefsTyped DEF CountsInv
    <2> QED
      BY <1>1, <1>3, <2>1, <2>3, <2>4 DEF Scan, Grey, White, Coloured, TypeOK
  <1>4. ASSUME phase = "scan", NEW o \in Obj, ScanBlack(o) PROVE X \subseteq (Grey \cup White)'
    <2>1. Enclosed(X) /\ X \subseteq Grey \cup White
      BY <1>4, EnclosedStays DEF ScanBlack, FoundInv
    <2>2. o \notin X
      BY <1>1, <1>4, <2>1 DEF ScanBlack, ControlInv, Grey, White, Coloured
    <2>3. X \cap Children(o) = {}
      <3>1. SUFFICES ASSUME NEW s \in Slot, ref[<<o, s>>] \in X PROVE FALSE
        BY <1>t DEF Children
      <3>2. <<o, s>> \in RefsTo(ref[<<o, s>>])
        BY DEF RefsTo, Holder, Member
      <3> QED
        BY <2>1, <2>2, <3>1, <3>2 DEF Enclosed
    <2> QED
      BY <1>4, <2>1, <2>3 DEF ScanBlack, Grey, White, Coloured
  <1>5. CASE phase = "scan" /\ UNCHANGED vars
    BY <1>5, EnclosedStays DEF vars, FoundInv, Grey, White, Coloured
  <1> QED
    BY <1>2, <1>3, <1>4, <1>5, ScanSteps

\* When the third walk starts, and as it goes on, every enclosed set is white
\* or gathered.
LEMMA GatherFinds ==
    ASSUME IInv, FoundInv, [Next]_vars, phase' = "gather", NEW X \in SUBSET Obj, Enclosed(X)'
    PROVE  X \subseteq (White \cup garbage)'
PROOF
  <1> USE DEF heapVars, objectVars, bufferVars, collectVars
  <1>1. TypeOK /\ ScanClosed
    BY DEF IInv
  <1>2. CASE StartGather
    <2>1. Enclosed(X) /\ X \subseteq Grey \cup White
      BY <1>2, EnclosedStays DEF StartGather, FoundInv
    <2>2. Grey = {}
      BY <1>1, <1>2 DEF StartGather, ScanClosed
    <2> QED
      BY <1>2, <2>1, <2>2 DEF StartGather, White, Coloured
  <1>3. ASSUME phase = "gather", NEW o \in Obj, GatherWhite(o) PROVE X \subseteq (White \cup garbage)'
    <2>1. Enclosed(X) /\ X \subseteq White \cup garbage
      BY <1>3, EnclosedStays DEF GatherWhite, FoundInv
    <2> QED
      BY <1>1, <1>3, <2>1 DEF GatherWhite, White, Coloured, TypeOK
  <1>4. CASE phase = "gather" /\ UNCHANGED vars
    BY <1>4, EnclosedStays DEF vars, FoundInv, White, Coloured
  <1> QED
    BY <1>2, <1>3, <1>4, ScanSteps

\* No release of the sweep's own time destroys an object: nothing but its hold kept the garbage.
LEMMA SweepDestroysNone ==
    ASSUME IInv, FoundInv, phase \in {"clear", "delete"}, NEW o \in Obj, owed[o] > 0
    PROVE  count[o] # 1
PROOF
  <1>1. SUFFICES ASSUME count[o] = 1 PROVE FALSE
    OBVIOUS
  <1>2. o \notin Held /\ Enclosed({o})
    BY <1>1, DestroyedAlone
  <1> QED
    BY <1>2 DEF FoundInv, Held

\* When the sweep starts, and as it goes on, every enclosed set is among the
\* garbage.
LEMMA SweepFinds ==
    ASSUME IInv, SealInv, FoundInv, ClearedInv, [Next]_vars, phase' \in {"clear", "delete"},
           NEW X \in SUBSET Obj, Enclosed(X)'
    PROVE  X \subseteq garbage'
PROOF
  <1> USE DEF heapVars, objectVars, bufferVars, collectVars
  <1>1. TypeOK /\ ControlInv /\ AliveInv
    BY DEF IInv
  <1>2. CASE HoldGarbage
    <2>1. Enclosed(X) /\ X \subseteq White \cup garbage
      BY <1>2, EnclosedStays DEF HoldGarbage, FoundInv
    <2>2. White = {}
      BY <1>2, NoWhiteLeft DEF HoldGarbage
    <2> QED
      BY <1>2, <2>1, <2>2 DEF HoldGarbage
  <1>3. ASSUME phase = "clear", NEW o \in Obj, ClearReferences(o) PROVE X \subseteq garbage'
    <2>1. o \in garbage /\ garbage' = garbage /\ alive' = alive /\ garbage \subseteq alive
      BY <1>1, <1>3 DEF ClearReferences, ControlInv, AliveInv, NoUseAfterFree
    <2>2. \A r \in Holder : r \notin {o} \X Slot => ref'[r] = ref[r]
      BY <1>1, <1>3, DroppedMembers DEF ClearReferences
    <2>3. ASSUME NEW y \in X \cup garbage, NEW r \in RefsTo(y) PROVE r \in (X \cup garbage) \X Slot
      <3>1. CASE y \in garbage
        BY <1>3, <2>3, <3>1 DEF SealInv, GarbageSealed
      <3>2. CASE y \in X /\ r \notin {o} \X Slot
        <4>1. r \in (RefsTo(y))'
          BY <2>2, <2>3, <3>2 DEF RefsTo
        <4> QED
          BY <3>2, <4>1 DEF Enclosed
      <3>3. CASE r \in {o} \X Slot
        BY <2>1, <3>3
      <3> QED
        BY <2>3, <3>1, <3>2, <3>3
    <2>4. Enclosed(X \cup garbage)
      BY <2>1, <2>3 DEF Enclosed
    <2> QED
      BY <1>1, <1>3, <2>1, <2>4 DEF FoundInv, TypeOK
  <1>4. CASE phase = "clear" /\ phase' = "delete" /\ StartDelete
    BY <1>4, EnclosedStays DEF StartDelete, FoundInv
  <1>5. ASSUME phase = "delete", NEW o \in Obj, DeleteGarbage(o) PROVE X \subseteq garbage'
    <2>1. o \in garbage
      BY <1>1, <1>5 DEF DeleteGarbage, ControlInv
    <2>2. RefsTo(o) = {} /\ \A s \in Slot : ref[<<o, s>>] = NoObj
      BY <1>5, <2>1 DEF ClearedInv
    <2>3. count[o] = 1
      <3>1. Claims(o) = 1
        <4>1. owed[o] = 0 /\ o \in Held
          BY <1>5, <2>1 DEF DeleteGarbage, Settled, Held
        <4> QED
          BY <2>2, <4>1, FS_EmptySet DEF Claims
      <3> QED
        BY <1>5, <3>1, WholePhases, ExactWhenWhole
    <2>4. alive' = alive \ {o} /\ DropMembers(o, owed) /\ garbage' = garbage \ {o}
      BY <1>5, <2>3 DEF DeleteGarbage
    <2>5. \A r \in Holder : ref'[r] = ref[r]
      <3>1. \A r \in Holder : r \notin {o} \X Slot => ref'[r] = ref[r]
        BY <1>1, <2>4, DroppedMembers
      <3>2. \A s \in Slot : ref'[<<o, s>>] = NoObj
        BY <1>1, <2>4, DroppedMembers
      <3> QED
        BY <2>2, <3>1, <3>2
    <2>6. Enclosed(X)
      BY <1>1, <2>4, <2>5, EnclosedBefore DEF Enclosed
    <2> QED
      BY <1>5, <2>4, <2>6 DEF FoundInv, Enclosed
  <1>6. ASSUME phase' = phase, NEW o \in Obj, Release(o) PROVE X \subseteq garbage'
    <2>1. count[o] # 1
      BY <1>6, SweepDestroysNone DEF Release
    <2>2. UNCHANGED <<ref, alive, garbage>>
      BY <1>6, <2>1 DEF Release
    <2> QED
      BY <1>6, <2>2, EnclosedStays DEF FoundInv
  <1>7. CASE phase' = phase /\ UNCHANGED vars
    BY <1>7, EnclosedStays DEF vars, FoundInv
  <1> QED
    BY <1>2, <1>3, <1>4, <1>5, <1>6, <1>7, SweepSteps

\* Every step keeps the members of what has been cleared empty, and nothing
\* refers to garbage once deletion starts.
LEMMA ClearedStep ==
    ASSUME IInv, SealInv, FoundInv, ClearedInv, [Next]_vars
    PROVE  ClearedInv'
PROOF
  <1> USE DEF heapVars, objectVars, bufferVars, collectVars
  <1>1. TypeOK /\ ControlInv
    BY DEF IInv
  <1>0. SUFFICES ASSUME phase' \in {"clear", "delete"} PROVE ClearedInv'
    BY DEF ClearedInv
  <1>2. CASE phase' = "clear" /\ HoldGarbage
    BY <1>2 DEF HoldGarbage, ClearedInv
  <1>3. ASSUME phase = "clear", phase' = "clear", NEW o \in Obj, ClearReferences(o) PROVE ClearedInv'
    <2>1. /\ \A r \in Holder : ref'[r] \in {ref[r], NoObj}
          /\ \A s \in Slot : ref'[<<o, s>>] = NoObj
      BY <1>1, <1>3, DroppedMembers DEF ClearReferences
    <2>2. \A p \in garbage, s \in Slot : <<p, s>> \in Holder
      BY <1>1 DEF TypeOK, Holder, Member
    <2> QED
      BY <1>3, <2>1, <2>2 DEF ClearReferences, ClearedInv
  <1>4. CASE phase = "clear" /\ phase' = "delete" /\ StartDelete
    <2>1. \A o \in garbage, s \in Slot : ref[<<o, s>>] = NoObj
      BY <1>4 DEF StartDelete, ClearedInv
    <2>2. \A o \in garbage : RefsTo(o) = {}
      <3>1. ASSUME NEW o \in garbage, NEW r \in RefsTo(o) PROVE FALSE
        <4>1. r \in garbage \X Slot /\ ref[r] = o /\ o \in Obj
          BY <1>1, <1>4, <3>1 DEF SealInv, GarbageSealed, RefsTo, TypeOK
        <4> QED
          BY <2>1, <4>1
      <3> QED
        BY <3>1
    <2> QED
      BY <1>4, <2>1, <2>2 DEF StartDelete, ClearedInv, RefsTo
  <1>5. ASSUME phase = "delete", phase' = "delete", NEW o \in Obj, DeleteGarbage(o) PROVE ClearedInv'
    <2>1. \A r \in Holder : ref'[r] \in {ref[r], NoObj}
      BY <1>1, <1>5, DroppedMembers DEF DeleteGarbage
    <2>2. garbage' \subseteq garbage /\ garbage \subseteq Obj
      BY <1>1, <1>5 DEF DeleteGarbage, TypeOK
    <2>3. \A p \in garbage', s \in Slot : ref'[<<p, s>>] = NoObj
      <3>1. \A p \in garbage, s \in Slot : <<p, s>> \in Holder /\ ref[<<p, s>>] = NoObj
        BY <1>5, <2>2 DEF ClearedInv, Holder, Member
      <3> QED
        BY <2>1, <2>2, <3>1
    <2>4. \A p \in garbage' : RefsTo(p)' = {}
      <3>1. ASSUME NEW p \in garbage', NEW r \in Holder, ref'[r] = p PROVE FALSE
        <4>1. p \in Obj /\ p # NoObj /\ RefsTo(p) = {}
          BY <1>5, <2>2, <3>1 DEF ClearedInv
        <4> QED
          BY <2>1, <3>1, <4>1 DEF RefsTo
      <3> QED
        BY <3>1 DEF RefsTo
    <2> QED
      BY <1>5, <2>3, <2>4 DEF ClearedInv
  <1>6. ASSUME phase' = phase, NEW o \in Obj, Release(o) PROVE ClearedInv'
    <2>1. count[o] # 1
      BY <1>0, <1>6, SweepDestroysNone DEF Release
    <2>2. UNCHANGED <<ref, phase, garbage, pending>>
      BY <1>6, <2>1 DEF Release
    <2> QED
      BY <2>2 DEF ClearedInv, RefsTo
  <1>7. CASE phase' = phase /\ UNCHANGED vars
    BY <1>7 DEF vars, ClearedInv, RefsTo
  <1> QED
    BY <1>0, <1>2, <1>3, <1>4, <1>5, <1>6, <1>7, SweepSteps

\* Where every member is traced, every step keeps what a complete collection
\* rests on.
LEMMA CompleteStep ==
    Untraced = {} /\ IInv /\ SealInv /\ CompleteInv /\ [Next]_vars => CompleteInv'
PROOF
  <1>1. SUFFICES ASSUME Untraced = {}, IInv, SealInv, CompleteInv, [Next]_vars PROVE CompleteInv'
    OBVIOUS
  <1>2. LeavesInv /\ CandidatesInv /\ MarkInv /\ FoundInv /\ ClearedInv
    BY <1>1 DEF CompleteInv
  <1>3. LeavesInv' /\ CandidatesInv' /\ MarkInv' /\ ClearedInv'
    BY <1>1, <1>2, LeavesStep, CandidatesStep, MarkStep, ClearedStep
  <1>4. FoundInv'
    BY <1>1, <1>2, ScanFinds, GatherFinds, SweepFinds DEF FoundInv
  <1> QED
    BY <1>3, <1>4 DEF CompleteInv

\* Nothing is allocated at the beginning, so nothing is enclosed.
LEMMA CompleteInit == Init => CompleteInv
PROOF
  <1>1. SUFFICES ASSUME Init PROVE CompleteInv
    OBVIOUS
  <1>2. LeavesInv
    <2>1. \A o \in Acyclic, s \in Slot : <<o, s>> \in Holder
      BY DEF Holder, Member
    <2> QED
      BY <1>1, <2>1 DEF Init, LeavesInv
  <1>3. CandidatesInv
    BY <1>1 DEF Init, CandidatesInv, Enclosed
  <1> QED
    BY <1>1, <1>2, <1>3 DEF Init, CompleteInv, MarkInv, FoundInv, ClearedInv

-----------------------------------------------------------------------------
(* When collect() returns, the objects left are those that a handle leads to. *)
LEMMA ReachableIsAlive ==
    ASSUME TypeOK, AliveInv
    PROVE  Heap!Reachable \subseteq alive
PROOF
  <1>1. Heap!Closed(alive)
    <2>1. \A h \in Handle : ref[h] \in alive \cup {NoObj}
      BY DEF AliveInv, NoUseAfterFree
    <2>2. \A r \in alive \X Slot : ref[r] \in alive \cup {NoObj}
      BY DEF AliveInv, NoUseAfterFree
    <2> QED
      BY <2>1, <2>2 DEF Heap!Closed, Heap!Targets
  <1>2. alive \in SUBSET Obj
    BY DEF TypeOK
  <1> QED
    BY <1>1, <1>2 DEF Heap!Reachable

\* What no handle leads to is referred to only from what no handle leads to.
LEMMA OutOfReachIsEnclosed ==
    ASSUME TypeOK, AliveInv, alive # Heap!Reachable
    PROVE  Enclosed(alive \ Heap!Reachable)
PROOF
  <1> DEFINE X == alive \ Heap!Reachable
  <1>1. X # {} /\ X \subseteq alive
    BY ReachableIsAlive
  <1>2. ASSUME NEW x \in X, NEW r \in RefsTo(x) PROVE r \in X \X Slot
    <2>1. r \in Holder /\ ref[r] = x /\ x \in Obj /\ x # NoObj
      BY <1>2 DEF RefsTo, TypeOK
    <2>2. PICK S \in SUBSET Obj : Heap!Closed(S) /\ x \notin S
      BY <1>2, <2>1 DEF Heap!Reachable
    <2>3. r \notin Handle
      BY <2>1, <2>2 DEF Heap!Closed
    <2>4. PICK p \in Obj, s \in Slot : r = <<p, s>>
      BY <2>1, <2>3 DEF Holder, Member
    <2>5. p \in alive
      BY <2>1, <2>4 DEF AliveInv
    <2>6. p \notin Heap!Reachable
      <3>1. p \notin S
        <4>1. SUFFICES ASSUME p \in S PROVE FALSE
          OBVIOUS
        <4>2. r \in S \X Slot
          BY <2>4, <4>1
        <4>3. x \in Heap!Targets(S)
          BY <2>1, <4>2 DEF Heap!Targets
        <4> QED
          BY <2>2, <4>3 DEF Heap!Closed
      <3> QED
        BY <2>2, <3>1 DEF Heap!Reachable
    <2> QED
      BY <2>4, <2>5, <2>6
  <1> QED
    BY <1>1, <1>2 DEF Enclosed

\* When every member of an object is reported to the collector (Untraced = {}), for any number of
\* objects, handles and members a collection that returns has freed exactly the objects that no
\* chain of references leads to from a handle: at rest each set of objects that nothing outside
\* refers to has a candidate in the buffer, which is a root of the walks, and none of mark_grey,
\* scan, scan_black and gather_white passes one of its members by (cycles.cpp, collect).
THEOREM CollectionIsComplete == Untraced = {} => (Spec => CollectsAllGarbage)
PROOF
  <1>1. SUFFICES ASSUME Untraced = {} PROVE Spec => CollectsAllGarbage
    OBVIOUS
  <1>2. Untraced = {} /\ IInv /\ SealInv /\ CompleteInv /\ [Next]_vars
          => [collector = "collecting" /\ collector' # "collecting" => alive' = Heap!Reachable']_vars
    <2> USE DEF heapVars, objectVars, bufferVars, collectVars
    <2>1. SUFFICES ASSUME IInv, FoundInv, [Next]_vars, collector = "collecting", collector' # "collecting"
                   PROVE  alive' = Heap!Reachable'
      BY DEF CompleteInv
    <2>2. TypeOK /\ ControlInv /\ AliveInv
      BY <2>1 DEF IInv
    <2>3. phase # "rest"
      BY <2>1, <2>2 DEF ControlInv
    <2>4. FinishCollect
      <3>1. CASE UNCHANGED vars
        BY <2>1, <3>1 DEF vars
      <3>2. CASE Next
        BY <2>1, <2>3, <3>2, NextCases DEF MakeRef, CopyAssign, MoveAssign, Reset, Release, Running,
           StartCollect, MarkGrey, StartScan, Scan, ScanBlack, StartGather, GatherWhite, HoldGarbage,
           ClearReferences, StartDelete, DeleteGarbage
      <3> QED
        BY <2>1, <3>1, <3>2
    <2>5. garbage = {}
      BY <2>2, <2>4 DEF FinishCollect, ControlInv
    <2>6. alive = Heap!Reachable
      <3>1. SUFFICES ASSUME alive # Heap!Reachable PROVE FALSE
        OBVIOUS
      <3>2. Enclosed(alive \ Heap!Reachable)
        BY <2>2, <3>1, OutOfReachIsEnclosed
      <3>3. (alive \ Heap!Reachable) \in SUBSET Obj
        BY <2>2 DEF TypeOK
      <3> QED
        BY <2>1, <2>4, <2>5, <3>2, <3>3 DEF FoundInv, FinishCollect, Enclosed
    <2> QED
      BY <2>4, <2>6 DEF FinishCollect, Heap!Reachable, Heap!Closed, Heap!Targets
  <1>3. IInv /\ [Next]_vars => IInv'
    BY StepHolds
  <1>4. IInv /\ SealInv /\ [Next]_vars => SealInv'
    BY SealStep
  <1>5. Untraced = {} /\ IInv /\ SealInv /\ CompleteInv /\ [Next]_vars => CompleteInv'
    BY CompleteStep
  <1>6. Init => IInv /\ SealInv /\ CompleteInv
    BY InitHolds, CompleteInit DEF Init, SealInv, WhiteUncounted, GarbageSealed
  <1> QED
    BY <1>1, <1>2, <1>3, <1>4, <1>5, <1>6, PTL DEF Spec, CollectsAllGarbage

-----------------------------------------------------------------------------
(* Counting the releases owed. *)
LEMMA ReleasesFinite ==
    ASSUME NEW owes \in [Obj -> Nat]
    PROVE  IsFiniteSet(Releases(owes)) /\ Cardinality(Releases(owes)) \in Nat
PROOF
  <1>1. ASSUME NEW o \in Obj PROVE IsFiniteSet({o} \X (1 .. owes[o]))
    <2>1. IsFiniteSet(1 .. owes[o])
      BY FS_Interval
    <2> QED
      BY <2>1, FS_Singleton, FS_Product
  <1>2. IsFiniteSet({{o} \X (1 .. owes[o]) : o \in Obj})
    <2> DEFINE each == [o \in Obj |-> {o} \X (1 .. owes[o])]
    <2>1. each \in Surjection(Obj, {{o} \X (1 .. owes[o]) : o \in Obj})
      BY DEF Surjection
    <2> QED
      BY <2>1, FS_Surjection
  <1>3. IsFiniteSet(Releases(owes))
    BY <1>1, <1>2, FS_UNION DEF Releases
  <1> QED
    BY <1>3, FS_CardinalityType

\* The releases owed, each a pair of an object and a number.
LEMMA ReleasesAre ==
    ASSUME NEW owes \in [Obj -> Nat]
    PROVE  /\ \A x \in Obj, i \in Nat : <<x, i>> \in Releases(owes) <=> 1 <= i /\ i <= owes[x]
           /\ \A p \in Releases(owes) : \E x \in Obj, i \in Nat : p = <<x, i>>
PROOF
  BY DEF Releases

\* A release made is one pair less.
LEMMA OneReleaseLess ==
    ASSUME NEW owes \in [Obj -> Nat], NEW o \in Obj, owes[o] > 0
    PROVE  /\ [owes EXCEPT ![o] = @ - 1] \in [Obj -> Nat]
           /\ Cardinality(Releases([owes EXCEPT ![o] = @ - 1])) = Cardinality(Releases(owes)) - 1
PROOF
  <1> DEFINE fewer == [owes EXCEPT ![o] = @ - 1]
  <1>1. fewer \in [Obj -> Nat] /\ fewer[o] = owes[o] - 1 /\ \A x \in Obj \ {o} : fewer[x] = owes[x]
    OBVIOUS
  <1> HIDE DEF fewer
  <1>2. Releases(fewer) = Releases(owes) \ {<<o, owes[o]>>}
    <2>1. ASSUME NEW x \in Obj, NEW i \in Nat
          PROVE  <<x, i>> \in Releases(fewer) <=> <<x, i>> \in Releases(owes) /\ <<x, i>> # <<o, owes[o]>>
      <3>1. CASE x = o
        BY <1>1, <3>1, ReleasesAre
      <3>2. CASE x # o
        BY <1>1, <3>2, ReleasesAre
      <3> QED
        BY <3>1, <3>2
    <2> QED
      BY <1>1, <2>1, ReleasesAre
  <1>3. <<o, owes[o]>> \in Releases(owes)
    BY ReleasesAre
  <1>4. Cardinality(Releases(fewer)) = Cardinality(Releases(owes)) - 1
    <2>1. IsFiniteSet(Releases(owes))
      BY ReleasesFinite
    <2>2. \A S, p : IsFiniteSet(S) /\ p \in S => Cardinality(S \ {p}) = Cardinality(S) - 1
      BY FS_RemoveElement
    <2> QED
      BY <1>2, <1>3, <2>1, <2>2, Zenon
  <1> QED
    BY <1>1, <1>4 DEF fewer

\* A destructor owes one release for each member that pointed at something.
MembersOf(o) == {m \in {o} \X Slot : ref[m] # NoObj}

\* A destructor owes at most one release more for each member it drops.
LEMMA DropAddsReleases ==
    ASSUME TypeOK, NEW o \in Obj, NEW releases \in [Obj -> Nat], DropMembers(o, releases)
    PROVE  /\ owed' \in [Obj -> Nat]
           /\ Cardinality(Releases(owed')) <= Cardinality(Releases(releases)) + Cardinality(MembersOf(o))
PROOF
  <1> DEFINE at(x) == {m \in {o} \X Slot : ref[m] = x}
             number(x) == ReferencesHeldBy(o, x)
             fresh == Releases(owed') \ Releases(releases)
             entry == [x \in Obj |-> CHOOSE b : b \in Bijection(1 .. number(x), at(x))]
             member == [p \in fresh |-> entry[p[1]][p[2] - releases[p[1]]]]
  <1>1. owed' \in [Obj -> Nat]
    BY DropTyped
  <1>m. MembersOf(o) \subseteq Holder /\ IsFiniteSet(MembersOf(o)) /\ Cardinality(MembersOf(o)) \in Nat
    <2>1. MembersOf(o) \in SUBSET Holder
      BY DEF MembersOf, Holder, Member
    <2> QED
      BY <2>1, HolderFinite
  <1>2. ASSUME NEW x \in Obj
        PROVE  /\ number(x) \in Nat /\ owed'[x] = releases[x] + number(x)
               /\ entry[x] \in [1 .. number(x) -> at(x)]
               /\ \A i, j \in 1 .. number(x) : entry[x][i] = entry[x][j] => i = j
    <2>1. at(x) \in SUBSET Holder
      BY DEF Holder, Member
    <2>2. IsFiniteSet(at(x))
      BY <2>1, HolderFinite
    <2>3. number(x) = Cardinality(at(x))
      BY DEF ReferencesHeldBy
    <2>4. number(x) \in Nat
      BY <2>1, <2>3, HolderFinite
    <2>5. owed'[x] = releases[x] + number(x)
      BY DEF DropMembers
    <2>6. entry[x] \in Bijection(1 .. number(x), at(x))
      <3> HIDE DEF at, number
      <3>1. ExistsBijection(1 .. number(x), at(x))
        BY <2>2, <2>3, FS_CardinalityType
      <3> QED
        BY <3>1 DEF ExistsBijection
    <2> HIDE DEF at, number, entry
    <2> QED
      BY <2>4, <2>5, <2>6 DEF Bijection, Injection, IsInjective
  <1>3. ASSUME NEW p \in fresh
        PROVE  \E x \in Obj : \E i \in 1 .. number(x) :
                   p = <<x, releases[x] + i>> /\ member[p] = entry[x][i]
    <2>1. PICK x \in Obj, k \in Nat : p = <<x, k>>
      BY <1>1, ReleasesAre
    <2>2. releases[x] \in Nat /\ k > releases[x] /\ k <= owed'[x]
      BY <1>1, <2>1, ReleasesAre
    <2>3. k - releases[x] \in 1 .. number(x)
      <3>1. number(x) \in Nat /\ owed'[x] = releases[x] + number(x)
        BY <1>2
      <3> HIDE DEF number
      <3> QED
        BY <2>2, <3>1
    <2>4. p = <<x, releases[x] + (k - releases[x])>>
      BY <2>1, <2>2
    <2>5. member[p] = entry[x][k - releases[x]]
      <3> HIDE DEF entry
      <3> QED
        BY <2>1
    <2> QED
      BY <2>3, <2>4, <2>5
  <1>4. member \in Injection(fresh, MembersOf(o))
    <2>1. ASSUME NEW p \in fresh PROVE member[p] \in MembersOf(o)
      <3>1. PICK x \in Obj : \E i \in 1 .. number(x) : member[p] = entry[x][i]
        <4> HIDE DEF at, number, entry, member, fresh
        <4>1. PICK x \in Obj : \E i \in 1 .. number(x) :
                  p = <<x, releases[x] + i>> /\ member[p] = entry[x][i]
          BY <1>3, <2>1
        <4>2. \E i \in 1 .. number(x) : member[p] = entry[x][i]
          BY <4>1
        <4> QED
          BY <4>2
      <3>2. member[p] \in at(x)
        <4> HIDE DEF at, number, entry, member
        <4> QED
          BY <1>2, <3>1
      <3> QED
        BY <3>2 DEF MembersOf
    <2>2. ASSUME NEW p \in fresh, NEW q \in fresh, member[p] = member[q] PROVE p = q
      <3>1. PICK x \in Obj : \E i \in 1 .. number(x) : p = <<x, releases[x] + i>> /\ member[p] = entry[x][i]
        <4> HIDE DEF at, number, entry, member, fresh
        <4> QED
          BY <1>3
      <3>2. PICK y \in Obj : \E j \in 1 .. number(y) : q = <<y, releases[y] + j>> /\ member[q] = entry[y][j]
        <4> HIDE DEF at, number, entry, member, fresh
        <4> QED
          BY <1>3
      <3>i. PICK i \in 1 .. number(x) : p = <<x, releases[x] + i>> /\ member[p] = entry[x][i]
        BY <3>1
      <3>j. PICK j \in 1 .. number(y) : q = <<y, releases[y] + j>> /\ member[q] = entry[y][j]
        BY <3>2
      <3>3. entry[x][i] \in at(x) /\ entry[y][j] \in at(y)
        <4> HIDE DEF at, number, entry, member, fresh
        <4>1. entry[x] \in [1 .. number(x) -> at(x)] /\ entry[y] \in [1 .. number(y) -> at(y)]
          BY <1>2
        <4> QED
          BY <4>1
      <3>4. x = y
        BY <2>2, <3>i, <3>j, <3>3
      <3>5. i = j
        <4> HIDE DEF at, number, entry, member
        <4> QED
          BY <1>2, <2>2, <3>i, <3>j, <3>4
      <3> QED
        BY <3>i, <3>j, <3>4, <3>5
    <2>3. member \in [fresh -> MembersOf(o)]
      <3> HIDE DEF fresh, entry
      <3> QED
        BY <2>1
    <2> HIDE DEF fresh, member
    <2> QED
      BY <2>2, <2>3 DEF Injection, IsInjective
  <1> HIDE DEF member
  <1>5. Cardinality(fresh) <= Cardinality(MembersOf(o)) /\ IsFiniteSet(fresh)
    <2> HIDE DEF fresh
    <2> QED
      BY <1>m, <1>4, FS_Injection
  <1>6. Cardinality(fresh) \in Nat
    BY <1>5, FS_CardinalityType
  <1>7. Cardinality(Releases(owed')) <= Cardinality(Releases(releases)) + Cardinality(fresh)
    <2>1. Releases(owed') \subseteq Releases(releases) \cup fresh
      OBVIOUS
    <2> HIDE DEF fresh
    <2>2. /\ IsFiniteSet(Releases(releases) \cup fresh)
          /\ Cardinality(Releases(releases) \cup fresh)
               = Cardinality(Releases(releases)) + Cardinality(fresh)
                 - Cardinality(Releases(releases) \cap fresh)
      BY <1>5, ReleasesFinite, FS_Union
    <2>3. Cardinality(Releases(owed')) <= Cardinality(Releases(releases) \cup fresh)
      BY <2>1, <2>2, FS_Subset
    <2>4. Cardinality(Releases(releases) \cap fresh) \in Nat
      <3>1. IsFiniteSet(Releases(releases) \cap fresh)
        BY <1>5, FS_Intersection
      <3> QED
        BY <3>1, FS_CardinalityType
    <2>5. Cardinality(Releases(owed')) \in Nat /\ Cardinality(Releases(releases)) \in Nat
      BY <1>1, ReleasesFinite
    <2> QED
      BY <1>6, <2>2, <2>3, <2>4, <2>5
  <1>8. Cardinality(Releases(owed')) \in Nat /\ Cardinality(Releases(releases)) \in Nat
    BY <1>1, ReleasesFinite
  <1> HIDE DEF fresh
  <1> QED
    BY <1>1, <1>m, <1>5, <1>6, <1>7, <1>8

\* Dropping members leaves less to do: each was worth two, and the release it
\* becomes is worth one.
LEMMA DropLessens ==
    ASSUME TypeOK, NEW o \in Obj, NEW releases \in [Obj -> Nat], DropMembers(o, releases)
    PROVE  Cardinality(Releases(owed)') + 2 * Cardinality(Pointing')
             <= Cardinality(Releases(releases)) + 2 * Cardinality(Pointing)
PROOF
  <1>1. MembersOf(o) \subseteq Pointing /\ Pointing \subseteq Holder
    BY DEF MembersOf, Pointing, Holder, Member
  <1>2. Pointing' = Pointing \ MembersOf(o)
    BY DEF DropMembers, Pointing, MembersOf, Holder, Member
  <1>3. /\ IsFiniteSet(Pointing) /\ Cardinality(Pointing) \in Nat
        /\ Cardinality(MembersOf(o)) \in Nat
    BY <1>1, HolderFinite
  <1>4. Cardinality(Pointing') = Cardinality(Pointing) - Cardinality(MembersOf(o))
    <2>1. Pointing \cap MembersOf(o) = MembersOf(o)
      BY <1>1
    <2> QED
      BY <1>2, <1>3, <2>1, FS_Difference
  <1>5. /\ Cardinality(Releases(owed')) <= Cardinality(Releases(releases)) + Cardinality(MembersOf(o))
        /\ Cardinality(Releases(owed')) \in Nat /\ Cardinality(Releases(releases)) \in Nat
    BY DropAddsReleases, ReleasesFinite
  <1>6. Releases(owed)' = Releases(owed')
    BY DEF Releases
  <1> QED
    BY <1>3, <1>4, <1>5, <1>6

-----------------------------------------------------------------------------
(* Each step of a walk, of the sweep and of a release leaves less to do. *)
Advances ==
    \/ StagesLeft' < StagesLeft
    \/ StagesLeft' = StagesLeft /\ ChangesLeft' < ChangesLeft
    \/ /\ StagesLeft' = StagesLeft /\ ChangesLeft' = ChangesLeft
       /\ EntriesLeft' < EntriesLeft

\* Sets of objects are finite, and a proper part of one is smaller.
LEMMA SmallerSets ==
    /\ \A S \in SUBSET Obj : IsFiniteSet(S) /\ Cardinality(S) \in Nat
    /\ \A S \in SUBSET Obj, T \in SUBSET Obj :
            T \subseteq S /\ T # S => Cardinality(T) < Cardinality(S)
    /\ \A S \in SUBSET Obj, T \in SUBSET Obj : T \subseteq S => Cardinality(T) <= Cardinality(S)
PROOF
  <1>1. ASSUME NEW S \in SUBSET Obj PROVE IsFiniteSet(S) /\ Cardinality(S) \in Nat
    <2>1. IsFiniteSet(S)
      BY FS_Subset
    <2> QED
      BY <2>1, FS_CardinalityType
  <1>2. ASSUME NEW S \in SUBSET Obj, NEW T \in SUBSET Obj, T \subseteq S
        PROVE  /\ Cardinality(T) <= Cardinality(S)
               /\ T # S => Cardinality(T) < Cardinality(S)
    <2>1. T \in SUBSET S
      BY <1>2
    <2>2. Cardinality(T) <= Cardinality(S) /\ (Cardinality(S) = Cardinality(T) => S = T)
      BY <1>1, <2>1, FS_Subset
    <2> QED
      BY <1>1, <2>2
  <1> QED
    BY <1>1, <1>2

\* A step of the same walk that recolours nothing takes something off what is left of it.
LEMMA FewerEntries ==
    ASSUME TypeOK, TypeOK', UNCHANGED <<phase, colour>>,
           \/ /\ pending' \subseteq pending /\ pending' # pending /\ darken' = darken
              /\ Cardinality(Releases(owed)') + 2 * Cardinality(Pointing')
                   <= Cardinality(Releases(owed)) + 2 * Cardinality(Pointing)
           \/ /\ darken' \subseteq darken /\ darken' # darken /\ pending' = pending
              /\ UNCHANGED <<owed, ref>>
           \/ /\ UNCHANGED <<pending, darken>>
              /\ Cardinality(Releases(owed)') + 2 * Cardinality(Pointing')
                   < Cardinality(Releases(owed)) + 2 * Cardinality(Pointing)
    PROVE  Advances
PROOF
  <1>1. StagesLeft' = StagesLeft /\ ChangesLeft' = ChangesLeft
    BY DEF StagesLeft, ChangesLeft, Grey, White, Coloured
  <1>2. /\ pending \in SUBSET Obj /\ darken \in SUBSET Obj
        /\ pending' \in SUBSET Obj /\ darken' \in SUBSET Obj
    BY DEF TypeOK
  <1>3. /\ Cardinality(pending) \in Nat /\ Cardinality(darken) \in Nat
        /\ Cardinality(pending') \in Nat /\ Cardinality(darken') \in Nat
    BY <1>2, SmallerSets
  <1>4. Cardinality(Releases(owed)) \in Nat /\ Cardinality(Releases(owed)') \in Nat
    <2>1. Releases(owed)' = Releases(owed')
      BY DEF Releases
    <2> QED
      BY <2>1, ReleasesFinite DEF TypeOK
  <1>5. Cardinality(Pointing) \in Nat /\ Cardinality(Pointing') \in Nat
    <2>1. Pointing \in SUBSET Holder /\ Pointing' \in SUBSET Holder
      BY DEF Pointing
    <2> QED
      BY <2>1, HolderFinite
  <1>6. EntriesLeft' < EntriesLeft
    <2>1. CASE /\ pending' \subseteq pending /\ pending' # pending /\ darken' = darken
               /\ Cardinality(Releases(owed)') + 2 * Cardinality(Pointing')
                    <= Cardinality(Releases(owed)) + 2 * Cardinality(Pointing)
      <3>1. Cardinality(pending') < Cardinality(pending)
        BY <1>2, <2>1, SmallerSets
      <3> QED
        BY <1>3, <1>4, <1>5, <2>1, <3>1 DEF EntriesLeft
    <2>2. CASE /\ darken' \subseteq darken /\ darken' # darken /\ pending' = pending
               /\ UNCHANGED <<owed, ref>>
      <3>1. Cardinality(darken') < Cardinality(darken)
        BY <1>2, <2>2, SmallerSets
      <3>2. Releases(owed)' = Releases(owed) /\ Pointing' = Pointing
        BY <2>2 DEF Releases, Pointing
      <3> QED
        BY <1>3, <1>4, <1>5, <2>2, <3>1, <3>2 DEF EntriesLeft
    <2>3. CASE /\ UNCHANGED <<pending, darken>>
               /\ Cardinality(Releases(owed)') + 2 * Cardinality(Pointing')
                    < Cardinality(Releases(owed)) + 2 * Cardinality(Pointing)
      BY <1>3, <1>4, <1>5, <2>3 DEF EntriesLeft
    <2> QED
      BY <2>1, <2>2, <2>3
  <1> QED
    BY <1>1, <1>6 DEF Advances

\* A step that drops no member and makes no release leaves as much of both to
\* do.
LEMMA SameDrops ==
    ASSUME UNCHANGED <<owed, ref>>, TypeOK
    PROVE  Cardinality(Releases(owed)') + 2 * Cardinality(Pointing')
             <= Cardinality(Releases(owed)) + 2 * Cardinality(Pointing)
PROOF
  <1>1. Releases(owed)' = Releases(owed) /\ Pointing' = Pointing
    BY DEF Releases, Pointing
  <1>2. Cardinality(Releases(owed)) \in Nat
    BY ReleasesFinite DEF TypeOK
  <1>3. Cardinality(Pointing) \in Nat
    <2>1. Pointing \in SUBSET Holder
      BY DEF Pointing
    <2> QED
      BY <2>1, HolderFinite
  <1> QED
    BY <1>1, <1>2, <1>3

\* mark_grey leaves fewer colours to change, or as many and one entry fewer on
\* its stack.
LEMMA MarkAdvances ==
    ASSUME IInv, TypeOK', NEW o \in Obj, MarkGrey(o)
    PROVE  Advances
PROOF
  <1> USE DEF heapVars, objectVars, bufferVars, collectVars
  <1>1. TypeOK
    BY DEF IInv
  <1> DEFINE fresh == {c \in Children(o) : colour[c] # "Grey"}
  <1>2. /\ Grey' = Grey \cup fresh /\ Grey \cap fresh = {} /\ fresh \subseteq Obj
        /\ pending' = (pending \ {o}) \cup fresh /\ phase = "mark" /\ phase' = phase /\ o \in pending
        /\ UNCHANGED <<owed, ref, darken>>
        /\ fresh = {} => colour' = colour
    BY <1>1, ChildrenTyped DEF MarkGrey, Grey, Coloured, TypeOK
  <1> HIDE DEF fresh
  <1>3. CASE fresh = {}
    <2>1. pending' \subseteq pending /\ pending' # pending
      BY <1>2, <1>3
    <2> QED
      BY <1>1, <1>2, <1>3, <2>1, SameDrops, FewerEntries
  <1>4. CASE fresh # {}
    <2>1. /\ Obj \ Grey \in SUBSET Obj /\ (Obj \ Grey)' \in SUBSET Obj
          /\ (Obj \ Grey)' \subseteq Obj \ Grey /\ (Obj \ Grey)' # Obj \ Grey
      BY <1>2, <1>4
    <2>2. Cardinality((Obj \ Grey)') < Cardinality(Obj \ Grey)
      BY <2>1, SmallerSets
    <2> QED
      BY <1>2, <2>2 DEF Advances, StagesLeft, ChangesLeft
  <1> QED
    BY <1>3, <1>4

\* scan leaves fewer colours to change, or as many and one entry fewer on its
\* stack.
LEMMA ScanAdvances ==
    ASSUME IInv, TypeOK', NEW o \in Obj, Scan(o)
    PROVE  Advances
PROOF
  <1> USE DEF heapVars, objectVars, bufferVars, collectVars
  <1>1. TypeOK
    BY DEF IInv
  <1>2. phase = "scan" /\ phase' = phase /\ o \in pending /\ UNCHANGED <<owed, ref>>
    BY DEF Scan
  <1>3. CASE colour[o] # "Grey"
    <2>1. pending' \subseteq pending /\ pending' # pending /\ UNCHANGED <<colour, darken>>
      BY <1>2, <1>3 DEF Scan
    <2> QED
      BY <1>1, <1>2, <2>1, SameDrops, FewerEntries
  <1>4. CASE colour[o] = "Grey"
    <2>1. /\ Grey \in SUBSET Obj /\ White \in SUBSET Obj /\ Grey' \in SUBSET Obj /\ White' \in SUBSET Obj
          /\ Grey' \subseteq Grey /\ Grey' # Grey /\ o \notin White
          /\ White' = White \/ White' = White \cup {o}
      BY <1>1, <1>4 DEF Scan, TypeOK, Grey, White, Coloured
    <2>2. /\ Cardinality(Grey') < Cardinality(Grey)
          /\ Cardinality(Grey) \in Nat /\ Cardinality(Grey') \in Nat
          /\ Cardinality(White) \in Nat /\ IsFiniteSet(White)
      BY <2>1, SmallerSets
    <2>3. Cardinality(White') <= Cardinality(White) + 1 /\ Cardinality(White') \in Nat
      <3>1. Cardinality(White \cup {o}) = Cardinality(White) + 1
        BY <2>1, <2>2, FS_AddElement
      <3> QED
        BY <2>1, <2>2, <3>1
    <2>4. 2 * Cardinality(Grey') + Cardinality(White') < 2 * Cardinality(Grey) + Cardinality(White)
      BY <2>2, <2>3
    <2> QED
      BY <1>2, <2>4 DEF Advances, StagesLeft, ChangesLeft
  <1> QED
    BY <1>3, <1>4

\* scan_black leaves fewer colours to change, or as many and one entry fewer
\* on its stack.
LEMMA BlackAdvances ==
    ASSUME IInv, TypeOK', NEW o \in Obj, ScanBlack(o)
    PROVE  Advances
PROOF
  <1> USE DEF heapVars, objectVars, bufferVars, collectVars
  <1>1. TypeOK /\ ColourInv
    BY DEF IInv
  <1> DEFINE fresh == {c \in Children(o) : colour[c] # "Black"}
  <1>2. /\ phase = "scan" /\ phase' = phase /\ o \in darken /\ UNCHANGED <<owed, ref, pending>>
        /\ darken' = (darken \ {o}) \cup fresh
        /\ fresh = {} => colour' = colour
        /\ Grey' = Grey \ fresh /\ White' = White \ fresh
    BY <1>1, ChildrenTyped DEF ScanBlack, Grey, White, Coloured, TypeOK
  <1>3. fresh \subseteq Grey \cup White
    BY <1>1, <1>2, ChildrenTyped DEF ColourInv, ColoursAllowed, Grey, White, Coloured
  <1> HIDE DEF fresh
  <1>4. CASE fresh = {}
    <2>1. darken' \subseteq darken /\ darken' # darken
      BY <1>2, <1>4
    <2> QED
      BY <1>1, <1>2, <1>4, <2>1, FewerEntries
  <1>5. CASE fresh # {}
    <2>1. /\ Grey \in SUBSET Obj /\ White \in SUBSET Obj /\ Grey' \in SUBSET Obj /\ White' \in SUBSET Obj
          /\ Grey' \subseteq Grey /\ White' \subseteq White
          /\ Grey' # Grey \/ White' # White
      BY <1>2, <1>3, <1>5 DEF Grey, White, Coloured
    <2>2. /\ Cardinality(Grey') <= Cardinality(Grey) /\ Cardinality(White') <= Cardinality(White)
          /\ Cardinality(Grey') < Cardinality(Grey) \/ Cardinality(White') < Cardinality(White)
          /\ Cardinality(Grey) \in Nat /\ Cardinality(Grey') \in Nat
          /\ Cardinality(White) \in Nat /\ Cardinality(White') \in Nat
      BY <2>1, SmallerSets
    <2>3. 2 * Cardinality(Grey') + Cardinality(White') < 2 * Cardinality(Grey) + Cardinality(White)
      BY <2>2
    <2> QED
      BY <1>2, <2>3 DEF Advances, StagesLeft, ChangesLeft
  <1> QED
    BY <1>4, <1>5

\* collect_white leaves fewer colours to change, or as many and one entry
\* fewer on its stack.
LEMMA GatherAdvances ==
    ASSUME IInv, TypeOK', NEW o \in Obj, GatherWhite(o)
    PROVE  Advances
PROOF
  <1> USE DEF heapVars, objectVars, bufferVars, collectVars
  <1>1. TypeOK
    BY DEF IInv
  <1>2. phase = "gather" /\ phase' = phase /\ o \in pending /\ UNCHANGED <<owed, ref, darken>>
    BY DEF GatherWhite
  <1>3. CASE colour[o] # "White" \/ buffered[o]
    <2>1. pending' \subseteq pending /\ pending' # pending /\ colour' = colour
      BY <1>2, <1>3 DEF GatherWhite
    <2> QED
      BY <1>1, <1>2, <2>1, SameDrops, FewerEntries
  <1>4. CASE ~(colour[o] # "White" \/ buffered[o])
    <2>1. /\ White \in SUBSET Obj /\ White' \in SUBSET Obj
          /\ White' \subseteq White /\ White' # White
      BY <1>1, <1>4 DEF GatherWhite, TypeOK, White, Coloured
    <2>2. Cardinality(White') < Cardinality(White)
      BY <2>1, SmallerSets
    <2> QED
      BY <1>2, <2>2 DEF Advances, StagesLeft, ChangesLeft
  <1> QED
    BY <1>3, <1>4

\* The sweep has one object fewer to clear, or to delete, and what its members
\* owe is worth less.
LEMMA SweepAdvances ==
    ASSUME IInv, TypeOK', NEW o \in Obj, ClearReferences(o) \/ DeleteGarbage(o)
    PROVE  Advances
PROOF
  <1> USE DEF heapVars, objectVars, bufferVars, collectVars
  <1>1. TypeOK
    BY DEF IInv
  <1>2. /\ UNCHANGED <<phase, colour, darken>> /\ pending' \subseteq pending /\ pending' # pending
        /\ DropMembers(o, owed) \/ UNCHANGED <<owed, ref>>
    BY DEF ClearReferences, DeleteGarbage
  <1>3. Cardinality(Releases(owed)') + 2 * Cardinality(Pointing')
          <= Cardinality(Releases(owed)) + 2 * Cardinality(Pointing)
    BY <1>1, <1>2, SameDrops, DropLessens DEF TypeOK
  <1> QED
    BY <1>1, <1>2, <1>3, FewerEntries

\* A release is made: what a destructor owes for the members it drops is worth
\* less.
LEMMA ReleaseAdvances ==
    ASSUME IInv, TypeOK', NEW o \in Obj, Release(o)
    PROVE  Advances
PROOF
  <1> USE DEF heapVars, objectVars, bufferVars, collectVars
  <1>1. TypeOK /\ ControlInv /\ owed \in [Obj -> Nat]
    BY DEF IInv, TypeOK
  <1> DEFINE releases == [owed EXCEPT ![o] = @ - 1]
  <1>2. releases \in [Obj -> Nat] /\ Cardinality(Releases(releases)) = Cardinality(Releases(owed)) - 1
    BY <1>1, OneReleaseLess DEF Release
  <1>3. phase \in {"rest", "clear", "delete"}
    <2>1. owed[o] # 0
      BY <1>1 DEF Release
    <2> QED
      BY <1>1, <2>1 DEF ControlInv, Settled, TypeOK, Phases
  <1>4. Cardinality(Releases(owed)) \in Nat /\ Cardinality(Pointing) \in Nat
    <2>1. Pointing \in SUBSET Holder
      BY DEF Pointing
    <2> QED
      BY <1>1, <2>1, ReleasesFinite, HolderFinite
  <1>5. /\ UNCHANGED <<phase, pending, darken>>
        /\ DropMembers(o, releases) \/ (owed' = releases /\ UNCHANGED ref)
    BY DEF Release, OnDestroyed
  <1> HIDE DEF releases
  <1>6. Cardinality(Releases(owed)') + 2 * Cardinality(Pointing')
          < Cardinality(Releases(owed)) + 2 * Cardinality(Pointing)
    <2>1. CASE DropMembers(o, releases)
      <3>1. Cardinality(Releases(owed)') + 2 * Cardinality(Pointing')
              <= Cardinality(Releases(releases)) + 2 * Cardinality(Pointing)
        BY <1>1, <1>2, <2>1, DropLessens
      <3>2. Cardinality(Releases(owed)') \in Nat /\ Cardinality(Pointing') \in Nat
        <4>1. Releases(owed)' = Releases(owed') /\ Pointing' \in SUBSET Holder
          BY DEF Releases, Pointing
        <4> QED
          BY <4>1, ReleasesFinite, HolderFinite DEF TypeOK
      <3> QED
        BY <1>2, <1>4, <3>1, <3>2
    <2>2. CASE owed' = releases /\ UNCHANGED ref
      <3>1. Releases(owed)' = Releases(releases) /\ Pointing' = Pointing
        BY <2>2 DEF Releases, Pointing
      <3> QED
        BY <1>2, <1>4, <3>1
    <2> QED
      BY <1>5, <2>1, <2>2
  <1>7. StagesLeft' = StagesLeft /\ ChangesLeft' = ChangesLeft
    BY <1>3, <1>5 DEF StagesLeft, ChangesLeft
  <1>8. EntriesLeft' < EntriesLeft
    <2>1. Cardinality(pending) \in Nat /\ Cardinality(darken) \in Nat
      <3>1. pending \in SUBSET Obj /\ darken \in SUBSET Obj
        BY <1>1 DEF TypeOK
      <3> QED
        BY <3>1, SmallerSets
    <2>2. Cardinality(Releases(owed)') \in Nat /\ Cardinality(Pointing') \in Nat
      <3>1. Releases(owed)' = Releases(owed') /\ Pointing' \in SUBSET Holder
        BY DEF Releases, Pointing
      <3> QED
        BY <3>1, ReleasesFinite, HolderFinite DEF TypeOK
    <2> QED
      BY <1>4, <1>5, <1>6, <2>1, <2>2 DEF EntriesLeft
  <1> QED
    BY <1>7, <1>8 DEF Advances

\* For any number of objects, handles and members, every step of collect() and every release, inside
\* a collection and outside, leaves less to do: no walk comes back to an object without end, and no
\* chain of destructors goes round (cycles.cpp, the loops of collect; ref.hpp, release).
THEOREM EveryWalkAdvances == Spec => EachWalkAdvances
PROOF
  <1>1. IInv /\ [Next]_vars => [phase # "rest" \/ ~Settled => Advances]_vars
    <2> USE DEF heapVars, objectVars, bufferVars, collectVars
    <2>1. SUFFICES ASSUME IInv, Next, phase # "rest" \/ ~Settled PROVE Advances
      OBVIOUS
    <2>2. TypeOK' /\ TypeOK /\ ControlInv
      BY <2>1, TypeStep DEF IInv
    <2>3. CASE StartScan \/ StartGather \/ HoldGarbage \/ StartDelete \/ FinishCollect
      BY <2>3 DEF StartScan, StartGather, HoldGarbage, StartDelete, FinishCollect, Advances, StagesLeft
    <2>4. CASE \E o \in Obj : Release(o) \/ MarkGrey(o) \/ Scan(o) \/ ScanBlack(o) \/ GatherWhite(o)
                              \/ ClearReferences(o) \/ DeleteGarbage(o)
      BY <2>1, <2>2, <2>4, ReleaseAdvances, MarkAdvances, ScanAdvances, BlackAdvances, GatherAdvances,
         SweepAdvances
    <2>5. ~Running
      BY <2>1 DEF Running
    <2> QED
      BY <2>1, <2>3, <2>4, <2>5, NextCases DEF MakeRef, CopyAssign, MoveAssign, Reset, StartCollect
  <1>2. IInv /\ [Next]_vars => IInv'
    BY StepHolds
  <1> QED
    BY <1>1, <1>2, InitHolds, PTL DEF Spec, EachWalkAdvances, Advances
=============================================================================
