------------------------ MODULE CycleCollectorProofs ------------------------
(***************************************************************************)
(* Proofs about the cycle collector, for any finite set of objects,        *)
(* handles and members, whichever members go untraced.                     *)
(***************************************************************************)
EXTENDS CycleCollector, FiniteSetTheorems, TLAPS

USE CollectorAssumption

-----------------------------------------------------------------------------
(* Counting references. *)

RefsIn(f, x)     == {r \in Holder : f[r] = x}
HeldIn(f, o, x)  == {m \in {o} \X Slot : f[m] = x}
EdgesFrom(f, o, x) == {e \in {o} \X Traced : f[e] = x}
EdgesIn(f, S, x)   == {e \in S \X Traced : f[e] = x}

\* f with one holder pointed elsewhere, and with the members of o dropped.
Repointed(f, h, v) == [f EXCEPT ![h] = v]
Dropped(f, o) == [r \in Holder |-> IF r \in {o} \X Slot THEN NoObj ELSE f[r]]

\* There are finitely many holders of a reference, and a handle is not a
\* member.
LEMMA HolderFinite ==
    /\ IsFiniteSet(Holder)
    /\ \A S \in SUBSET Holder : IsFiniteSet(S) /\ Cardinality(S) \in Nat
    /\ Handle \subseteq Holder /\ Member \subseteq Holder /\ Handle \cap Member = {}
    /\ \A S \in SUBSET Obj : S \X Traced \subseteq Holder
PROOF
  <1>1. IsFiniteSet(Obj \X Slot)
    BY FS_Product
  <1>2. IsFiniteSet(Holder)
    BY <1>1, FS_Union DEF Holder, Member
  <1>3. \A S \in SUBSET Holder : IsFiniteSet(S) /\ Cardinality(S) \in Nat
    BY <1>2, FS_Subset, FS_CardinalityType
  <1> QED
    BY <1>2, <1>3 DEF Holder, Member, Traced

With(S, o) == S \cup {o}

\* Pointing one holder elsewhere moves one reference.
LEMMA RepointCount ==
    ASSUME NEW f \in [Holder -> Obj \cup {NoObj}], NEW h \in Holder,
           NEW v \in Obj \cup {NoObj}, NEW x \in Obj
    PROVE  Cardinality(RefsIn(Repointed(f, h, v), x))
             = Cardinality(RefsIn(f, x))
               + (IF v = x THEN 1 ELSE 0) - (IF f[h] = x THEN 1 ELSE 0)
PROOF
  <1> USE DEF Repointed
  <1> DEFINE before == {r \in Holder : f[r] = x}
             after  == {r \in Holder : Repointed(f, h, v)[r] = x}
  <1>1. IsFiniteSet(before) /\ Cardinality(before) \in Nat
    BY HolderFinite
  <1>2. CASE v = x
    <2>1. after = before \cup {h}
      BY <1>2
    <2>2. Cardinality(before \cup {h}) = IF h \in before THEN Cardinality(before) ELSE Cardinality(before) + 1
      BY <1>1, FS_AddElement
    <2>3. h \in before <=> f[h] = x
      OBVIOUS
    <2> HIDE DEF before, after
    <2>4. Cardinality(after) = Cardinality(before) + (IF v = x THEN 1 ELSE 0) - (IF f[h] = x THEN 1 ELSE 0)
      BY <1>1, <1>2, <2>1, <2>2, <2>3
    <2> QED
      BY <2>4 DEF before, after, RefsIn
  <1>3. CASE v # x
    <2>1. after = before \ {h}
      BY <1>3
    <2>2. Cardinality(before \ {h}) = IF h \in before THEN Cardinality(before) - 1 ELSE Cardinality(before)
      BY <1>1, FS_RemoveElement
    <2>3. h \in before <=> f[h] = x
      OBVIOUS
    <2> HIDE DEF before, after
    <2>4. Cardinality(after) = Cardinality(before) + (IF v = x THEN 1 ELSE 0) - (IF f[h] = x THEN 1 ELSE 0)
      BY <1>1, <1>3, <2>1, <2>2, <2>3
    <2> QED
      BY <2>4 DEF before, after, RefsIn
  <1> QED
    BY <1>2, <1>3

\* Dropping the members of an object turns its references into releases owed.
LEMMA DropCount ==
    ASSUME NEW f \in [Holder -> Obj \cup {NoObj}], NEW o \in Obj, NEW x \in Obj
    PROVE  /\ Cardinality(HeldIn(f, o, x)) \in Nat
           /\ Cardinality(RefsIn(Dropped(f, o), x)) + Cardinality(HeldIn(f, o, x))
                = Cardinality(RefsIn(f, x))
PROOF
  <1> DEFINE kept == RefsIn(Dropped(f, o), x)
             held == HeldIn(f, o, x)
             all  == RefsIn(f, x)
  <1>1. {o} \X Slot \subseteq Holder
    BY DEF Holder, Member
  <1>2. all = kept \cup held /\ kept \cap held = {}
    BY <1>1 DEF RefsIn, HeldIn, Dropped
  <1>2a. kept \in SUBSET Holder /\ held \in SUBSET Holder
    BY <1>1 DEF RefsIn, HeldIn
  <1> HIDE DEF kept, held, all
  <1>3. IsFiniteSet(kept) /\ IsFiniteSet(held)
    BY <1>2a, HolderFinite
  <1>4. Cardinality(kept) \in Nat /\ Cardinality(held) \in Nat
    BY <1>2a, HolderFinite
  <1>5. Cardinality(all) = Cardinality(kept) + Cardinality(held) - Cardinality(kept \cap held)
    BY <1>2, <1>3, FS_Union
  <1>6. Cardinality(kept \cap held) = 0
    BY <1>2, FS_EmptySet
  <1>7. Cardinality(held) \in Nat /\ Cardinality(kept) + Cardinality(held) = Cardinality(all)
    BY <1>4, <1>5, <1>6
  <1> QED
    BY <1>7 DEF kept, held, all

\* The edges of a set and of one object outside it add up.
LEMMA EdgesAdd ==
    ASSUME NEW f \in [Holder -> Obj \cup {NoObj}], NEW S \in SUBSET Obj,
           NEW o \in Obj \ S, NEW x \in Obj
    PROVE  /\ Cardinality(EdgesIn(f, S, x)) \in Nat
           /\ Cardinality(EdgesFrom(f, o, x)) \in Nat
           /\ Cardinality(EdgesIn(f, With(S, o), x))
                = Cardinality(EdgesIn(f, S, x)) + Cardinality(EdgesFrom(f, o, x))
PROOF
  <1> DEFINE A == {e \in S \X Traced : f[e] = x}
             B == {e \in {o} \X Traced : f[e] = x}
             C == {e \in With(S, o) \X Traced : f[e] = x}
  <1>1. C = A \cup B /\ A \cap B = {}
    BY DEF With
  <1>2. A \in SUBSET Holder /\ B \in SUBSET Holder
    BY DEF Holder, Member, Traced
  <1>3. IsFiniteSet(A) /\ IsFiniteSet(B) /\ Cardinality(A) \in Nat /\ Cardinality(B) \in Nat
    BY <1>2, HolderFinite
  <1> HIDE DEF A, B, C
  <1>4. Cardinality(C) = Cardinality(A) + Cardinality(B) - Cardinality(A \cap B)
    <2>1. Cardinality(A \cup B) = Cardinality(A) + Cardinality(B) - Cardinality(A \cap B)
      BY <1>3, FS_Union
    <2> QED
      BY <1>1, <2>1
  <1>5. Cardinality(A \cap B) = 0
    BY <1>1, FS_EmptySet
  <1>6. /\ Cardinality(A) \in Nat /\ Cardinality(B) \in Nat
        /\ Cardinality(C) = Cardinality(A) + Cardinality(B)
    BY <1>3, <1>4, <1>5
  <1> QED
    BY <1>6 DEF A, B, C, EdgesIn, EdgesFrom

-----------------------------------------------------------------------------
(* Every step keeps the types. *)

\* What code can name through handles is a handle or a member.
LEMMA HoldersAccessible ==
    ASSUME TypeOK, NEW H \in SUBSET Handle
    PROVE  Accessible(H) \subseteq Holder
PROOF
  <1> QED
    BY DEF Accessible, TypeOK, Holder, Member

\* The buffer of possible roots is a set of objects.
LEMMA BufferTyped ==
    ASSUME TypeOK
    PROVE  Buffer \subseteq Obj
PROOF
  <1> QED
    BY DEF Buffer, TypeOK

\* Dropping an object's members keeps the types of references and of releases
\* owed.
LEMMA DropTyped ==
    ASSUME TypeOK, NEW o \in Obj, NEW releases \in [Obj -> Nat], DropMembers(o, releases)
    PROVE  /\ ref' \in [Holder -> Obj \cup {NoObj}]
           /\ owed' \in [Obj -> Nat]
PROOF
  <1>1. \A x \in Obj : ReferencesHeldBy(o, x) \in Nat
    <2> TAKE x \in Obj
    <2>1. {m \in {o} \X Slot : ref[m] = x} \in SUBSET Holder
      BY DEF Holder, Member
    <2> QED
      BY <2>1, HolderFinite DEF ReferencesHeldBy
  <1>2. owed' = [x \in Obj |-> releases[x] + ReferencesHeldBy(o, x)]
    BY DEF DropMembers
  <1>3. ref' = [r \in Holder |-> IF r \in {o} \X Slot THEN NoObj ELSE ref[r]]
    BY DEF DropMembers
  <1>4. \A x \in Obj : releases[x] + ReferencesHeldBy(o, x) \in Nat
    BY <1>1
  <1>5. owed' \in [Obj -> Nat]
    BY <1>2, <1>4
  <1>6. ref' \in [Holder -> Obj \cup {NoObj}]
    BY <1>3 DEF TypeOK
  <1> QED
    BY <1>5, <1>6

\* Leaving the buffer of candidates keeps the types of the buffer.
LEMMA LeaveTyped ==
    ASSUME TypeOK, NEW o \in Obj, BufferInv, buffered[o], LeaveBuffer(o)
    PROVE  /\ candidates' \in Seq(Obj) /\ slot' \in [Obj -> Nat]
           /\ due' \in Nat /\ buffered' \in [Obj -> BOOLEAN]
PROOF
  <1> DEFINE n == Len(candidates)
             moved == [candidates EXCEPT ![slot[o]] = candidates[n]]
  <1>1. n \in Nat /\ n > 0 /\ candidates[n] \in Obj /\ slot[o] \in 1 .. n
    BY DEF TypeOK, BufferInv
  <1>2. moved \in Seq(Obj) /\ Len(moved) = n
    BY <1>1 DEF TypeOK
  <1>3. SubSeq(moved, 1, n - 1) \in Seq(Obj)
    <2> HIDE DEF moved, n
    <2> QED
      BY <1>1, <1>2
  <1>4. candidates' = SubSeq(moved, 1, n - 1) /\ due' = n - 1
    BY DEF LeaveBuffer
  <1>5. buffered' = [buffered EXCEPT ![o] = FALSE] /\ slot' = [slot EXCEPT ![candidates[n]] = slot[o]]
    BY DEF LeaveBuffer
  <1> HIDE DEF moved, n
  <1>6. buffered' \in [Obj -> BOOLEAN]
    BY <1>5 DEF TypeOK
  <1>7. slot' \in [Obj -> Nat]
    BY <1>1, <1>5 DEF TypeOK
  <1>8. due' \in Nat
    BY <1>1, <1>4
  <1> QED
    BY <1>3, <1>4, <1>6, <1>7, <1>8

\* The steps of Next, with the three callers of collect() in one.
LEMMA NextCases ==
    ASSUME Next
    PROVE  \/ \E h \in Handle, o \in Obj : MakeRef(h, o)
           \/ \E src, dst \in Holder : CopyAssign(src, dst)
           \/ \E src, dst \in Holder : MoveAssign(src, dst)
           \/ \E r \in Holder : Reset(r)
           \/ \E o \in Obj : Release(o)
           \/ \E b \in BOOLEAN : StartCollect(b)
           \/ \E o \in Obj : MarkGrey(o)
           \/ StartScan
           \/ \E o \in Obj : Scan(o)
           \/ \E o \in Obj : ScanBlack(o)
           \/ StartGather
           \/ \E o \in Obj : GatherWhite(o)
           \/ HoldGarbage
           \/ \E o \in Obj : ClearReferences(o)
           \/ StartDelete
           \/ \E o \in Obj : DeleteGarbage(o)
           \/ FinishCollect
PROOF
  <1> QED
    BY DEF Next, Mutate, ReleaseStep, CollectStep, CollectIfDue, CollectCycles, EndThread

\* Counts are moved by numbers: as many edges as lead to each object.
LEMMA EdgeCountsTyped ==
    ASSUME TypeOK, NEW S \in SUBSET Obj
    PROVE  /\ \A x \in Obj : Cardinality(EdgesInto(S, x)) \in Nat
           /\ Add(S) \in [Obj -> Int] /\ Subtract(S) \in [Obj -> Int]
PROOF
  <1>1. \A x \in Obj : EdgesInto(S, x) \in SUBSET Holder
    BY DEF EdgesInto, Holder, Member, Traced
  <1>2. \A x \in Obj : Cardinality(EdgesInto(S, x)) \in Nat
    BY <1>1, HolderFinite
  <1>3. \A x \in Obj : count[x] + Cardinality(EdgesInto(S, x)) \in Int /\ count[x] - Cardinality(EdgesInto(S, x)) \in Int
    BY <1>2 DEF TypeOK
  <1>4. Add(S) \in [Obj -> Int]
    BY <1>3 DEF Add
  <1>5. Subtract(S) \in [Obj -> Int]
    BY <1>3 DEF Subtract
  <1> QED
    BY <1>2, <1>4, <1>5

\* What an object's traced members refer to is a set of objects.
LEMMA ChildrenTyped ==
    ASSUME TypeOK, NEW o \in Obj
    PROVE  Children(o) \subseteq Obj
PROOF
  <1>1. \A s \in Traced : <<o, s>> \in Holder
    BY DEF Holder, Member, Traced
  <1>2. \A s \in Traced : ref[<<o, s>>] \in Obj \cup {NoObj}
    BY <1>1 DEF TypeOK
  <1> QED
    BY <1>2 DEF Children

\* Every step keeps the types.
LEMMA TypeStep ==
    ASSUME IInv, [Next]_vars
    PROVE  TypeOK'
PROOF
  <1> USE DEF Colours, Phases, heapVars, objectVars, bufferVars, collectVars, Owe
  <1> TypeOK
    BY DEF IInv
  <1>1. ASSUME NEW h \in Handle, NEW o \in Obj, MakeRef(h, o) PROVE TypeOK'
    BY <1>1, HolderFinite DEF MakeRef, TypeOK
  <1>2. ASSUME NEW src \in Holder, NEW dst \in Holder, CopyAssign(src, dst) PROVE TypeOK'
    <2>1. ref[src] \in Obj
      BY <1>2 DEF CopyAssign, TypeOK
    <2>2. ref' \in [Holder -> Obj \cup {NoObj}]
      BY <1>2, <2>1 DEF CopyAssign, TypeOK
    <2>3. owed' \in [Obj -> Nat]
      BY <1>2 DEF CopyAssign, TypeOK
    <2>4. count' \in [Obj -> Int] /\ colour' \in [Obj -> Colours]
      BY <1>2, <2>1 DEF CopyAssign, TypeOK
    <2> QED
      BY <1>2, <2>2, <2>3, <2>4 DEF CopyAssign, TypeOK
  <1>3. ASSUME NEW src \in Holder, NEW dst \in Holder, MoveAssign(src, dst) PROVE TypeOK'
    <2>1. ref' \in [Holder -> Obj \cup {NoObj}]
      BY <1>3 DEF MoveAssign, TypeOK
    <2>2. owed' \in [Obj -> Nat]
      BY <1>3 DEF MoveAssign, TypeOK
    <2> QED
      BY <1>3, <2>1, <2>2 DEF MoveAssign, TypeOK
  <1>4. ASSUME NEW r \in Holder, Reset(r) PROVE TypeOK'
    BY <1>4 DEF Reset, TypeOK
  <1>5. ASSUME NEW o \in Obj, Release(o) PROVE TypeOK'
    <2> DEFINE releases == [owed EXCEPT ![o] = @ - 1]
    <2>1. releases \in [Obj -> Nat] /\ count' \in [Obj -> Int] /\ UNCHANGED collectVars
      BY <1>5 DEF Release, TypeOK
    <2>2. CASE OnDestroyed(o, releases)
      <3>1. ref' \in [Holder -> Obj \cup {NoObj}] /\ owed' \in [Obj -> Nat]
        BY <2>1, <2>2, DropTyped DEF OnDestroyed
      <3>2. /\ candidates' \in Seq(Obj) /\ slot' \in [Obj -> Nat]
            /\ due' \in Nat /\ buffered' \in [Obj -> BOOLEAN]
        BY <2>2, LeaveTyped DEF OnDestroyed, IInv, TypeOK
      <3> QED
        BY <2>1, <2>2, <3>1, <3>2 DEF OnDestroyed, TypeOK
    <2>3. CASE UNCHANGED <<colour, buffered, slot, candidates, due>> /\ owed' = releases /\ UNCHANGED heapVars
      BY <2>1, <2>3 DEF TypeOK
    <2>4. CASE NotePossibleRoot(o) /\ owed' = releases /\ UNCHANGED heapVars
      <3>1. colour' \in [Obj -> Colours] /\ ref' \in [Holder -> Obj \cup {NoObj}] /\ alive' \subseteq Obj
        BY <2>4 DEF NotePossibleRoot, TypeOK
      <3>2. CASE UNCHANGED <<buffered, slot, candidates, due>>
        BY <2>1, <2>4, <3>1, <3>2 DEF TypeOK
      <3>3. CASE /\ buffered' = [buffered EXCEPT ![o] = TRUE]
                 /\ slot' = [slot EXCEPT ![o] = Len(candidates) + 1]
                 /\ candidates' = Append(candidates, o)
                 /\ due' = Len(candidates) + 1
        <4>1. buffered' \in [Obj -> BOOLEAN]
          BY <3>3 DEF TypeOK
        <4>2. Len(candidates) + 1 \in Nat /\ candidates' \in Seq(Obj)
          BY <3>3 DEF TypeOK
        <4>3. slot' \in [Obj -> Nat] /\ due' \in Nat
          BY <3>3, <4>2 DEF TypeOK
        <4> QED
          BY <2>1, <2>4, <3>1, <4>1, <4>2, <4>3 DEF TypeOK
      <3> QED
        BY <2>4, <3>2, <3>3 DEF NotePossibleRoot
    <2> QED
      BY <1>5, <2>2, <2>3, <2>4 DEF Release
  <1>6. ASSUME NEW b \in BOOLEAN, StartCollect(b) PROVE TypeOK'
    BY <1>6, BufferTyped DEF StartCollect, TypeOK
  <1>7. ASSUME NEW o \in Obj, MarkGrey(o) PROVE TypeOK'
    BY <1>7, EdgeCountsTyped, ChildrenTyped DEF MarkGrey, TypeOK
  <1>8. CASE StartScan
    BY <1>8 DEF StartScan, TypeOK
  <1>9. ASSUME NEW o \in Obj, Scan(o) PROVE TypeOK'
    BY <1>9, ChildrenTyped DEF Scan, TypeOK
  <1>10. ASSUME NEW o \in Obj, ScanBlack(o) PROVE TypeOK'
    BY <1>10, EdgeCountsTyped, ChildrenTyped DEF ScanBlack, TypeOK
  <1>11. CASE StartGather
    BY <1>11 DEF StartGather, TypeOK
  <1>12. ASSUME NEW o \in Obj, GatherWhite(o) PROVE TypeOK'
    BY <1>12, ChildrenTyped DEF GatherWhite, TypeOK
  <1>13. CASE HoldGarbage
    <2>1. Add(garbage) \in [Obj -> Int]
      BY EdgeCountsTyped DEF TypeOK
    <2>2. \A x \in Obj : Add(garbage)[x] + (IF x \in garbage THEN 1 ELSE 0) \in Int
      BY <2>1
    <2>3. count' \in [Obj -> Int]
      BY <1>13, <2>2 DEF HoldGarbage
    <2> QED
      BY <1>13, <2>3 DEF HoldGarbage, TypeOK
  <1>14. ASSUME NEW o \in Obj, ClearReferences(o) PROVE TypeOK'
    <2>1. ref' \in [Holder -> Obj \cup {NoObj}] /\ owed' \in [Obj -> Nat]
      BY <1>14, DropTyped DEF ClearReferences, TypeOK
    <2> QED
      BY <1>14, <2>1 DEF ClearReferences, TypeOK
  <1>15. CASE StartDelete
    BY <1>15 DEF StartDelete, TypeOK
  <1>16. ASSUME NEW o \in Obj, DeleteGarbage(o) PROVE TypeOK'
    <2>1. ref' \in [Holder -> Obj \cup {NoObj}] /\ owed' \in [Obj -> Nat]
      BY <1>16, DropTyped DEF DeleteGarbage, TypeOK
    <2> QED
      <3>1. count' \in [Obj -> Int]
        BY <1>16 DEF DeleteGarbage, TypeOK
      <3>2. alive' \subseteq Obj /\ pending' \subseteq Obj /\ garbage' \subseteq Obj
        BY <1>16 DEF DeleteGarbage, TypeOK
      <3> QED
        BY <1>16, <2>1, <3>1, <3>2 DEF DeleteGarbage, TypeOK
  <1>17. CASE FinishCollect
    <2>1. CASE ending
      <3>1. buffered' \in [Obj -> BOOLEAN]
        BY <1>17, <2>1 DEF FinishCollect, TypeOK
      <3>2. candidates' \in Seq(Obj) /\ due' \in Nat
        BY <1>17, <2>1 DEF FinishCollect
      <3> QED
        BY <1>17, <2>1, <3>1, <3>2 DEF FinishCollect, TypeOK
    <2>2. CASE ~ending
      BY <1>17, <2>2 DEF FinishCollect, TypeOK
    <2> QED
      BY <2>1, <2>2
  <1>18. CASE UNCHANGED vars
    BY <1>18 DEF vars, TypeOK
  <1> QED
    BY <1>1, <1>2, <1>3, <1>4, <1>5, <1>6, <1>7, <1>8, <1>9, <1>10, <1>11, <1>12,
       <1>13, <1>14, <1>15, <1>16, <1>17, <1>18, NextCases

-----------------------------------------------------------------------------
(* Every step keeps the buffer and the objects in agreement. *)

\* A candidate that leaves the buffer keeps the others where their slots say.
LEMMA LeaveKeepsBuffer ==
    ASSUME TypeOK, BufferInv, NEW o \in Obj, buffered[o], LeaveBuffer(o), UNCHANGED collector
    PROVE  BufferInv'
PROOF
  <1> DEFINE n == Len(candidates)
             last == candidates[n]
             moved == [candidates EXCEPT ![slot[o]] = last]
  <1>1. n \in Nat /\ n > 0 /\ last \in Obj /\ slot[o] \in 1 .. n /\ candidates[slot[o]] = o
    BY DEF TypeOK, BufferInv
  <1>2. /\ moved \in Seq(Obj) /\ Len(moved) = n
        /\ \A i \in 1 .. n : moved[i] = IF i = slot[o] THEN last ELSE candidates[i]
    <2> HIDE DEF last
    <2>1. candidates \in Seq(Obj) /\ DOMAIN candidates = 1 .. n
      BY <1>1 DEF TypeOK
    <2>2. moved \in Seq(Obj) /\ Len(moved) = n
      BY <1>1, <2>1
    <2>3. \A i \in 1 .. n : moved[i] = IF i = slot[o] THEN last ELSE candidates[i]
      BY <2>1
    <2> QED
      BY <2>2, <2>3
  <1>a. candidates' = SubSeq(moved, 1, n - 1)
    BY DEF LeaveBuffer
  <1>4. /\ slot' = [slot EXCEPT ![last] = slot[o]]
        /\ buffered' = [buffered EXCEPT ![o] = FALSE]
        /\ due' = n - 1
    BY DEF LeaveBuffer
  <1>5. \A i \in 1 .. n : candidates[i] \in Obj /\ buffered[candidates[i]] /\ slot[candidates[i]] = i
    BY DEF BufferInv, TypeOK
  <1>6. \A x \in Obj : buffered[x] => slot[x] \in 1 .. n /\ candidates[slot[x]] = x
    BY DEF BufferInv, TypeOK
  <1>b. slot \in [Obj -> Nat] /\ buffered \in [Obj -> BOOLEAN] /\ last = candidates[n] /\ n = Len(candidates)
    BY DEF TypeOK
  <1> HIDE DEF n, last, moved
  <1>3. /\ Len(candidates') = n - 1 /\ DOMAIN candidates' = 1 .. n - 1
        /\ \A i \in 1 .. n - 1 : candidates'[i] = IF i = slot[o] THEN last ELSE candidates[i]
    BY <1>1, <1>2, <1>a
  <1>7. \A i \in DOMAIN candidates' : buffered'[candidates'[i]] /\ slot'[candidates'[i]] = i
    <2> TAKE i \in DOMAIN candidates'
    <2>0. i \in 1 .. n - 1 /\ i \in 1 .. n
      BY <1>1, <1>3
    <2>1. CASE i = slot[o]
      <3>1. candidates'[i] = last /\ last # o
        BY <1>1, <1>3, <1>5, <1>b, <2>0, <2>1
      <3> QED
        BY <1>1, <1>4, <1>5, <1>b, <2>1, <3>1
    <2>2. CASE i # slot[o]
      <3>1. candidates'[i] = candidates[i] /\ candidates[i] # o /\ candidates[i] # last
        BY <1>1, <1>3, <1>5, <1>b, <2>0, <2>2
      <3> QED
        BY <1>4, <1>5, <1>b, <2>0, <3>1
    <2> QED
      BY <2>1, <2>2
  <1>8. \A x \in Obj : buffered'[x] => slot'[x] \in DOMAIN candidates' /\ candidates'[slot'[x]] = x
    <2> SUFFICES ASSUME NEW x \in Obj, buffered'[x]
                 PROVE  slot'[x] \in DOMAIN candidates' /\ candidates'[slot'[x]] = x
      OBVIOUS
    <2>1. x # o /\ buffered[x] /\ slot[x] \in 1 .. n /\ candidates[slot[x]] = x
      BY <1>4, <1>6, <1>b
    <2>2. CASE x = last
      <3>1. slot'[x] = slot[o] /\ slot[o] # n
        BY <1>1, <1>4, <1>b, <2>1, <2>2
      <3> QED
        BY <1>1, <1>3, <2>2, <3>1
    <2>3. CASE x # last
      <3>1. slot'[x] = slot[x] /\ slot[x] # n /\ slot[x] # slot[o]
        BY <1>1, <1>4, <1>b, <2>1, <2>3
      <3> QED
        BY <1>1, <1>3, <2>1, <3>1
    <2> QED
      BY <2>2, <2>3
  <1>9. collector' # "ready" => candidates' = <<>>
    <2>1. collector = "ready"
      BY <1>1, <1>b DEF BufferInv
    <2> QED
      BY <2>1
  <1> QED
    BY <1>3, <1>4, <1>7, <1>8, <1>9 DEF BufferInv

\* A possible root goes to the end of the buffer, once.
LEMMA NoteKeepsBuffer ==
    ASSUME TypeOK, BufferInv, NEW o \in Obj, NotePossibleRoot(o), UNCHANGED collector
    PROVE  BufferInv'
PROOF
  <1>1. CASE UNCHANGED <<buffered, slot, candidates, due>>
    BY <1>1 DEF BufferInv
  <1>2. CASE /\ collector = "ready" /\ ~buffered[o]
             /\ buffered' = [buffered EXCEPT ![o] = TRUE]
             /\ slot' = [slot EXCEPT ![o] = Len(candidates) + 1]
             /\ candidates' = Append(candidates, o)
             /\ due' = Len(candidates) + 1
    <2>1. \A i \in DOMAIN candidates : candidates[i] \in Obj /\ candidates[i] # o
      BY <1>2 DEF BufferInv, TypeOK
    <2>2. /\ DOMAIN candidates' = 1 .. Len(candidates) + 1
          /\ Len(candidates') = Len(candidates) + 1
          /\ candidates'[Len(candidates) + 1] = o
          /\ \A i \in DOMAIN candidates : candidates'[i] = candidates[i]
          /\ DOMAIN candidates = 1 .. Len(candidates) /\ Len(candidates) \in Nat
      <3>1. candidates \in Seq(Obj) /\ candidates' = Append(candidates, o)
        BY <1>2 DEF TypeOK
      <3> QED
        BY <3>1
    <2>a. \A i \in DOMAIN candidates : buffered[candidates[i]] /\ slot[candidates[i]] = i
      BY DEF BufferInv
    <2>b. slot \in [Obj -> Nat] /\ buffered \in [Obj -> BOOLEAN]
      BY DEF TypeOK
    <2>3. \A i \in DOMAIN candidates' : buffered'[candidates'[i]] /\ slot'[candidates'[i]] = i
      <3> TAKE i \in DOMAIN candidates'
      <3>1. CASE i \in DOMAIN candidates
        <4>1. candidates'[i] = candidates[i] /\ candidates[i] \in Obj /\ candidates[i] # o
          BY <2>1, <2>2, <3>1
        <4> QED
          BY <1>2, <2>a, <2>b, <3>1, <4>1
      <3>2. CASE i = Len(candidates) + 1
        BY <1>2, <2>2, <2>b, <3>2
      <3> QED
        BY <2>2, <3>1, <3>2
    <2>4. \A x \in Obj : buffered'[x] => slot'[x] \in DOMAIN candidates' /\ candidates'[slot'[x]] = x
      BY <1>2, <2>1, <2>2 DEF BufferInv, TypeOK
    <2> QED
      BY <1>2, <2>2, <2>3, <2>4 DEF BufferInv
  <1> QED
    BY <1>1, <1>2 DEF NotePossibleRoot

\* Every step keeps the buffer and the slots of one accord.
LEMMA BufferStep ==
    ASSUME IInv, [Next]_vars
    PROVE  BufferInv'
PROOF
  <1> USE DEF heapVars, objectVars, bufferVars, collectVars
  <1> TypeOK /\ BufferInv /\ ControlInv /\ AliveInv
    BY DEF IInv
  <1>1. ASSUME NEW h \in Handle, NEW o \in Obj, MakeRef(h, o) PROVE BufferInv'
    <2>1. ~buffered[o] /\ \A i \in DOMAIN candidates : candidates[i] \in Obj /\ candidates[i] # o
      BY <1>1 DEF MakeRef, AliveInv, BufferInv, TypeOK
    <2>2. /\ buffered' = [buffered EXCEPT ![o] = FALSE]
          /\ slot' = [slot EXCEPT ![o] = 1]
          /\ UNCHANGED <<candidates, due>> /\ collector' = "ready"
      BY <1>1 DEF MakeRef
    <2> QED
      BY <2>1, <2>2 DEF BufferInv, TypeOK
  <1>2. ASSUME NEW src \in Holder, NEW dst \in Holder, CopyAssign(src, dst) PROVE BufferInv'
    BY <1>2 DEF CopyAssign, BufferInv
  <1>3. ASSUME NEW src \in Holder, NEW dst \in Holder, MoveAssign(src, dst) PROVE BufferInv'
    BY <1>3 DEF MoveAssign, BufferInv
  <1>4. ASSUME NEW r \in Holder, Reset(r) PROVE BufferInv'
    BY <1>4 DEF Reset, BufferInv
  <1>5. ASSUME NEW o \in Obj, Release(o) PROVE BufferInv'
    <2> DEFINE releases == [owed EXCEPT ![o] = @ - 1]
    <2>0. UNCHANGED collector
      BY <1>5 DEF Release
    <2>1. CASE OnDestroyed(o, releases)
      <3>1. CASE LeaveBuffer(o) /\ buffered[o]
        BY <2>0, <3>1, LeaveKeepsBuffer
      <3>2. CASE UNCHANGED <<candidates, slot, due, buffered>>
        BY <2>0, <3>2 DEF BufferInv
      <3> QED
        BY <2>1, <3>1, <3>2 DEF OnDestroyed
    <2>2. CASE UNCHANGED <<colour, buffered, slot, candidates, due>>
      BY <2>0, <2>2 DEF BufferInv
    <2>3. CASE NotePossibleRoot(o)
      BY <2>0, <2>3, NoteKeepsBuffer
    <2> QED
      BY <1>5, <2>1, <2>2, <2>3 DEF Release
  <1>6. ASSUME NEW b \in BOOLEAN, StartCollect(b) PROVE BufferInv'
    <2>1. \A x \in Obj : ~buffered'[x]
      <3>1. \A x \in Obj : buffered[x] => x \in Buffer
        BY DEF BufferInv, Buffer
      <3>2. buffered' = [x \in Obj |-> buffered[x] /\ x \notin Buffer]
        BY <1>6 DEF StartCollect
      <3> QED
        BY <3>1, <3>2
    <2> QED
      BY <1>6, <2>1 DEF StartCollect, BufferInv
  <1>7. ASSUME NEW o \in Obj, MarkGrey(o) PROVE BufferInv'
    BY <1>7 DEF MarkGrey, BufferInv
  <1>8. CASE StartScan
    BY <1>8 DEF StartScan, BufferInv
  <1>9. ASSUME NEW o \in Obj, Scan(o) PROVE BufferInv'
    BY <1>9 DEF Scan, BufferInv
  <1>10. ASSUME NEW o \in Obj, ScanBlack(o) PROVE BufferInv'
    BY <1>10 DEF ScanBlack, BufferInv
  <1>11. CASE StartGather
    BY <1>11 DEF StartGather, BufferInv
  <1>12. ASSUME NEW o \in Obj, GatherWhite(o) PROVE BufferInv'
    BY <1>12 DEF GatherWhite, BufferInv
  <1>13. CASE HoldGarbage
    BY <1>13 DEF HoldGarbage, BufferInv
  <1>14. ASSUME NEW o \in Obj, ClearReferences(o) PROVE BufferInv'
    BY <1>14 DEF ClearReferences, BufferInv
  <1>15. CASE StartDelete
    BY <1>15 DEF StartDelete, BufferInv
  <1>16. ASSUME NEW o \in Obj, DeleteGarbage(o) PROVE BufferInv'
    BY <1>16 DEF DeleteGarbage, BufferInv
  <1>17. CASE FinishCollect
    <2>1. candidates = <<>> /\ \A x \in Obj : ~buffered[x]
      BY <1>17 DEF FinishCollect, BufferInv, ControlInv
    <2>2. candidates' = <<>> /\ due' = 0 /\ \A x \in Obj : ~buffered'[x]
      BY <1>17, <2>1 DEF FinishCollect, BufferInv, TypeOK
    <2> QED
      BY <2>2 DEF BufferInv
  <1>18. CASE UNCHANGED vars
    BY <1>18 DEF vars, BufferInv
  <1> QED
    BY <1>1, <1>2, <1>3, <1>4, <1>5, <1>6, <1>7, <1>8, <1>9, <1>10, <1>11, <1>12,
       <1>13, <1>14, <1>15, <1>16, <1>17, <1>18, NextCases

-----------------------------------------------------------------------------
(* What the counts say. *)

\* The references to an object are finitely many, and so are the claims on it.
LEMMA RefsTyped ==
    ASSUME TypeOK, NEW x \in Obj
    PROVE  /\ RefsTo(x) \in SUBSET Holder /\ IsFiniteSet(RefsTo(x))
           /\ Cardinality(RefsTo(x)) \in Nat
           /\ Claims(x) \in Nat
PROOF
  <1>1. RefsTo(x) \in SUBSET Holder
    BY DEF RefsTo
  <1>2. IsFiniteSet(RefsTo(x)) /\ Cardinality(RefsTo(x)) \in Nat
    BY <1>1, HolderFinite
  <1>3. owed[x] \in Nat
    BY DEF TypeOK
  <1> QED
    BY <1>1, <1>2, <1>3 DEF Claims

\* When no edge is subtracted, the count of an object is what claims it.
LEMMA ExactWhenWhole ==
    ASSUME IInv, Subtracted = {}, NEW x \in Obj
    PROVE  count[x] = Claims(x)
PROOF
  <1>1. EdgesInto(Subtracted, x) = {}
    BY DEF EdgesInto
  <1>2. Cardinality(EdgesInto(Subtracted, x)) = 0
    BY <1>1, FS_EmptySet
  <1>3. Claims(x) \in Nat
    BY RefsTyped DEF IInv
  <1> QED
    BY <1>2, <1>3 DEF IInv, CountsInv

\* Nothing is queued while collect() runs or when the collector is gone.
LEMMA NothingBuffered ==
    ASSUME IInv, collector # "ready" \/ phase # "rest"
    PROVE  candidates = <<>> /\ Buffer = {} /\ \A x \in Obj : ~buffered[x]
PROOF
  <1>1. candidates = <<>>
    BY DEF IInv, ControlInv, BufferInv
  <1>2. DOMAIN candidates = {}
    BY <1>1
  <1> QED
    BY <1>1, <1>2 DEF IInv, BufferInv, Buffer

\* Outside the three walks, no edge is taken out of the counts.
LEMMA WholePhases ==
    phase \in {"rest", "clear", "delete"} => Subtracted = {}
PROOF
  <1> QED
    BY DEF Subtracted

\* An object that nothing but one claim keeps has no reference left.
LEMMA LastClaim ==
    ASSUME TypeOK, NEW x \in Obj, Claims(x) = 1, owed[x] > 0 \/ x \in Held
    PROVE  /\ \A r \in Holder : ref[r] # x
           /\ owed[x] > 0 => x \notin Held /\ owed[x] = 1
           /\ x \in Held => owed[x] = 0
PROOF
  <1>1. Cardinality(RefsTo(x)) \in Nat /\ owed[x] \in Nat
    BY RefsTyped DEF TypeOK
  <1>2. Cardinality(RefsTo(x)) + owed[x] + (IF x \in Held THEN 1 ELSE 0) = 1
    BY DEF Claims
  <1>3. Cardinality(RefsTo(x)) = 0
    BY <1>1, <1>2
  <1>4. RefsTo(x) = {}
    BY <1>3, RefsTyped, FS_EmptySet
  <1> QED
    BY <1>1, <1>2, <1>4 DEF RefsTo

-----------------------------------------------------------------------------
(* Every step keeps the colours to those its phase allows. *)

\* Every step keeps the colours those of its phase.
LEMMA ColourStep ==
    ASSUME IInv, [Next]_vars
    PROVE  ColourInv'
PROOF
  <1> USE DEF heapVars, objectVars, bufferVars, collectVars, Coloured
  <1> TypeOK /\ BufferInv /\ ColourInv /\ ControlInv /\ AliveInv
    BY DEF IInv
  <1>0. colour \in [Obj -> Colours] /\ buffered \in [Obj -> BOOLEAN]
    BY DEF TypeOK
  <1>1. ASSUME NEW h \in Handle, NEW o \in Obj, MakeRef(h, o) PROVE ColourInv'
    BY <1>0, <1>1 DEF MakeRef, ColourInv, ColoursAllowed, Running
  <1>2. ASSUME NEW src \in Holder, NEW dst \in Holder, CopyAssign(src, dst) PROVE ColourInv'
    BY <1>0, <1>2 DEF CopyAssign, ColourInv, ColoursAllowed, Running
  <1>3. ASSUME NEW src \in Holder, NEW dst \in Holder, MoveAssign(src, dst) PROVE ColourInv'
    BY <1>3 DEF MoveAssign, ColourInv, ColoursAllowed
  <1>4. ASSUME NEW r \in Holder, Reset(r) PROVE ColourInv'
    BY <1>4 DEF Reset, ColourInv, ColoursAllowed
  <1>5. ASSUME NEW o \in Obj, Release(o) PROVE ColourInv'
    <2> DEFINE releases == [owed EXCEPT ![o] = @ - 1]
    <2>0. UNCHANGED collectVars
      BY <1>5 DEF Release
    <2>1. CASE OnDestroyed(o, releases)
      <3>1. colour' = [colour EXCEPT ![o] = "Black"] /\ (buffered' = buffered \/ buffered' = [buffered EXCEPT ![o] = FALSE])
        BY <2>1 DEF OnDestroyed, LeaveBuffer
      <3> QED
        BY <1>0, <2>0, <3>1 DEF ColourInv, ColoursAllowed
    <2>2. CASE UNCHANGED <<colour, buffered, slot, candidates, due>>
      BY <2>0, <2>2 DEF ColourInv, ColoursAllowed
    <2>3. CASE NotePossibleRoot(o)
      <3>1. CASE UNCHANGED <<colour, buffered>>
        BY <2>0, <3>1 DEF ColourInv, ColoursAllowed
      <3>2. CASE /\ collector = "ready" /\ colour' = [colour EXCEPT ![o] = "Purple"]
                 /\ (buffered[o] /\ buffered' = buffered) \/ buffered' = [buffered EXCEPT ![o] = TRUE]
        <4>1. phase = "rest"
          BY <3>2 DEF ControlInv
        <4> QED
          BY <1>0, <2>0, <3>2, <4>1 DEF ColourInv, ColoursAllowed
      <3> QED
        BY <2>3, <3>1, <3>2 DEF NotePossibleRoot
    <2> QED
      BY <1>5, <2>1, <2>2, <2>3 DEF Release
  <1>6. ASSUME NEW b \in BOOLEAN, StartCollect(b) PROVE ColourInv'
    <2>1. \A x \in Obj : colour[x] = "Purple" => x \in Buffer /\ count[x] > 0
      <3> SUFFICES ASSUME NEW x \in Obj, colour[x] = "Purple"
                   PROVE  x \in Buffer /\ count[x] > 0
        OBVIOUS
      <3>1. buffered[x] /\ phase = "rest"
        BY <1>6 DEF ColourInv, StartCollect, Running
      <3>2. x \in Buffer
        BY <3>1 DEF BufferInv, Buffer
      <3>3. x \in alive
        BY <3>2 DEF AliveInv, NoUseAfterFree
      <3>4. count[x] = Claims(x)
        BY <3>1, ExactWhenWhole DEF Subtracted
      <3>5. Claims(x) > 0
        BY <3>3 DEF IInv, CountsInv
      <3> QED
        BY <3>2, <3>4, <3>5
    <2>2. \A x \in Obj : colour'[x] \in {"Black", "Grey"}
      BY <1>0, <1>6, <2>1 DEF StartCollect, ColourInv, ColoursAllowed, Running
    <2> QED
      BY <1>6, <2>2 DEF StartCollect, ColourInv, ColoursAllowed
  <1>7. ASSUME NEW o \in Obj, MarkGrey(o) PROVE ColourInv'
    BY <1>0, <1>7 DEF MarkGrey, ColourInv, ColoursAllowed
  <1>8. CASE StartScan
    BY <1>8 DEF StartScan, ColourInv, ColoursAllowed
  <1>9. ASSUME NEW o \in Obj, Scan(o) PROVE ColourInv'
    BY <1>0, <1>9 DEF Scan, ColourInv, ColoursAllowed
  <1>10. ASSUME NEW o \in Obj, ScanBlack(o) PROVE ColourInv'
    BY <1>0, <1>10 DEF ScanBlack, ColourInv, ColoursAllowed
  <1>11. CASE StartGather
    <2>1. Grey = {}
      BY <1>11 DEF StartGather, IInv, ScanClosed
    <2> QED
      BY <1>11, <2>1 DEF StartGather, ColourInv, ColoursAllowed, Grey
  <1>12. ASSUME NEW o \in Obj, GatherWhite(o) PROVE ColourInv'
    BY <1>0, <1>12 DEF GatherWhite, ColourInv, ColoursAllowed
  <1>13. CASE HoldGarbage
    <2>1. White = {}
      BY <1>13 DEF HoldGarbage, IInv, GatherClosed
    <2> QED
      BY <1>0, <1>13, <2>1 DEF HoldGarbage, ColourInv, ColoursAllowed, White
  <1>14. ASSUME NEW o \in Obj, ClearReferences(o) PROVE ColourInv'
    BY <1>14 DEF ClearReferences, ColourInv, ColoursAllowed
  <1>15. CASE StartDelete
    BY <1>15 DEF StartDelete, ColourInv, ColoursAllowed
  <1>16. ASSUME NEW o \in Obj, DeleteGarbage(o) PROVE ColourInv'
    BY <1>16 DEF DeleteGarbage, ColourInv, ColoursAllowed
  <1>17. CASE FinishCollect
    BY <1>0, <1>17 DEF FinishCollect, ColourInv, ColoursAllowed
  <1>18. CASE UNCHANGED vars
    BY <1>18 DEF vars, ColourInv, ColoursAllowed
  <1> QED
    BY <1>1, <1>2, <1>3, <1>4, <1>5, <1>6, <1>7, <1>8, <1>9, <1>10, <1>11, <1>12,
       <1>13, <1>14, <1>15, <1>16, <1>17, <1>18, NextCases

-----------------------------------------------------------------------------
(* Every step keeps the control state of collect() consistent. *)

\* Every step keeps the collector's phase and its work of one accord.
LEMMA ControlStep ==
    ASSUME IInv, [Next]_vars
    PROVE  ControlInv'
PROOF
  <1> USE DEF heapVars, objectVars, bufferVars, collectVars, Coloured, Grey
  <1> TypeOK /\ ControlInv
    BY DEF IInv
  <1>0. colour \in [Obj -> Colours] /\ pending \subseteq Obj /\ roots \subseteq Obj /\ darken \subseteq Obj
    BY DEF TypeOK
  <1>1. ASSUME NEW h \in Handle, NEW o \in Obj, MakeRef(h, o) PROVE ControlInv'
    BY <1>1 DEF MakeRef, ControlInv, Running
  <1>2. ASSUME NEW src \in Holder, NEW dst \in Holder, CopyAssign(src, dst) PROVE ControlInv'
    BY <1>2 DEF CopyAssign, ControlInv, Running
  <1>3. ASSUME NEW src \in Holder, NEW dst \in Holder, MoveAssign(src, dst) PROVE ControlInv'
    BY <1>3 DEF MoveAssign, ControlInv, Running
  <1>4. ASSUME NEW r \in Holder, Reset(r) PROVE ControlInv'
    BY <1>4 DEF Reset, ControlInv, Running
  <1>5. ASSUME NEW o \in Obj, Release(o) PROVE ControlInv'
    <2>1. UNCHANGED collectVars /\ phase \notin {"mark", "scan", "gather"}
      BY <1>5 DEF Release, ControlInv, Settled
    <2> QED
      BY <2>1 DEF ControlInv
  <1>6. ASSUME NEW b \in BOOLEAN, StartCollect(b) PROVE ControlInv'
    <2>1. roots' \subseteq Grey'
      BY <1>6, BufferTyped DEF StartCollect
    <2> QED
      BY <1>6, <2>1 DEF StartCollect, ControlInv, Running, Settled
  <1>7. ASSUME NEW o \in Obj, MarkGrey(o) PROVE ControlInv'
    <2>1. Children(o) \subseteq Obj
      BY ChildrenTyped
    <2>2. pending' \cup roots' \subseteq Grey'
      BY <1>0, <1>7, <2>1 DEF MarkGrey, ControlInv
    <2> QED
      BY <1>7, <2>2 DEF MarkGrey, ControlInv, Settled
  <1>8. CASE StartScan
    BY <1>8 DEF StartScan, ControlInv, Settled
  <1>9. ASSUME NEW o \in Obj, Scan(o) PROVE ControlInv'
    BY <1>0, <1>9 DEF Scan, ControlInv, Settled
  <1>10. ASSUME NEW o \in Obj, ScanBlack(o) PROVE ControlInv'
    <2>1. Children(o) \subseteq Obj
      BY ChildrenTyped
    <2>2. \A x \in darken' : colour'[x] = "Black"
      BY <1>0, <1>10, <2>1 DEF ScanBlack, ControlInv
    <2> QED
      BY <1>10, <2>2 DEF ScanBlack, ControlInv, Settled
  <1>11. CASE StartGather
    BY <1>11 DEF StartGather, ControlInv, Settled
  <1>12. ASSUME NEW o \in Obj, GatherWhite(o) PROVE ControlInv'
    BY <1>12 DEF GatherWhite, ControlInv, Settled
  <1>13. CASE HoldGarbage
    BY <1>13 DEF HoldGarbage, ControlInv, Settled
  <1>14. ASSUME NEW o \in Obj, ClearReferences(o) PROVE ControlInv'
    BY <1>14 DEF ClearReferences, ControlInv
  <1>15. CASE StartDelete
    BY <1>15 DEF StartDelete, ControlInv
  <1>16. ASSUME NEW o \in Obj, DeleteGarbage(o) PROVE ControlInv'
    BY <1>16 DEF DeleteGarbage, ControlInv
  <1>17. CASE FinishCollect
    BY <1>17 DEF FinishCollect, ControlInv
  <1>18. CASE UNCHANGED vars
    BY <1>18 DEF vars, ControlInv, Settled
  <1> QED
    BY <1>1, <1>2, <1>3, <1>4, <1>5, <1>6, <1>7, <1>8, <1>9, <1>10, <1>11, <1>12,
       <1>13, <1>14, <1>15, <1>16, <1>17, <1>18, NextCases

-----------------------------------------------------------------------------
(* Every step keeps the walks closed: nothing greyed or whitened is missed. *)

\* Every step keeps what is left on each walk's stack enough to reach what the
\* walk has yet to see.
LEMMA ClosedStep ==
    ASSUME IInv, [Next]_vars
    PROVE  MarkClosed' /\ ScanClosed' /\ ScanPending' /\ WhiteClosed' /\ GatherClosed'
PROOF
  <1> DEFINE Closed == MarkClosed /\ ScanClosed /\ ScanPending /\ WhiteClosed /\ GatherClosed
  <1> USE DEF heapVars, objectVars, bufferVars, collectVars, Coloured, Grey, White
  <1> TypeOK /\ ControlInv /\ ColourInv /\ Closed
    BY DEF IInv
  <1>0. /\ colour \in [Obj -> Colours] /\ pending \subseteq Obj /\ roots \subseteq Obj
        /\ darken \subseteq Obj /\ garbage \subseteq Obj
    BY DEF TypeOK
  <1>c. ASSUME UNCHANGED ref, NEW p PROVE Children(p)' = Children(p)
    BY <1>c DEF Children
  <1>a. ASSUME phase' \in {"rest", "clear", "delete"} PROVE Closed'
    BY <1>a DEF MarkClosed, ScanClosed, ScanPending, WhiteClosed, GatherClosed
  <1>1. ASSUME NEW h \in Handle, NEW o \in Obj, MakeRef(h, o) PROVE Closed'
    BY <1>1, <1>a DEF MakeRef, Running
  <1>2. ASSUME NEW src \in Holder, NEW dst \in Holder, CopyAssign(src, dst) PROVE Closed'
    BY <1>2, <1>a DEF CopyAssign, Running
  <1>3. ASSUME NEW src \in Holder, NEW dst \in Holder, MoveAssign(src, dst) PROVE Closed'
    BY <1>3, <1>a DEF MoveAssign, Running
  <1>4. ASSUME NEW r \in Holder, Reset(r) PROVE Closed'
    BY <1>4, <1>a DEF Reset, Running
  <1>5. ASSUME NEW o \in Obj, Release(o) PROVE Closed'
    <2>1. phase' = phase /\ phase \notin {"mark", "scan", "gather"}
      BY <1>5 DEF Release, ControlInv, Settled
    <2> QED
      BY <2>1, <1>a DEF TypeOK, Phases
  <1>6. ASSUME NEW b \in BOOLEAN, StartCollect(b) PROVE Closed'
    <2>1. phase' = "mark" /\ Grey' = roots'
      BY <1>0, <1>6, BufferTyped DEF StartCollect, ColourInv, ColoursAllowed, Running
    <2> QED
      BY <2>1 DEF MarkClosed, ScanClosed, ScanPending, WhiteClosed, GatherClosed
  <1>7. ASSUME NEW o \in Obj, MarkGrey(o) PROVE Closed'
    <2> DEFINE fresh == {c \in Children(o) : colour[c] # "Grey"}
    <2>1. Children(o) \subseteq Obj
      BY ChildrenTyped
    <2>2. /\ phase = "mark" /\ phase' = "mark" /\ o \in Grey /\ o \in pending /\ UNCHANGED <<ref, roots>>
          /\ Grey' = Grey \cup fresh /\ pending' = (pending \ {o}) \cup fresh
          /\ fresh \cap Grey = {} /\ pending \subseteq Grey
      BY <1>0, <1>7, <2>1 DEF MarkGrey, ControlInv
    <2>3. MarkClosed'
      <3> SUFFICES ASSUME NEW X \in SUBSET Grey', X # {}, X \cap roots = {}
                   PROVE  \E p \in (Grey' \ pending') \ X : Children(p) \cap X # {}
        BY <2>2, <1>c DEF MarkClosed
      <3> HIDE DEF Grey
      <3>1. CASE X \cap Grey # {}
        <4>1. PICK p \in (Grey \ pending) \ (X \cap Grey) : Children(p) \cap (X \cap Grey) # {}
          BY <2>2, <3>1 DEF MarkClosed
        <4> QED
          BY <2>2, <4>1
      <3>2. CASE X \cap Grey = {}
        <4>1. X \subseteq fresh
          BY <2>2, <3>2
        <4>2. o \in (Grey' \ pending') \ X /\ Children(o) \cap X # {}
          BY <2>2, <4>1, <3>2
        <4> QED
          BY <4>2
      <3> QED
        BY <3>1, <3>2
    <2> QED
      BY <2>2, <2>3 DEF ScanClosed, ScanPending, WhiteClosed, GatherClosed
  <1>8. CASE StartScan
    <2>1. /\ phase = "mark" /\ phase' = "scan" /\ pending = {} /\ pending' = roots
          /\ UNCHANGED <<ref, roots, colour, darken>> /\ darken = {} /\ White = {}
      BY <1>8 DEF StartScan, ControlInv, ColourInv, ColoursAllowed
    <2> QED
      BY <2>1, <1>c DEF MarkClosed, ScanClosed, ScanPending, WhiteClosed, GatherClosed
  <1>9. ASSUME NEW o \in Obj, Scan(o) PROVE Closed'
    <2>0. /\ phase = "scan" /\ phase' = "scan" /\ darken = {} /\ o \in pending /\ UNCHANGED <<ref, roots>>
      BY <1>9 DEF Scan
    <2>1. CASE colour[o] # "Grey" /\ pending' = pending \ {o} /\ UNCHANGED <<colour, darken>>
      BY <2>0, <2>1, <1>c DEF MarkClosed, ScanClosed, ScanPending, WhiteClosed, GatherClosed
    <2>2. CASE /\ colour[o] = "Grey" /\ colour' = [colour EXCEPT ![o] = "Black"]
               /\ darken' = {o} /\ pending' = pending \ {o}
      <3>1. Grey' = Grey \ {o} /\ White' = White /\ o \in Grey
        BY <1>0, <2>2
      <3> HIDE DEF Grey, White
      <3> QED
        BY <2>0, <2>2, <3>1, <1>c DEF MarkClosed, ScanClosed, ScanPending, WhiteClosed, GatherClosed
    <2>3. CASE /\ colour[o] = "Grey" /\ colour' = [colour EXCEPT ![o] = "White"]
               /\ pending' = (pending \ {o}) \cup Children(o) /\ UNCHANGED darken
      <3>1. Grey' = Grey \ {o} /\ White' = White \cup {o} /\ o \in Grey /\ o \notin White
        BY <1>0, <2>3
      <3> HIDE DEF Grey, White
      <3>2. ScanClosed'
        BY <2>0, <2>3, <3>1, <1>c DEF ScanClosed
      <3>3. ScanPending'
        BY <2>0, <2>3, <3>1, <1>c DEF ScanPending
      <3>4. WhiteClosed'
        <4> SUFFICES ASSUME NEW X \in SUBSET White', X # {}, X \cap roots = {}
                     PROVE  \E p \in (White' \cup darken') \ X : Children(p) \cap X # {}
          BY <2>0, <1>c DEF WhiteClosed
        <4>1. CASE X \ {o} # {}
          <5>1. PICK p \in (White \cup darken) \ (X \ {o}) : Children(p) \cap (X \ {o}) # {}
            BY <2>0, <3>1, <4>1 DEF WhiteClosed
          <5> QED
            BY <2>0, <2>3, <3>1, <5>1
        <4>2. CASE X = {o}
          <5>1. PICK p \in White \cup darken : o \in Children(p)
            BY <2>0, <3>1, <4>2 DEF ScanPending
          <5> QED
            BY <2>0, <2>3, <3>1, <4>2, <5>1
        <4> QED
          BY <4>1, <4>2
      <3> QED
        BY <2>0, <3>2, <3>3, <3>4 DEF MarkClosed, GatherClosed
    <2> QED
      BY <1>9, <2>1, <2>2, <2>3 DEF Scan
  <1>10. ASSUME NEW o \in Obj, ScanBlack(o) PROVE Closed'
    <2> DEFINE fresh == {c \in Children(o) : colour[c] # "Black"}
    <2>1. Children(o) \subseteq Obj
      BY ChildrenTyped
    <2>2. /\ phase = "scan" /\ phase' = "scan" /\ o \in darken /\ UNCHANGED <<ref, roots, pending>>
          /\ Grey' = Grey \ fresh /\ White' = White \ fresh
          /\ darken' = (darken \ {o}) \cup fresh
          /\ Children(o) \cap (Grey \cup White) \subseteq fresh
          /\ o \notin Grey \cup White
      BY <1>0, <1>10, <2>1 DEF ScanBlack, ControlInv
    <2> HIDE DEF Grey, White, fresh
    <2>3. ScanClosed'
      BY <2>2, <1>c DEF ScanClosed
    <2>4. ScanPending'
      BY <2>2, <1>c DEF ScanPending
    <2>5. WhiteClosed'
      BY <2>2, <1>c DEF WhiteClosed
    <2> QED
      BY <2>2, <2>3, <2>4, <2>5 DEF MarkClosed, GatherClosed
  <1>11. CASE StartGather
    <2>1. /\ phase = "scan" /\ phase' = "gather" /\ darken = {} /\ pending' = roots
          /\ UNCHANGED <<ref, colour>>
      BY <1>11 DEF StartGather
    <2> QED
      BY <2>1, <1>c DEF MarkClosed, ScanClosed, ScanPending, WhiteClosed, GatherClosed
  <1>12. ASSUME NEW o \in Obj, GatherWhite(o) PROVE Closed'
    <2>0. phase = "gather" /\ phase' = "gather" /\ o \in pending /\ UNCHANGED ref /\ ~buffered[o]
      BY <1>12, NothingBuffered DEF GatherWhite
    <2>1. CASE colour[o] # "White" /\ pending' = pending \ {o} /\ UNCHANGED colour
      BY <2>0, <2>1, <1>c DEF MarkClosed, ScanClosed, ScanPending, WhiteClosed, GatherClosed
    <2>2. CASE /\ colour[o] = "White" /\ colour' = [colour EXCEPT ![o] = "Black"]
               /\ pending' = (pending \ {o}) \cup Children(o)
      <3>1. White' = White \ {o}
        BY <1>0, <2>2
      <3> HIDE DEF White
      <3>2. GatherClosed'
        BY <2>0, <2>2, <3>1, <1>c DEF GatherClosed
      <3> QED
        BY <2>0, <3>2 DEF MarkClosed, ScanClosed, ScanPending, WhiteClosed
    <2> QED
      BY <1>12, <2>0, <2>1, <2>2 DEF GatherWhite
  <1>13. CASE HoldGarbage
    BY <1>13, <1>a DEF HoldGarbage
  <1>14. ASSUME NEW o \in Obj, ClearReferences(o) PROVE Closed'
    BY <1>14, <1>a DEF ClearReferences
  <1>15. CASE StartDelete
    BY <1>15, <1>a DEF StartDelete
  <1>16. ASSUME NEW o \in Obj, DeleteGarbage(o) PROVE Closed'
    BY <1>16, <1>a DEF DeleteGarbage
  <1>17. CASE FinishCollect
    BY <1>17, <1>a DEF FinishCollect
  <1>18. CASE UNCHANGED vars
    BY <1>18, <1>c DEF vars, MarkClosed, ScanClosed, ScanPending, WhiteClosed, GatherClosed
  <1> QED
    BY <1>1, <1>2, <1>3, <1>4, <1>5, <1>6, <1>7, <1>8, <1>9, <1>10, <1>11, <1>12,
       <1>13, <1>14, <1>15, <1>16, <1>17, <1>18, NextCases

-----------------------------------------------------------------------------
(* Every step leaves every pointer in use on a live object. *)

\* What code can name holds nothing that is freed.
LEMMA AccessibleAlive ==
    ASSUME TypeOK, AliveInv, NEW H \in SUBSET Handle, NEW r \in Accessible(H)
    PROVE  /\ r \in Holder /\ ref[r] \in alive \cup {NoObj}
           /\ r \in Handle \/ \E o \in alive, s \in Slot : r = <<o, s>>
PROOF
  <1>1. CASE r \in Handle
    BY <1>1 DEF AliveInv, NoUseAfterFree, Holder
  <1>2. CASE \E h \in H, s \in Slot : ref[h] \in Obj /\ r = <<ref[h], s>>
    <2>1. PICK h \in H, s \in Slot : ref[h] \in Obj /\ r = <<ref[h], s>>
      BY <1>2
    <2>2. ref[h] \in alive
      BY <2>1 DEF AliveInv, NoUseAfterFree
    <2> QED
      BY <2>1, <2>2 DEF AliveInv, NoUseAfterFree, Holder, Member
  <1> QED
    BY <1>1, <1>2 DEF Accessible, TypeOK, Holder

\* The members of a living object refer to living objects.
LEMMA ChildrenAlive ==
    ASSUME TypeOK, AliveInv, NEW o \in alive
    PROVE  Children(o) \subseteq alive
PROOF
  <1> QED
    BY DEF Children, AliveInv, NoUseAfterFree, Traced

\* Destroying an object nothing refers to leaves no pointer to it.
LEMMA DestroyKeepsAlive ==
    ASSUME TypeOK, AliveInv, NEW o \in alive, NEW releases \in [Obj -> Nat],
           \A r \in Holder : ref[r] # o, releases[o] = 0,
           \A x \in Obj : releases[x] > 0 => owed[x] > 0,
           DropMembers(o, releases), alive' = alive \ {o}
    PROVE  /\ \A h \in Handle : ref'[h] \in alive' \cup {NoObj}
           /\ \A x \in alive', s \in Slot : ref'[<<x, s>>] \in alive' \cup {NoObj}
           /\ \A x \in Obj : owed'[x] > 0 => x \in alive'
           /\ \A x \in Obj \ alive', s \in Slot : ref'[<<x, s>>] = NoObj
PROOF
  <1>1. o \in Obj /\ alive \subseteq Obj
    BY DEF TypeOK
  <1>2. ref' = [r \in Holder |-> IF r \in {o} \X Slot THEN NoObj ELSE ref[r]]
    BY DEF DropMembers
  <1>3. \A h \in Handle : h \in Holder /\ ref'[h] = ref[h]
    BY <1>1, <1>2 DEF Holder
  <1>4. \A x \in Obj, s \in Slot :
            <<x, s>> \in Holder /\ ref'[<<x, s>>] = IF x = o THEN NoObj ELSE ref[<<x, s>>]
    BY <1>2 DEF Holder, Member
  <1>5. \A x \in Obj : owed'[x] > 0 => x \in alive'
    <2> SUFFICES ASSUME NEW x \in Obj, owed'[x] > 0 PROVE x \in alive'
      OBVIOUS
    <2>1. owed'[x] = releases[x] + ReferencesHeldBy(o, x)
      BY DEF DropMembers
    <2>2. CASE \E m \in {o} \X Slot : ref[m] = x
      BY <1>1, <2>2 DEF AliveInv, NoUseAfterFree, Holder, Member
    <2>3. CASE \A m \in {o} \X Slot : ref[m] # x
      <3>1. ReferencesHeldBy(o, x) = 0
        <4>1. {m \in {o} \X Slot : ref[m] = x} = {}
          BY <2>3
        <4> QED
          BY <4>1, FS_EmptySet DEF ReferencesHeldBy
      <3>2. releases[x] > 0
        BY <2>1, <3>1
      <3> QED
        BY <1>1, <3>2 DEF AliveInv, NoUseAfterFree
    <2> QED
      BY <2>2, <2>3
  <1> QED
    BY <1>1, <1>3, <1>4, <1>5 DEF AliveInv, NoUseAfterFree

\* No step leaves a reference, a release or a candidate to a freed object.
LEMMA AliveStep ==
    ASSUME IInv, [Next]_vars, TypeOK', BufferInv', ControlInv', ColourInv'
    PROVE  AliveInv'
PROOF
  <1> USE DEF heapVars, objectVars, bufferVars, collectVars, Coloured, Grey, White
  <1> TypeOK /\ BufferInv /\ ColourInv /\ ControlInv /\ AliveInv
    BY DEF IInv
  <1>0. /\ alive \subseteq Obj /\ ref \in [Holder -> Obj \cup {NoObj}] /\ colour \in [Obj -> Colours]
        /\ owed \in [Obj -> Nat] /\ buffered \in [Obj -> BOOLEAN]
    BY DEF TypeOK
  <1>h. /\ \A r \in Handle : r \in Holder
        /\ \A x \in Obj, s \in Slot : <<x, s>> \in Holder /\ <<x, s>> \notin Handle
    BY DEF Holder, Member
  <1>1. ASSUME NEW h \in Handle, NEW o \in Obj, MakeRef(h, o) PROVE AliveInv'
    BY <1>0, <1>h, <1>1 DEF MakeRef, AliveInv, NoUseAfterFree, Buffer
  <1>2. ASSUME NEW src \in Holder, NEW dst \in Holder, CopyAssign(src, dst) PROVE AliveInv'
    <2>1. ref[src] \in alive /\ ref[dst] \in alive \cup {NoObj}
      BY <1>2, AccessibleAlive DEF CopyAssign
    <2>2. dst \in Handle \/ \E x \in alive, s \in Slot : dst = <<x, s>>
      BY <1>2, AccessibleAlive DEF CopyAssign
    <2>3. /\ ref' = [ref EXCEPT ![dst] = ref[src]] /\ UNCHANGED <<alive, buffered, candidates, collectVars>>
          /\ \A x \in Obj : owed'[x] > 0 => owed[x] > 0 \/ x = ref[dst]
          /\ \A x \in Obj : colour'[x] \in {"Grey", "White"} => colour[x] \in {"Grey", "White"}
      BY <1>0, <1>2 DEF CopyAssign, Owe
    <2>4. NoUseAfterFree'
      BY <1>0, <1>h, <2>1, <2>2, <2>3 DEF AliveInv, NoUseAfterFree, Buffer
    <2> QED
      BY <1>0, <1>h, <2>1, <2>2, <2>3, <2>4 DEF AliveInv
  <1>3. ASSUME NEW src \in Holder, NEW dst \in Holder, MoveAssign(src, dst) PROVE AliveInv'
    <2>1. ref[src] \in alive /\ ref[dst] \in alive \cup {NoObj}
      BY <1>3, AccessibleAlive DEF MoveAssign
    <2>2. dst \in Handle \/ \E x \in alive, s \in Slot : dst = <<x, s>>
      BY <1>3, AccessibleAlive DEF MoveAssign
    <2>3. /\ ref' = [ref EXCEPT ![dst] = ref[src], ![src] = NoObj]
          /\ UNCHANGED <<alive, buffered, colour, candidates, collectVars>>
          /\ \A x \in Obj : owed'[x] > 0 => owed[x] > 0 \/ x = ref[dst]
      BY <1>0, <1>3 DEF MoveAssign, Owe
    <2>4. \A r \in Holder : ref'[r] = IF r = src THEN NoObj ELSE IF r = dst THEN ref[src] ELSE ref[r]
      BY <1>0, <2>3
    <2>5. NoUseAfterFree'
      BY <1>0, <1>h, <2>1, <2>2, <2>3, <2>4 DEF AliveInv, NoUseAfterFree, Buffer
    <2> QED
      BY <1>0, <1>h, <2>1, <2>2, <2>3, <2>4, <2>5 DEF AliveInv
  <1>4. ASSUME NEW r \in Holder, Reset(r) PROVE AliveInv'
    <2>1. ref[r] \in alive
      BY <1>4, AccessibleAlive DEF Reset
    <2>2. /\ ref' = [ref EXCEPT ![r] = NoObj]
          /\ UNCHANGED <<alive, buffered, colour, candidates, collectVars>>
          /\ \A x \in Obj : owed'[x] > 0 => owed[x] > 0 \/ x = ref[r]
      BY <1>0, <1>4 DEF Reset, Owe
    <2>3. NoUseAfterFree'
      BY <1>0, <1>h, <2>1, <2>2 DEF AliveInv, NoUseAfterFree, Buffer
    <2> QED
      BY <1>0, <1>h, <2>1, <2>2, <2>3 DEF AliveInv
  <1>5. ASSUME NEW o \in Obj, Release(o) PROVE AliveInv'
    <2> DEFINE releases == [owed EXCEPT ![o] = @ - 1]
    <2>0. /\ owed[o] > 0 /\ o \in alive /\ UNCHANGED collectVars
          /\ phase \in {"rest", "clear", "delete"}
      BY <1>5 DEF Release, ControlInv, Settled, AliveInv, NoUseAfterFree, TypeOK, Phases
    <2>1. count[o] = Claims(o)
      BY <2>0, WholePhases, ExactWhenWhole
    <2>2. releases \in [Obj -> Nat] /\ \A x \in Obj : releases[x] > 0 => owed[x] > 0
      BY <1>0, <2>0
    <2>3. Grey' = {} /\ White' = {}
      BY <2>0 DEF ColourInv, ColoursAllowed
    <2>4. CASE count[o] = 1 /\ OnDestroyed(o, releases)
      <3>0. Claims(o) = 1
        BY <2>1, <2>4
      <3>1. (\A r \in Holder : ref[r] # o) /\ o \notin Held /\ releases[o] = 0
        <4>1. (\A r \in Holder : ref[r] # o) /\ o \notin Held /\ owed[o] = 1
          BY <2>0, <3>0, LastClaim
        <4> QED
          BY <1>0, <4>1
      <3>2. DropMembers(o, releases) /\ alive' = alive \ {o}
        BY <2>4 DEF OnDestroyed
      <3>3. /\ \A h \in Handle : ref'[h] \in alive' \cup {NoObj}
            /\ \A x \in alive', s \in Slot : ref'[<<x, s>>] \in alive' \cup {NoObj}
            /\ \A x \in Obj : owed'[x] > 0 => x \in alive'
            /\ \A x \in Obj \ alive', s \in Slot : ref'[<<x, s>>] = NoObj
        BY <2>0, <2>2, <3>1, <3>2, DestroyKeepsAlive
      <3>4. roots \cup pending \cup darken \cup garbage \subseteq alive \ {o}
        BY <2>0, <3>1 DEF ControlInv, Held, AliveInv, NoUseAfterFree
      <3>5. ~buffered'[o] /\ \A x \in Obj : buffered'[x] => buffered[x]
        BY <1>0, <2>4, NothingBuffered DEF OnDestroyed, LeaveBuffer
      <3>6. \A x \in Obj : buffered[x] => x \in Buffer
        BY DEF BufferInv, Buffer
      <3>7. Buffer' \subseteq alive'
        <4>1. \A i \in DOMAIN candidates' : candidates'[i] \in Obj /\ buffered'[candidates'[i]]
          BY DEF BufferInv, TypeOK
        <4> QED
          BY <3>2, <3>5, <3>6, <4>1 DEF Buffer, AliveInv, NoUseAfterFree
      <3>8. NoUseAfterFree'
        BY <2>0, <3>2, <3>3, <3>4, <3>7 DEF NoUseAfterFree
      <3>9. \A x \in Obj \ alive' : ~buffered'[x]
        BY <3>2, <3>5 DEF AliveInv
      <3> QED
        BY <2>3, <3>3, <3>8, <3>9 DEF AliveInv
    <2>5. CASE /\ owed' = releases /\ UNCHANGED heapVars
               /\ UNCHANGED <<colour, buffered, slot, candidates, due>> \/ NotePossibleRoot(o)
      <3>1. Buffer' \subseteq Buffer \cup {o} /\ \A x \in Obj \ {o} : buffered'[x] => buffered[x]
        <4>1. CASE UNCHANGED <<buffered, candidates>>
          BY <4>1 DEF Buffer
        <4>2. CASE candidates' = Append(candidates, o) /\ buffered' = [buffered EXCEPT ![o] = TRUE]
          <5>1. /\ DOMAIN candidates' = 1 .. Len(candidates) + 1 /\ DOMAIN candidates = 1 .. Len(candidates)
                /\ \A i \in 1 .. Len(candidates) : candidates'[i] = candidates[i]
                /\ candidates'[Len(candidates) + 1] = o /\ Len(candidates) \in Nat
            BY <4>2 DEF TypeOK
          <5>2. Buffer' \subseteq Buffer \cup {o}
            BY <5>1 DEF Buffer
          <5> QED
            BY <1>0, <4>2, <5>2
        <4> QED
          BY <2>5, <4>1, <4>2 DEF NotePossibleRoot
      <3>2. NoUseAfterFree'
        BY <2>0, <2>2, <2>5, <3>1 DEF AliveInv, NoUseAfterFree
      <3> QED
        BY <2>0, <2>3, <2>5, <3>1, <3>2 DEF AliveInv
    <2> QED
      BY <1>5, <2>4, <2>5 DEF Release
  <1>6. ASSUME NEW b \in BOOLEAN, StartCollect(b) PROVE AliveInv'
    <2>1. /\ UNCHANGED <<ref, alive, owed, darken, garbage>> /\ pending' = roots' /\ roots' \subseteq Buffer
          /\ candidates' = <<>> /\ Buffer' = {}
          /\ \A x \in Obj : buffered'[x] => buffered[x]
          /\ Grey' \cup White' \subseteq Grey \cup White \cup roots'
      BY <1>0, <1>6, BufferTyped DEF StartCollect, Buffer
    <2>2. NoUseAfterFree'
      BY <2>1 DEF AliveInv, NoUseAfterFree
    <2> QED
      BY <2>1, <2>2 DEF AliveInv, NoUseAfterFree
  <1>7. ASSUME NEW o \in Obj, MarkGrey(o) PROVE AliveInv'
    <2>1. o \in alive /\ Children(o) \subseteq alive
      BY <1>7, ChildrenAlive DEF MarkGrey, AliveInv, NoUseAfterFree
    <2>2. /\ UNCHANGED <<ref, alive, owed, buffered, candidates, roots, darken, garbage>>
          /\ pending' \subseteq pending \cup Children(o)
          /\ Grey' \cup White' \subseteq Grey \cup White \cup Children(o)
      BY <1>0, <1>7 DEF MarkGrey
    <2>3. NoUseAfterFree'
      BY <2>1, <2>2 DEF AliveInv, NoUseAfterFree, Buffer
    <2> QED
      BY <2>1, <2>2, <2>3 DEF AliveInv
  <1>8. CASE StartScan
    BY <1>8 DEF StartScan, AliveInv, NoUseAfterFree, Buffer
  <1>9. ASSUME NEW o \in Obj, Scan(o) PROVE AliveInv'
    <2>1. o \in alive /\ Children(o) \subseteq alive
      BY <1>9, ChildrenAlive DEF Scan, AliveInv, NoUseAfterFree
    <2>2. /\ UNCHANGED <<ref, alive, owed, buffered, candidates, roots, garbage>>
          /\ pending' \subseteq pending \cup Children(o) /\ darken' \subseteq darken \cup {o}
          /\ Grey' \cup White' \subseteq Grey \cup White
      BY <1>0, <1>9 DEF Scan
    <2>3. NoUseAfterFree'
      BY <2>1, <2>2 DEF AliveInv, NoUseAfterFree, Buffer
    <2> QED
      BY <2>1, <2>2, <2>3 DEF AliveInv
  <1>10. ASSUME NEW o \in Obj, ScanBlack(o) PROVE AliveInv'
    <2>1. o \in alive /\ Children(o) \subseteq alive
      BY <1>10, ChildrenAlive DEF ScanBlack, AliveInv, NoUseAfterFree
    <2>2. /\ UNCHANGED <<ref, alive, owed, buffered, candidates, roots, pending, garbage>>
          /\ darken' \subseteq darken \cup Children(o)
          /\ Grey' \cup White' \subseteq Grey \cup White
      BY <1>0, <1>10 DEF ScanBlack
    <2>3. NoUseAfterFree'
      BY <2>1, <2>2 DEF AliveInv, NoUseAfterFree, Buffer
    <2> QED
      BY <2>1, <2>2, <2>3 DEF AliveInv
  <1>11. CASE StartGather
    BY <1>11 DEF StartGather, AliveInv, NoUseAfterFree, Buffer
  <1>12. ASSUME NEW o \in Obj, GatherWhite(o) PROVE AliveInv'
    <2>1. o \in alive /\ Children(o) \subseteq alive
      BY <1>12, ChildrenAlive DEF GatherWhite, AliveInv, NoUseAfterFree
    <2>2. /\ UNCHANGED <<ref, alive, owed, buffered, candidates, roots, darken>>
          /\ pending' \subseteq pending \cup Children(o) /\ garbage' \subseteq garbage \cup {o}
          /\ Grey' \cup White' \subseteq Grey \cup White
      BY <1>0, <1>12 DEF GatherWhite
    <2>3. NoUseAfterFree'
      BY <2>1, <2>2 DEF AliveInv, NoUseAfterFree, Buffer
    <2> QED
      BY <2>1, <2>2, <2>3 DEF AliveInv
  <1>13. CASE HoldGarbage
    BY <1>13 DEF HoldGarbage, AliveInv, NoUseAfterFree, Buffer
  <1>14. ASSUME NEW o \in Obj, ClearReferences(o) PROVE AliveInv'
    <2>0. o \in alive
      BY <1>14 DEF ClearReferences, AliveInv, NoUseAfterFree
    <2>1. /\ UNCHANGED <<alive, colour, buffered, candidates, roots, darken, garbage>>
          /\ pending' \subseteq pending /\ DropMembers(o, owed)
      BY <1>14 DEF ClearReferences
    <2>2. \A r \in Holder : ref'[r] = ref[r] \/ ref'[r] = NoObj
      BY <2>1 DEF DropMembers
    <2>3. \A x \in Obj : owed'[x] > 0 => x \in alive
      <3> SUFFICES ASSUME NEW x \in Obj, owed'[x] > 0 PROVE x \in alive
        OBVIOUS
      <3>1. owed'[x] = owed[x] + ReferencesHeldBy(o, x)
        BY <2>1 DEF DropMembers
      <3>2. CASE \E m \in {o} \X Slot : ref[m] = x
        BY <2>0, <3>2 DEF AliveInv, NoUseAfterFree
      <3>3. CASE \A m \in {o} \X Slot : ref[m] # x
        <4>1. {m \in {o} \X Slot : ref[m] = x} = {}
          BY <3>3
        <4>2. ReferencesHeldBy(o, x) = 0
          BY <4>1, FS_EmptySet DEF ReferencesHeldBy
        <4> QED
          BY <1>0, <3>1, <4>2 DEF AliveInv, NoUseAfterFree
      <3> QED
        BY <3>2, <3>3
    <2>4. NoUseAfterFree'
      BY <1>0, <1>h, <2>1, <2>2, <2>3 DEF AliveInv, NoUseAfterFree, Buffer
    <2> QED
      BY <1>0, <1>h, <2>1, <2>2, <2>4 DEF AliveInv
  <1>15. CASE StartDelete
    BY <1>15 DEF StartDelete, AliveInv, NoUseAfterFree, Buffer
  <1>16. ASSUME NEW o \in Obj, DeleteGarbage(o) PROVE AliveInv'
    <2>0. /\ phase = "delete" /\ Settled /\ o \in garbage /\ o \in alive /\ o \in Held
          /\ pending' = pending \ {o} /\ garbage' = garbage \ {o}
          /\ UNCHANGED <<colour, buffered, candidates, roots, darken>>
      BY <1>16 DEF DeleteGarbage, ControlInv, AliveInv, NoUseAfterFree, Held
    <2>1. count[o] = Claims(o)
      BY <2>0, WholePhases, ExactWhenWhole
    <2>2. CASE count[o] = 1
      <3>1. (\A r \in Holder : ref[r] # o) /\ owed[o] = 0
        BY <2>0, <2>1, <2>2, LastClaim
      <3>2. DropMembers(o, owed) /\ alive' = alive \ {o}
        BY <1>16, <2>2 DEF DeleteGarbage
      <3>3. /\ \A h \in Handle : ref'[h] \in alive' \cup {NoObj}
            /\ \A x \in alive', s \in Slot : ref'[<<x, s>>] \in alive' \cup {NoObj}
            /\ \A x \in Obj : owed'[x] > 0 => x \in alive'
            /\ \A x \in Obj \ alive', s \in Slot : ref'[<<x, s>>] = NoObj
        BY <1>0, <2>0, <3>1, <3>2, DestroyKeepsAlive
      <3>4. \A x \in Obj : ~buffered[x]
        BY <2>0, NothingBuffered
      <3>5. Buffer' = {}
        BY <2>0, NothingBuffered DEF Buffer
      <3>6. roots' \cup pending' \cup darken' \cup garbage' \subseteq alive'
        BY <2>0, <3>2 DEF ControlInv, AliveInv, NoUseAfterFree
      <3>7. Grey' = {} /\ White' = {}
        BY <2>0 DEF ColourInv, ColoursAllowed
      <3> QED
        BY <2>0, <3>2, <3>3, <3>4, <3>5, <3>6, <3>7 DEF AliveInv, NoUseAfterFree
    <2>3. CASE count[o] # 1
      <3>1. UNCHANGED <<heapVars, owed>>
        BY <1>16, <2>3 DEF DeleteGarbage
      <3> QED
        BY <2>0, <3>1 DEF AliveInv, NoUseAfterFree, Buffer
    <2> QED
      BY <2>2, <2>3
  <1>17. CASE FinishCollect
    <2>1. /\ UNCHANGED <<ref, alive, owed, colour, roots, pending, darken, garbage>>
          /\ \A x \in Obj : buffered'[x] => buffered[x]
          /\ candidates' = <<>>
      BY <1>17, NothingBuffered DEF FinishCollect
    <2>2. Buffer' = {}
      BY <2>1 DEF Buffer
    <2> QED
      BY <2>1, <2>2 DEF AliveInv, NoUseAfterFree
  <1>18. CASE UNCHANGED vars
    BY <1>18 DEF vars, AliveInv, NoUseAfterFree, Buffer
  <1> QED
    BY <1>1, <1>2, <1>3, <1>4, <1>5, <1>6, <1>7, <1>8, <1>9, <1>10, <1>11, <1>12,
       <1>13, <1>14, <1>15, <1>16, <1>17, <1>18, NextCases

-----------------------------------------------------------------------------
(* Every step keeps the counts equal to what claims the objects. *)

\* Every step keeps each count the claims on its object less the edges a walk
\* has taken out.
LEMMA CountsStep ==
    ASSUME IInv, [Next]_vars, TypeOK', AliveInv', ColourInv', ControlInv'
    PROVE  CountsInv'
PROOF
  <1> USE DEF heapVars, objectVars, bufferVars, collectVars
  \* References, subtracted edges and the sweep's hold, before and after.
  <1> DEFINE N(x) == Cardinality(RefsIn(ref, x))
             N1(x) == Cardinality(RefsIn(ref', x))
             M(x) == Cardinality(EdgesIn(ref, Subtracted, x))
             M1(x) == Cardinality(EdgesIn(ref', Subtracted', x))
             H(x) == IF x \in Held THEN 1 ELSE 0
             H1(x) == IF x \in Held' THEN 1 ELSE 0
             Own(o, x) == Cardinality(EdgesFrom(ref, o, x))
             Balanced(x) == /\ count'[x] = N1(x) + owed'[x] + H1(x) - M1(x)
                            /\ x \in alive' => N1(x) + owed'[x] + H1(x) > 0
  <1> TypeOK /\ ColourInv /\ ControlInv /\ AliveInv /\ CountsInv
    BY DEF IInv
  <1>0. /\ alive \subseteq Obj /\ ref \in [Holder -> Obj \cup {NoObj}]
        /\ ref' \in [Holder -> Obj \cup {NoObj}] /\ alive' \subseteq Obj
        /\ owed \in [Obj -> Nat] /\ count \in [Obj -> Int] /\ Subtracted \subseteq Obj
        /\ owed' \in [Obj -> Nat] /\ count' \in [Obj -> Int] /\ Subtracted' \subseteq Obj
    BY DEF TypeOK, Subtracted, Grey, White, Coloured
  <1>t. \A x \in Obj : /\ N(x) \in Nat /\ N1(x) \in Nat /\ M(x) \in Nat /\ M1(x) \in Nat
                       /\ H(x) \in Nat /\ H1(x) \in Nat /\ owed[x] \in Nat /\ owed'[x] \in Nat
                       /\ count[x] \in Int /\ count'[x] \in Int
    <2>1. ASSUME NEW f \in [Holder -> Obj \cup {NoObj}], NEW x \in Obj, NEW S \in SUBSET Obj
          PROVE  Cardinality(RefsIn(f, x)) \in Nat /\ Cardinality(EdgesIn(f, S, x)) \in Nat
      <3>1. RefsIn(f, x) \in SUBSET Holder /\ EdgesIn(f, S, x) \in SUBSET Holder
        BY HolderFinite DEF RefsIn, EdgesIn
      <3> QED
        BY <3>1, HolderFinite
    <2> QED
      BY <1>0, <2>1
  <1>a. /\ \A x \in Obj : count[x] = N(x) + owed[x] + H(x) - M(x)
        /\ \A x \in Obj : x \in alive => N(x) + owed[x] + H(x) > 0
    <2>1. \A x \in Obj : /\ Claims(x) = N(x) + owed[x] + H(x)
                         /\ Cardinality(EdgesInto(Subtracted, x)) = M(x)
      BY DEF Claims, RefsTo, RefsIn, EdgesInto, EdgesIn
    <2> HIDE DEF N, M, H
    <2>2. \A x \in Obj : count[x] = Claims(x) - Cardinality(EdgesInto(Subtracted, x))
      BY DEF CountsInv
    <2>3. \A x \in Obj : x \in alive => Claims(x) > 0
      BY DEF CountsInv
    <2> HIDE DEF Claims, EdgesInto
    <2> QED
      BY <1>0, <1>t, <2>1, <2>2, <2>3
  <1>b. ASSUME \A x \in Obj : Balanced(x) PROVE CountsInv'
    <2>1. \A x \in Obj : /\ Claims(x)' = N1(x) + owed'[x] + H1(x)
                         /\ Cardinality(EdgesInto(Subtracted, x)') = M1(x)
      BY DEF Claims, RefsTo, RefsIn, EdgesInto, EdgesIn
    <2> HIDE DEF N1, M1, H1
    <2>2. \A x \in Obj : count'[x] = Claims(x)' - Cardinality(EdgesInto(Subtracted, x)')
      BY <1>0, <1>t, <1>b, <2>1
    <2>3. \A x \in alive' : Claims(x)' > 0
      BY <1>0, <1>t, <1>b, <2>1
    <2> QED
      BY <2>2, <2>3 DEF CountsInv
  <1>c. ASSUME NEW S \in SUBSET Obj, S = {}, NEW f, NEW x PROVE Cardinality(EdgesIn(f, S, x)) = 0
    <2>1. EdgesIn(f, S, x) = {}
      BY <1>c DEF EdgesIn
    <2> QED
      BY <2>1, FS_EmptySet
  <1>d. /\ Subtracted = {} => \A x \in Obj : M(x) = 0
        /\ Subtracted' = {} => \A x \in Obj : M1(x) = 0
    BY <1>0, <1>c
  <1>e. /\ ref' = ref => \A x \in Obj : N1(x) = N(x)
        /\ ref' = ref /\ Subtracted' = Subtracted => \A x \in Obj : M1(x) = M(x)
        /\ Held' = Held => \A x \in Obj : H1(x) = H(x)
    OBVIOUS
  <1>f. /\ \A x \in Obj : H(x) = IF x \in Held THEN 1 ELSE 0
        /\ \A x \in Obj : H1(x) = IF x \in Held' THEN 1 ELSE 0
    OBVIOUS
  <1>g. ASSUME NEW r \in Holder, NEW v \in Obj \cup {NoObj}, ref' = Repointed(ref, r, v)
        PROVE  \A x \in Obj : N1(x) = N(x) + (IF v = x THEN 1 ELSE 0) - (IF ref[r] = x THEN 1 ELSE 0)
    BY <1>0, <1>t, <1>g, RepointCount
  \* What a dropped object held becomes owed.
  <1>h. ASSUME NEW o \in Obj, NEW releases \in [Obj -> Nat], DropMembers(o, releases)
        PROVE  /\ \A x \in Obj : N1(x) + owed'[x] = N(x) + releases[x]
               /\ \A x \in Obj : owed'[x] >= releases[x]
    <2>1. ref' = Dropped(ref, o)
      BY <1>h DEF DropMembers, Dropped
    <2>2. \A x \in Obj : owed'[x] = releases[x] + Cardinality(HeldIn(ref, o, x))
      BY <1>h DEF DropMembers, ReferencesHeldBy, HeldIn
    <2>3. \A x \in Obj : /\ Cardinality(HeldIn(ref, o, x)) \in Nat
                         /\ N1(x) + Cardinality(HeldIn(ref, o, x)) = N(x)
      BY <1>0, <2>1, DropCount
    <2> HIDE DEF N, N1
    <2> QED
      BY <1>0, <1>t, <2>2, <2>3
  <1>i. ASSUME ref' = ref, NEW o \in Obj \ Subtracted, Subtracted' = With(Subtracted, o)
        PROVE  \A x \in Obj : M1(x) = M(x) + Own(o, x) /\ Own(o, x) \in Nat
    BY <1>0, <1>t, <1>i, EdgesAdd
  <1>j. ASSUME ref' = ref, NEW o \in Obj \ Subtracted', Subtracted = With(Subtracted', o)
        PROVE  \A x \in Obj : M(x) = M1(x) + Own(o, x) /\ Own(o, x) \in Nat
    BY <1>0, <1>t, <1>j, EdgesAdd
  <1>n. \A o, x : Own(o, x) = Cardinality(EdgesInto({o}, x))
    BY DEF EdgesInto, EdgesFrom
  <1>k. \A x \in Obj : M(x) = Cardinality(EdgesInto(Subtracted, x))
    BY DEF EdgesInto, EdgesIn
  <1>l. \A x \in Obj : x \notin alive => N(x) = 0
    <2>1. \A x \in Obj : x \notin alive => RefsIn(ref, x) = {}
      BY DEF RefsIn, AliveInv, NoUseAfterFree, Holder, Member
    <2> QED
      BY <2>1, FS_EmptySet
  <1> HIDE DEF N, N1, M, M1, H, H1, Own
  <1>s. ASSUME UNCHANGED <<ref, owed, alive, count>>, Held' = Held,
               \/ Subtracted' = Subtracted
               \/ Subtracted = {} /\ Subtracted' = {}
        PROVE  CountsInv'
    <2>1. \A x \in Obj : N1(x) = N(x) /\ H1(x) = H(x) /\ M1(x) = M(x)
      BY <1>d, <1>e, <1>s
    <2> QED
      BY <1>0, <1>t, <1>a, <1>b, <1>s, <2>1
  <1>1. ASSUME NEW r \in Handle, NEW o \in Obj, MakeRef(r, o) PROVE CountsInv'
    <2>1. /\ Subtracted = {} /\ Subtracted' = {} /\ Held' = Held /\ r \in Holder /\ ref[r] = NoObj
          /\ ref' = Repointed(ref, r, o) /\ o \notin alive /\ o \notin Held
      BY <1>1 DEF MakeRef, Running, Subtracted, Held, Holder, Repointed
    <2>2. \A x \in Obj : N1(x) = N(x) + (IF o = x THEN 1 ELSE 0)
      BY <1>0, <1>t, <1>g, <2>1
    <2>3. /\ owed[o] = 0 /\ owed' = owed /\ alive' = alive \cup {o}
          /\ \A x \in Obj : count'[x] = IF x = o THEN 1 ELSE count[x]
      BY <1>0, <1>1 DEF MakeRef, Running, Settled
    <2>4. N(o) = 0 /\ H(o) = 0
      BY <1>f, <1>l, <2>1
    <2>5. ASSUME NEW x \in Obj PROVE Balanced(x)
      <3>1. CASE x = o
        <4>1. M1(o) = 0 /\ H1(o) = 0 /\ N1(o) = 1 /\ owed'[o] = 0 /\ count'[o] = 1
          BY <1>0, <1>t, <1>d, <1>e, <2>1, <2>2, <2>3, <2>4
        <4> QED
          BY <3>1, <4>1
      <3>2. CASE x # o
        BY <1>0, <1>t, <1>a, <1>d, <1>e, <2>1, <2>2, <2>3, <3>2
      <3> QED
        BY <3>1, <3>2
    <2> QED
      BY <1>b, <2>5
  <1>2. ASSUME NEW src \in Holder, NEW dst \in Holder, CopyAssign(src, dst) PROVE CountsInv'
    <2>1. /\ Subtracted = {} /\ Subtracted' = {} /\ Held' = Held /\ ref[src] \in Obj
          /\ ref' = Repointed(ref, dst, ref[src]) /\ alive' = alive
      BY <1>0, <1>2 DEF CopyAssign, Running, Subtracted, Held, Repointed
    <2>2. \A x \in Obj : N1(x) = N(x) + (IF ref[src] = x THEN 1 ELSE 0) - (IF ref[dst] = x THEN 1 ELSE 0)
      BY <1>0, <1>t, <1>g, <2>1
    <2>3. /\ \A x \in Obj : count'[x] = count[x] + (IF ref[src] = x THEN 1 ELSE 0)
          /\ \A x \in Obj : owed'[x] = owed[x] + (IF ref[dst] = x THEN 1 ELSE 0)
      BY <1>0, <1>2 DEF CopyAssign, Owe
    <2>4. ASSUME NEW x \in Obj PROVE Balanced(x)
      BY <1>0, <1>t, <1>a, <1>d, <1>e, <2>1, <2>2, <2>3
    <2> QED
      BY <1>b, <2>4
  <1>3. ASSUME NEW src \in Holder, NEW dst \in Holder, MoveAssign(src, dst) PROVE CountsInv'
    <2> DEFINE stored == Repointed(ref, dst, ref[src])
               K(x) == Cardinality(RefsIn(stored, x))
    <2>1. /\ Subtracted = {} /\ Subtracted' = {} /\ Held' = Held /\ ref[src] \in Obj
          /\ UNCHANGED <<alive, count>>
      BY <1>0, <1>3 DEF MoveAssign, Running, Subtracted, Held
    <2>2. stored \in [Holder -> Obj \cup {NoObj}] /\ stored[src] = ref[src] /\ ref' = Repointed(stored, src, NoObj)
      BY <1>0, <1>3 DEF MoveAssign, Repointed
    <2>3. \A x \in Obj : K(x) = N(x) + (IF ref[src] = x THEN 1 ELSE 0) - (IF ref[dst] = x THEN 1 ELSE 0)
      BY <1>0, <2>1, RepointCount DEF N
    <2>4. \A x \in Obj : N1(x) = K(x) + (IF NoObj = x THEN 1 ELSE 0) - (IF ref[src] = x THEN 1 ELSE 0)
      <3> HIDE DEF stored
      <3> QED
        BY <2>2, RepointCount DEF N1
    <2> HIDE DEF K
    <2>5. \A x \in Obj : N1(x) = N(x) - (IF ref[dst] = x THEN 1 ELSE 0)
      BY <1>0, <1>t, <2>3, <2>4
    <2>6. \A x \in Obj : owed'[x] = owed[x] + (IF ref[dst] = x THEN 1 ELSE 0)
      BY <1>0, <1>3 DEF MoveAssign, Owe
    <2>7. ASSUME NEW x \in Obj PROVE Balanced(x)
      BY <1>0, <1>t, <1>a, <1>d, <1>e, <2>1, <2>5, <2>6
    <2> QED
      BY <1>b, <2>7
  <1>4. ASSUME NEW r \in Holder, Reset(r) PROVE CountsInv'
    <2>1. /\ Subtracted = {} /\ Subtracted' = {} /\ Held' = Held
          /\ ref' = Repointed(ref, r, NoObj) /\ UNCHANGED <<alive, count>>
      BY <1>4 DEF Reset, Running, Subtracted, Held, Repointed
    <2>2. \A x \in Obj : N1(x) = N(x) - (IF ref[r] = x THEN 1 ELSE 0)
      BY <1>0, <1>t, <1>g, <2>1
    <2>3. \A x \in Obj : owed'[x] = owed[x] + (IF ref[r] = x THEN 1 ELSE 0)
      BY <1>0, <1>4 DEF Reset, Owe
    <2>4. ASSUME NEW x \in Obj PROVE Balanced(x)
      BY <1>0, <1>t, <1>a, <1>d, <1>e, <2>1, <2>2, <2>3
    <2> QED
      BY <1>b, <2>4
  <1>5. ASSUME NEW o \in Obj, Release(o) PROVE CountsInv'
    <2> DEFINE releases == [owed EXCEPT ![o] = @ - 1]
    <2>0. /\ owed[o] > 0 /\ UNCHANGED collectVars /\ phase \in {"rest", "clear", "delete"}
          /\ count' = [count EXCEPT ![o] = @ - 1]
      BY <1>5 DEF Release, ControlInv, Settled, TypeOK, Phases
    <2>1. Subtracted = {} /\ Subtracted' = {} /\ Held' = Held
      BY <2>0 DEF Subtracted, Held
    <2>2. /\ \A x \in Obj : releases[x] = owed[x] - (IF x = o THEN 1 ELSE 0)
          /\ \A x \in Obj : count'[x] = count[x] - (IF x = o THEN 1 ELSE 0)
          /\ releases \in [Obj -> Nat]
      BY <1>0, <2>0
    <2> HIDE DEF releases
    <2>3. CASE OnDestroyed(o, releases)
      <3>1. DropMembers(o, releases) /\ alive' = alive \ {o}
        BY <2>3 DEF OnDestroyed
      <3>2. \A x \in Obj : N1(x) + owed'[x] = N(x) + releases[x]
        BY <1>h, <2>2, <3>1
      <3>3. ASSUME NEW x \in Obj PROVE Balanced(x)
        BY <1>0, <1>t, <1>a, <1>d, <1>e, <2>1, <2>2, <3>1, <3>2
      <3> QED
        BY <1>b, <3>3
    <2>4. CASE owed' = releases /\ UNCHANGED heapVars /\ count[o] # 1
      <3>1. ASSUME NEW x \in Obj PROVE Balanced(x)
        BY <1>0, <1>t, <1>a, <1>d, <1>e, <2>1, <2>2, <2>4
      <3> QED
        BY <1>b, <3>1
    <2> QED
      BY <1>5, <2>3, <2>4 DEF Release, releases
  <1>6. ASSUME NEW b \in BOOLEAN, StartCollect(b) PROVE CountsInv'
    <2>1. /\ UNCHANGED <<ref, owed, alive, count>> /\ phase = "rest" /\ phase' = "mark" /\ pending' = roots'
          /\ Held' = Held /\ Subtracted = {}
      BY <1>6 DEF StartCollect, Running, Held, Subtracted
    <2>2. Grey' \subseteq roots'
      BY <1>6 DEF StartCollect, Running, Grey, Coloured, ColourInv, ColoursAllowed, TypeOK
    <2>3. Subtracted' = {}
      BY <2>1, <2>2 DEF Subtracted
    <2> QED
      BY <1>s, <2>1, <2>3
  \* A walk takes the edges of one more object out.
  <1>7. ASSUME NEW o \in Obj, MarkGrey(o) PROVE CountsInv'
    <2>1. /\ UNCHANGED <<ref, owed, alive>> /\ phase = "mark" /\ phase' = "mark"
          /\ Held' = Held /\ o \in pending /\ o \notin Subtracted
      BY <1>7 DEF MarkGrey, Held, Subtracted
    <2>2. Subtracted' = With(Subtracted, o)
      <3>1. Children(o) \subseteq Obj
        BY ChildrenTyped
      <3> QED
        BY <1>7, <3>1 DEF With, MarkGrey, Subtracted, Grey, Coloured, ControlInv, TypeOK
    <2>3. \A x \in Obj : M1(x) = M(x) + Own(o, x) /\ Own(o, x) \in Nat
      BY <1>i, <2>1, <2>2
    <2>4. \A x \in Obj : count'[x] = count[x] - Own(o, x)
      BY <1>7, <1>n DEF MarkGrey, Subtract
    <2>5. ASSUME NEW x \in Obj PROVE Balanced(x)
      BY <1>0, <1>t, <1>a, <1>e, <2>1, <2>3, <2>4
    <2> QED
      BY <1>b, <2>5
  <1>8. CASE StartScan
    <2>1. White = {} /\ darken = {}
      BY <1>8 DEF StartScan, White, Coloured, ColourInv, ColoursAllowed, ControlInv
    <2>2. Subtracted' = Subtracted
      BY <1>8, <2>1 DEF StartScan, Subtracted, Grey, White, Coloured
    <2> QED
      BY <1>8, <1>s, <2>2 DEF StartScan, Held
  <1>9. ASSUME NEW o \in Obj, Scan(o) PROVE CountsInv'
    <2>1. Subtracted' = Subtracted
      BY <1>9 DEF Scan, Subtracted, Grey, White, Coloured, TypeOK
    <2> QED
      BY <1>9, <1>s, <2>1 DEF Scan, Held
  \* scan_black puts the edges of one object back.
  <1>10. ASSUME NEW o \in Obj, ScanBlack(o) PROVE CountsInv'
    <2>1. /\ UNCHANGED <<ref, owed, alive>> /\ phase = "scan" /\ phase' = "scan"
          /\ Held' = Held /\ o \in Subtracted
      BY <1>10 DEF ScanBlack, Held, Subtracted
    <2>2. Subtracted' = Subtracted \ {o}
      <3>1. Children(o) \subseteq Obj
        BY ChildrenTyped
      <3> QED
        BY <1>10, <3>1 DEF ScanBlack, Subtracted, Grey, White, Coloured, ControlInv, ColourInv, ColoursAllowed, TypeOK
    <2>3. Subtracted = With(Subtracted', o) /\ o \in Obj \ Subtracted'
      BY <2>1, <2>2 DEF With
    <2>4. \A x \in Obj : M(x) = M1(x) + Own(o, x) /\ Own(o, x) \in Nat
      BY <1>j, <2>1, <2>3
    <2>5. \A x \in Obj : count'[x] = count[x] + Own(o, x)
      BY <1>10, <1>n DEF ScanBlack, Add
    <2>6. ASSUME NEW x \in Obj PROVE Balanced(x)
      BY <1>0, <1>t, <1>a, <1>e, <2>1, <2>4, <2>5
    <2> QED
      BY <1>b, <2>6
  <1>11. CASE StartGather
    <2>1. Grey = {} /\ garbage = {}
      <3>1. Grey = {}
        BY <1>11 DEF StartGather, IInv, ScanClosed
      <3> QED
        BY <1>11, <3>1 DEF StartGather, ControlInv
    <2>2. Subtracted' = Subtracted
      BY <1>11, <2>1 DEF StartGather, Subtracted, Grey, White, Coloured
    <2> QED
      BY <1>11, <1>s, <2>2 DEF StartGather, Held
  <1>12. ASSUME NEW o \in Obj, GatherWhite(o) PROVE CountsInv'
    <2>1. Subtracted' = Subtracted
      BY <1>12 DEF GatherWhite, Subtracted, White, Coloured, TypeOK
    <2> QED
      BY <1>12, <1>s, <2>1 DEF GatherWhite, Held
  <1>13. CASE HoldGarbage
    <2>1. White = {}
      BY <1>13 DEF HoldGarbage, IInv, GatherClosed
    <2>2. /\ UNCHANGED <<ref, owed, alive>> /\ Subtracted = garbage /\ Subtracted' = {}
          /\ Held = {} /\ Held' = garbage
      BY <1>13, <2>1 DEF HoldGarbage, Subtracted, Held
    <2>3. \A x \in Obj : count'[x] = count[x] + M(x) + H1(x)
      BY <1>13, <1>f, <1>k, <2>2 DEF HoldGarbage, Add
    <2>4. \A x \in Obj : H(x) = 0
      BY <1>f, <2>2
    <2>5. ASSUME NEW x \in Obj PROVE Balanced(x)
      BY <1>0, <1>t, <1>a, <1>d, <1>e, <2>2, <2>3, <2>4
    <2> QED
      BY <1>b, <2>5
  <1>14. ASSUME NEW o \in Obj, ClearReferences(o) PROVE CountsInv'
    <2>1. /\ Subtracted = {} /\ Subtracted' = {} /\ Held' = Held /\ UNCHANGED <<count, alive>>
          /\ DropMembers(o, owed)
      BY <1>14 DEF ClearReferences, Subtracted, Held
    <2>2. \A x \in Obj : N1(x) + owed'[x] = N(x) + owed[x]
      BY <1>0, <1>h, <2>1
    <2>3. ASSUME NEW x \in Obj PROVE Balanced(x)
      BY <1>0, <1>t, <1>a, <1>d, <1>e, <2>1, <2>2
    <2> QED
      BY <1>b, <2>3
  <1>15. CASE StartDelete
    BY <1>15, <1>s DEF StartDelete, Subtracted, Held
  <1>16. ASSUME NEW o \in Obj, DeleteGarbage(o) PROVE CountsInv'
    <2>1. /\ Subtracted = {} /\ Subtracted' = {} /\ Held = garbage /\ Held' = garbage \ {o}
          /\ o \in garbage /\ \A x \in Obj : count'[x] = count[x] - (IF x = o THEN 1 ELSE 0)
      BY <1>0, <1>16 DEF DeleteGarbage, Subtracted, Held, ControlInv
    <2>2. \A x \in Obj : H1(x) = H(x) - (IF x = o THEN 1 ELSE 0)
      BY <1>f, <2>1
    <2>3. CASE count[o] = 1
      <3>1. DropMembers(o, owed) /\ alive' = alive \ {o}
        BY <1>16, <2>3 DEF DeleteGarbage
      <3>2. \A x \in Obj : N1(x) + owed'[x] = N(x) + owed[x]
        BY <1>0, <1>h, <3>1
      <3>3. ASSUME NEW x \in Obj PROVE Balanced(x)
        BY <1>0, <1>t, <1>a, <1>d, <2>1, <2>2, <3>1, <3>2
      <3> QED
        BY <1>b, <3>3
    <2>4. CASE count[o] # 1
      <3>1. UNCHANGED <<ref, alive, owed>>
        BY <1>16, <2>4 DEF DeleteGarbage
      <3>2. ASSUME NEW x \in Obj PROVE Balanced(x)
        BY <1>0, <1>t, <1>a, <1>d, <1>e, <2>1, <2>2, <2>4, <3>1
      <3> QED
        BY <1>b, <3>2
    <2> QED
      BY <2>3, <2>4
  <1>17. CASE FinishCollect
    <2>1. /\ UNCHANGED <<ref, owed, alive, count>> /\ Subtracted = {} /\ Subtracted' = {}
          /\ Held = {} /\ Held' = {}
      BY <1>17 DEF FinishCollect, Subtracted, Held, ControlInv
    <2> QED
      BY <1>s, <2>1
  <1>18. CASE UNCHANGED vars
    <2>1. UNCHANGED <<ref, owed, alive, count, Subtracted, Held>>
      BY <1>18 DEF vars, Subtracted, Held, Grey, White, Coloured
    <2> QED
      BY <1>s, <2>1
  <1> QED
    BY <1>1, <1>2, <1>3, <1>4, <1>5, <1>6, <1>7, <1>8, <1>9, <1>10, <1>11, <1>12,
       <1>13, <1>14, <1>15, <1>16, <1>17, <1>18, NextCases

-----------------------------------------------------------------------------
(* What holds of every run. *)

\* The collector starts with nothing allocated and nothing to collect.
LEMMA InitHolds == Init => IInv
PROOF
  <1> SUFFICES ASSUME Init PROVE IInv
    OBVIOUS
  <1> USE DEF Init
  <1>1. TypeOK
    <2>1. /\ ref \in [Holder -> Obj \cup {NoObj}] /\ alive \subseteq Obj
          /\ count \in [Obj -> Int] /\ buffered \in [Obj -> BOOLEAN]
          /\ slot \in [Obj -> Nat] /\ owed \in [Obj -> Nat]
      OBVIOUS
    <2>2. colour \in [Obj -> Colours]
      BY DEF Colours
    <2>3. candidates \in Seq(Obj) /\ due \in Nat
      OBVIOUS
    <2> QED
      BY <2>1, <2>2, <2>3 DEF TypeOK, Phases
  <1>2. BufferInv /\ ColourInv /\ ControlInv
    BY DEF BufferInv, ColourInv, ColoursAllowed, ControlInv, Settled
  <1>3. AliveInv
    BY DEF AliveInv, NoUseAfterFree, Buffer, Holder, Member, Grey, White, Coloured
  <1>4. MarkClosed /\ ScanClosed /\ ScanPending /\ WhiteClosed /\ GatherClosed
    BY DEF MarkClosed, ScanClosed, ScanPending, WhiteClosed, GatherClosed
  <1>5. CountsInv
    <2>1. Subtracted = {} /\ Held = {}
      BY DEF Subtracted, Held
    <2>2. \A o \in Obj : RefsTo(o) = {} /\ EdgesInto(Subtracted, o) = {}
      BY <2>1 DEF RefsTo, EdgesInto
    <2>3. \A o \in Obj : Cardinality(RefsTo(o)) = 0 /\ Cardinality(EdgesInto(Subtracted, o)) = 0
      BY <2>2, FS_EmptySet
    <2> QED
      BY <2>1, <2>3 DEF CountsInv, Claims
  <1> QED
    BY <1>1, <1>2, <1>3, <1>4, <1>5 DEF IInv

\* Every step keeps the invariant: the parts above, together.
LEMMA StepHolds == IInv /\ [Next]_vars => IInv'
PROOF
  <1> SUFFICES ASSUME IInv, [Next]_vars PROVE IInv'
    OBVIOUS
  <1>1. TypeOK'
    BY TypeStep DEF IInv
  <1>2. BufferInv'
    BY BufferStep DEF IInv
  <1>3. ColourInv' /\ ControlInv'
    BY ColourStep, ControlStep
  <1>4. MarkClosed' /\ ScanClosed' /\ ScanPending' /\ WhiteClosed' /\ GatherClosed'
    BY ClosedStep
  <1>5. AliveInv'
    BY <1>1, <1>2, <1>3, AliveStep
  <1>6. CountsInv'
    BY <1>1, <1>3, <1>5, CountsStep
  <1> QED
    BY <1>1, <1>2, <1>3, <1>4, <1>5, <1>6 DEF IInv

\* Every state of every run satisfies the inductive invariant.
THEOREM InductiveInvariant == Spec => []IInv
PROOF
  <1> QED
    BY InitHolds, StepHolds, PTL DEF Spec

\* The state of the collector is well typed: in particular no release is ever
\* owed less than nothing and no slot number is negative.
THEOREM TypeCorrect == Spec => []TypeOK
PROOF
  <1>1. IInv => TypeOK
    BY DEF IInv
  <1> QED
    BY <1>1, InductiveInvariant, PTL

\* However references are moved, objects die and collections interrupt, no
\* pointer that the program or collect() still follows leads to a destroyed
\* object, and no member that trace_references forgets can change that.
THEOREM NeverUsedAfterFree == Spec => []NoUseAfterFree
PROOF
  <1>1. IInv => NoUseAfterFree
    BY DEF IInv, AliveInv
  <1> QED
    BY <1>1, InductiveInvariant, PTL

\* Outside a collection every count is exact: the trial deletion puts back
\* exactly what it took.
THEOREM CountsAreExact == Spec => []CountsExact
PROOF
  <1>1. ASSUME IInv, phase = "rest", NEW o \in Obj
        PROVE  count[o] = Cardinality({r \in Holder : ref[r] = o}) + owed[o]
    <2>1. Subtracted = {} /\ Held = {}
      BY <1>1 DEF Subtracted, Held
    <2>2. count[o] = Claims(o)
      BY <1>1, <2>1, ExactWhenWhole
    <2>3. Cardinality(RefsTo(o)) \in Nat /\ owed[o] \in Nat
      BY <1>1, RefsTyped DEF IInv, TypeOK
    <2> QED
      BY <2>1, <2>2, <2>3 DEF Claims, RefsTo
  <1>2. IInv => CountsExact
    BY <1>1 DEF CountsExact
  <1> QED
    BY <1>2, InductiveInvariant, PTL

\* The candidate buffer and the objects in it always agree on who is where, and
\* an entry always has a reference left when collect() meets it.
THEOREM BufferStaysConsistent == Spec => []BufferConsistent
PROOF
  <1>1. ASSUME IInv, NEW i \in DOMAIN candidates PROVE count[candidates[i]] > 0
    <2> DEFINE o == candidates[i]
    <2>1. o \in Obj /\ o \in alive /\ candidates # <<>>
      BY <1>1 DEF IInv, TypeOK, AliveInv, NoUseAfterFree, Buffer
    <2>2. phase = "rest"
      BY <1>1, <2>1 DEF IInv, BufferInv, ControlInv
    <2>3. Subtracted = {}
      BY <2>2 DEF Subtracted
    <2>4. count[o] = Claims(o)
      BY <1>1, <2>1, <2>3, ExactWhenWhole
    <2> HIDE DEF o
    <2>5. count[o] > 0
      BY <1>1, <2>1, <2>4 DEF IInv, CountsInv
    <2> QED
      BY <2>5 DEF o
  <1>2. IInv => BufferConsistent
    BY <1>1 DEF IInv, BufferInv, BufferConsistent
  <1> QED
    BY <1>2, InductiveInvariant, PTL
-----------------------------------------------------------------------------
(* What is swept is garbage, so every step of the collector is one of the heap. *)

\* No walk leaves a count below zero: it takes out at most the references there are.
LEMMA CountNotNegative ==
    ASSUME IInv, NEW x \in Obj
    PROVE  /\ EdgesInto(Subtracted, x) \subseteq RefsTo(x)
           /\ Cardinality(EdgesInto(Subtracted, x)) \in Nat
           /\ count[x] \in Int /\ count[x] >= 0
PROOF
  <1>0. TypeOK /\ CountsInv
    BY DEF IInv
  <1>1. Subtracted \subseteq Obj
    BY <1>0 DEF TypeOK, Subtracted, Grey, White, Coloured
  <1>2. Subtracted \X Traced \subseteq Holder
    BY <1>1, HolderFinite
  <1>3. EdgesInto(Subtracted, x) \subseteq RefsTo(x)
    BY <1>2 DEF EdgesInto, RefsTo
  <1>4. IsFiniteSet(RefsTo(x)) /\ Cardinality(RefsTo(x)) \in Nat
    BY <1>0, RefsTyped
  <1>5. /\ Cardinality(EdgesInto(Subtracted, x)) \in Nat
        /\ Cardinality(EdgesInto(Subtracted, x)) <= Cardinality(RefsTo(x))
    BY <1>3, <1>4, FS_Subset, FS_CardinalityType
  <1>6. owed[x] \in Nat /\ count[x] \in Int
    BY <1>0 DEF TypeOK
  <1>7. count[x] = Claims(x) - Cardinality(EdgesInto(Subtracted, x))
    BY <1>0 DEF CountsInv
  <1>8. Claims(x) \in Nat /\ Claims(x) >= Cardinality(RefsTo(x))
    BY <1>4, <1>6 DEF Claims
  <1> QED
    BY <1>3, <1>4, <1>5, <1>6, <1>7, <1>8

\* When the gathering has nothing left to visit, it has left nothing white behind.
LEMMA NoWhiteLeft ==
    ASSUME IInv, phase = "gather", pending = {}
    PROVE  White = {}
PROOF
  <1>1. ASSUME White # {} PROVE FALSE
    <2>1. \E p \in White \ White : Children(p) \cap White # {}
      BY <1>1 DEF IInv, GatherClosed
    <2> QED
      BY <2>1
  <1> QED
    BY <1>1

\* The references to an object whose count is zero are those that were subtracted.
LEMMA UncountedIsSealed ==
    ASSUME IInv, phase = "gather", pending = {}, NEW x \in Obj, count[x] = 0
    PROVE  RefsTo(x) \subseteq garbage \X Slot
PROOF
  <1>0. TypeOK /\ CountsInv /\ ControlInv
    BY DEF IInv
  <1>1. Subtracted = garbage
    BY NoWhiteLeft DEF Subtracted
  <1>2. Claims(x) = Cardinality(RefsTo(x))
    <2>1. owed[x] = 0 /\ Held = {} /\ Cardinality(RefsTo(x)) \in Nat
      BY <1>0, RefsTyped DEF ControlInv, Settled, Held
    <2> QED
      BY <2>1 DEF Claims
  <1>3. count[x] = Claims(x) - Cardinality(EdgesInto(Subtracted, x))
    BY <1>0 DEF CountsInv
  <1>4. /\ Cardinality(RefsTo(x)) \in Nat /\ Cardinality(EdgesInto(Subtracted, x)) \in Nat
        /\ IsFiniteSet(RefsTo(x)) /\ EdgesInto(Subtracted, x) \subseteq RefsTo(x)
    BY <1>0, RefsTyped, CountNotNegative
  <1>5. Cardinality(RefsTo(x)) = Cardinality(EdgesInto(Subtracted, x))
    BY <1>2, <1>3, <1>4
  <1>6. RefsTo(x) = EdgesInto(garbage, x)
    BY <1>1, <1>4, <1>5, FS_Subset
  <1> QED
    BY <1>6 DEF EdgesInto, Traced

\* Every step keeps the counts of white and gathered objects at zero, through
\* the second and the third walk.
LEMMA UncountedStep ==
    ASSUME IInv, SealInv, [Next]_vars
    PROVE  WhiteUncounted'
PROOF
  <1> USE DEF heapVars, objectVars, bufferVars, collectVars, Coloured, White, Grey
  <1>i. TypeOK /\ ControlInv /\ ColourInv /\ WhiteUncounted
    BY DEF IInv, SealInv
  <1>0. colour \in [Obj -> Colours] /\ pending \subseteq Obj /\ garbage \subseteq Obj
    BY <1>i DEF TypeOK
  <1>a. ASSUME phase' \in {"rest", "mark", "clear", "delete"} PROVE WhiteUncounted'
    BY <1>a DEF WhiteUncounted
  <1>1. ASSUME NEW h \in Handle, NEW o \in Obj, MakeRef(h, o) PROVE WhiteUncounted'
    BY <1>1, <1>a DEF MakeRef, Running
  <1>2. ASSUME NEW src \in Holder, NEW dst \in Holder, CopyAssign(src, dst) PROVE WhiteUncounted'
    BY <1>2, <1>a DEF CopyAssign, Running
  <1>3. ASSUME NEW src \in Holder, NEW dst \in Holder, MoveAssign(src, dst) PROVE WhiteUncounted'
    BY <1>3, <1>a DEF MoveAssign, Running
  <1>4. ASSUME NEW r \in Holder, Reset(r) PROVE WhiteUncounted'
    BY <1>4, <1>a DEF Reset, Running
  <1>5. ASSUME NEW o \in Obj, Release(o) PROVE WhiteUncounted'
    <2>1. phase' = phase /\ phase \notin {"scan", "gather"}
      BY <1>5, <1>i DEF Release, ControlInv, Settled
    <2> QED
      BY <2>1 DEF WhiteUncounted
  <1>6. ASSUME NEW b \in BOOLEAN, StartCollect(b) PROVE WhiteUncounted'
    BY <1>6, <1>a DEF StartCollect
  <1>7. ASSUME NEW o \in Obj, MarkGrey(o) PROVE WhiteUncounted'
    BY <1>7, <1>a DEF MarkGrey
  <1>8. CASE StartScan
    <2>1. White' = {} /\ garbage' = {}
      BY <1>8, <1>i DEF StartScan, ColourInv, ColoursAllowed, ControlInv
    <2> QED
      BY <2>1 DEF WhiteUncounted
  <1>9. ASSUME NEW o \in Obj, Scan(o) PROVE WhiteUncounted'
    <2>1. /\ phase = "scan" /\ UNCHANGED <<count, garbage>> /\ count[o] \in Int /\ count[o] >= 0
      BY <1>9, CountNotNegative DEF Scan
    <2>2. \A x \in White' : x \in White \/ (x = o /\ ~(count[o] > 0))
      BY <1>9, <1>0 DEF Scan
    <2> QED
      BY <1>i, <2>1, <2>2 DEF WhiteUncounted
  <1>10. ASSUME NEW o \in Obj, ScanBlack(o) PROVE WhiteUncounted'
    <2>1. phase = "scan" /\ garbage' = {} /\ count' = Add({o})
      BY <1>10, <1>i DEF ScanBlack, ControlInv
    <2>2. ASSUME NEW x \in White' PROVE x \in White /\ x \notin Children(o)
      BY <1>10, <2>2, <1>0 DEF ScanBlack
    <2>3. ASSUME NEW x \in White' PROVE count'[x] = 0
      <3>1. x \in Obj /\ x \in White /\ x \notin Children(o)
        BY <2>2
      <3>2. EdgesInto({o}, x) = {}
        <4> SUFFICES ASSUME NEW e \in {o} \X Traced, ref[e] = x PROVE FALSE
          BY DEF EdgesInto
        <4>1. PICK s \in Traced : e = <<o, s>>
          OBVIOUS
        <4> QED
          BY <3>1, <4>1 DEF Children
      <3>3. Cardinality(EdgesInto({o}, x)) = 0
        BY <3>2, FS_EmptySet
      <3>4. count[x] = 0
        BY <1>i, <2>1, <3>1 DEF WhiteUncounted
      <3> HIDE DEF White
      <3> QED
        BY <2>1, <3>1, <3>3, <3>4 DEF Add
    <2> HIDE DEF White
    <2> QED
      BY <2>1, <2>3 DEF WhiteUncounted
  <1>11. CASE StartGather
    BY <1>11, <1>i DEF StartGather, WhiteUncounted
  <1>12. ASSUME NEW o \in Obj, GatherWhite(o) PROVE WhiteUncounted'
    <2>1. phase = "gather" /\ UNCHANGED count
      BY <1>12 DEF GatherWhite
    <2>2. White' \cup garbage' \subseteq White \cup garbage
      BY <1>12, <1>0 DEF GatherWhite
    <2> QED
      BY <1>i, <2>1, <2>2 DEF WhiteUncounted
  <1>13. CASE HoldGarbage
    BY <1>13, <1>a DEF HoldGarbage
  <1>14. ASSUME NEW o \in Obj, ClearReferences(o) PROVE WhiteUncounted'
    BY <1>14, <1>a DEF ClearReferences
  <1>15. CASE StartDelete
    BY <1>15, <1>a DEF StartDelete
  <1>16. ASSUME NEW o \in Obj, DeleteGarbage(o) PROVE WhiteUncounted'
    BY <1>16, <1>a DEF DeleteGarbage
  <1>17. CASE FinishCollect
    BY <1>17, <1>a DEF FinishCollect
  <1>18. CASE UNCHANGED vars
    BY <1>18, <1>i DEF vars, WhiteUncounted
  <1> QED
    BY <1>1, <1>2, <1>3, <1>4, <1>5, <1>6, <1>7, <1>8, <1>9, <1>10, <1>11, <1>12,
       <1>13, <1>14, <1>15, <1>16, <1>17, <1>18, NextCases

\* A destructor, or clear_references, only takes references away.
LEMMA DropTakesAway ==
    ASSUME TypeOK, NEW o \in Obj, NEW releases, DropMembers(o, releases), NEW x \in Obj
    PROVE  RefsTo(x)' \subseteq RefsTo(x)
PROOF
  <1>1. ref' = [r \in Holder |-> IF r \in {o} \X Slot THEN NoObj ELSE ref[r]]
    BY DEF DropMembers
  <1> QED
    BY <1>1 DEF RefsTo

\* Every step keeps garbage referred to by garbage alone while the sweep
\* clears it.
LEMMA SealedStep ==
    ASSUME IInv, SealInv, [Next]_vars
    PROVE  GarbageSealed'
PROOF
  <1> USE DEF heapVars, objectVars, bufferVars, collectVars
  <1>i. TypeOK /\ ControlInv /\ WhiteUncounted /\ GarbageSealed
    BY DEF IInv, SealInv
  <1>a. ASSUME phase' # "clear" PROVE GarbageSealed'
    BY <1>a DEF GarbageSealed
  <1>1. ASSUME NEW o \in Obj, Release(o) PROVE GarbageSealed'
    <2>1. UNCHANGED <<phase, garbage>>
      BY <1>1 DEF Release
    <2>2. \A x \in Obj : RefsTo(x)' \subseteq RefsTo(x)
      <3>1. CASE \E releases : DropMembers(o, releases)
        BY <1>i, <3>1, DropTakesAway
      <3>2. CASE UNCHANGED ref
        BY <3>2 DEF RefsTo
      <3> QED
        BY <1>1, <3>1, <3>2 DEF Release, OnDestroyed
    <2> QED
      BY <1>i, <2>1, <2>2 DEF GarbageSealed, TypeOK
  <1>2. CASE HoldGarbage
    <2>1. phase = "gather" /\ pending = {} /\ UNCHANGED <<ref, garbage>>
      BY <1>2 DEF HoldGarbage
    <2>2. \A x \in garbage : x \in Obj /\ count[x] = 0
      BY <1>i, <2>1 DEF WhiteUncounted, TypeOK
    <2>3. \A x \in garbage : RefsTo(x) \subseteq garbage \X Slot
      BY <2>1, <2>2, UncountedIsSealed
    <2> QED
      BY <2>1, <2>3 DEF GarbageSealed, RefsTo
  <1>3. ASSUME NEW o \in Obj, ClearReferences(o) PROVE GarbageSealed'
    <2>1. UNCHANGED <<phase, garbage>> /\ DropMembers(o, owed)
      BY <1>3 DEF ClearReferences
    <2>2. \A x \in Obj : RefsTo(x)' \subseteq RefsTo(x)
      BY <1>i, <2>1, DropTakesAway
    <2> QED
      BY <1>i, <2>1, <2>2 DEF GarbageSealed, TypeOK
  <1>4. CASE UNCHANGED vars
    BY <1>4, <1>i DEF vars, GarbageSealed, RefsTo
  <1>5. CASE \/ \E h \in Handle, o \in Obj : MakeRef(h, o)
             \/ \E src, dst \in Holder : CopyAssign(src, dst) \/ MoveAssign(src, dst)
             \/ \E r \in Holder : Reset(r)
             \/ \E b \in BOOLEAN : StartCollect(b)
    BY <1>5, <1>a DEF MakeRef, CopyAssign, MoveAssign, Reset, StartCollect, Running
  <1>6. CASE \/ \E o \in Obj : MarkGrey(o) \/ Scan(o) \/ ScanBlack(o) \/ GatherWhite(o)
             \/ StartScan \/ StartGather
    BY <1>6, <1>a DEF MarkGrey, Scan, ScanBlack, GatherWhite, StartScan, StartGather
  <1>7. CASE StartDelete \/ FinishCollect \/ \E o \in Obj : DeleteGarbage(o)
    BY <1>7, <1>a DEF StartDelete, FinishCollect, DeleteGarbage
  <1> QED
    BY <1>1, <1>2, <1>3, <1>4, <1>5, <1>6, <1>7, NextCases

\* Every step keeps the garbage sealed.
LEMMA SealStep == IInv /\ SealInv /\ [Next]_vars => SealInv'
PROOF
  <1> QED
    BY UncountedStep, SealedStep DEF SealInv

\* What no reference from outside a set of objects enters, nothing reaches.
LEMMA OutOfReach ==
    ASSUME TypeOK, NEW X \in SUBSET Obj, \A o \in X : RefsTo(o) \subseteq X \X Slot
    PROVE  X \cap Heap!Reachable = {}
PROOF
  <1> DEFINE S == Obj \ X
  <1>1. \A r \in Holder \ (X \X Slot) : ref[r] \in S \cup {NoObj}
    BY DEF TypeOK, RefsTo
  <1>2. Handle \subseteq Holder \ (X \X Slot)
    BY DEF Holder
  <1>3. S \X Slot \subseteq Holder \ (X \X Slot)
    BY DEF Holder, Member
  <1>4. Heap!Closed(S)
    BY <1>1, <1>2, <1>3 DEF Heap!Closed, Heap!Targets
  <1>5. S \in SUBSET Obj
    OBVIOUS
  <1> QED
    BY <1>4, <1>5 DEF Heap!Reachable

\* What nothing refers to is out of reach of every handle.
LEMMA UnreferencedIsFree ==
    ASSUME TypeOK, NEW o \in Obj, \A r \in Holder : ref[r] # o
    PROVE  o \notin Heap!Reachable
PROOF
  <1>1. RefsTo(o) = {}
    BY DEF RefsTo
  <1> QED
    BY <1>1, OutOfReach

\* The holders that code can name are those the heap says a handle leads to.
LEMMA AccessibleIsReachable ==
    ASSUME TypeOK, NEW H \in SUBSET Handle, NEW r \in Accessible(H)
    PROVE  Heap!Reaches(r)
PROOF
  <1>1. ASSUME NEW h \in H, ref[h] # NoObj PROVE ref[h] \in Heap!Reachable
    <2>1. ref[h] \in Obj
      BY <1>1 DEF TypeOK, Holder
    <2>2. \A S \in SUBSET Obj : Heap!Closed(S) => ref[h] \in S
      BY <1>1 DEF Heap!Closed
    <2> QED
      BY <2>1, <2>2 DEF Heap!Reachable
  <1> QED
    BY <1>1 DEF Accessible, Heap!Reaches

\* Every step of the mutator, of a release and of a collection is a step of the heap, or none.
LEMMA HeapStep ==
    ASSUME IInv, SealInv, [Next]_vars
    PROVE  [Heap!Next]_(Heap!vars)
PROOF
  <1> USE DEF heapVars, objectVars, bufferVars, collectVars
  <1>i. TypeOK /\ AliveInv /\ GarbageSealed
    BY DEF IInv, SealInv
  <1>h. Heap!Holder = Holder
    BY DEF Heap!Holder, Holder, Member
  <1>s. ASSUME UNCHANGED <<ref, alive>> PROVE [Heap!Next]_(Heap!vars)
    BY <1>s DEF Heap!vars
  <1>f. ASSUME NEW o \in alive, \A r \in Holder : ref[r] # o, NEW releases,
               DropMembers(o, releases), alive' = alive \ {o}
        PROVE  Heap!Next
    <2>1. o \in Obj
      BY <1>i DEF TypeOK
    <2>2. o \notin Heap!Reachable
      BY <1>i, <1>f, <2>1, UnreferencedIsFree
    <2>3. Heap!Free(o)
      BY <1>f, <1>h, <2>2 DEF Heap!Free, Heap!WithoutMembers, DropMembers
    <2> QED
      BY <2>1, <2>3 DEF Heap!Next
  <1>1. ASSUME NEW h \in Handle, NEW o \in Obj, MakeRef(h, o) PROVE Heap!Next
    <2>1. Heap!Allocate(h, o)
      BY <1>1 DEF MakeRef, Heap!Allocate
    <2> QED
      BY <2>1 DEF Heap!Next
  <1>2. ASSUME NEW src \in Holder, NEW dst \in Holder, CopyAssign(src, dst) PROVE Heap!Next
    <2>1. Heap!Reaches(src) /\ Heap!Reaches(dst)
      BY <1>i, <1>2, AccessibleIsReachable DEF CopyAssign
    <2>2. Heap!Store(src, dst)
      BY <1>2, <2>1 DEF CopyAssign, Heap!Store
    <2> QED
      BY <1>h, <2>2 DEF Heap!Next
  <1>3. ASSUME NEW src \in Holder, NEW dst \in Holder, MoveAssign(src, dst) PROVE Heap!Next
    <2>1. Heap!Reaches(src) /\ Heap!Reaches(dst)
      BY <1>i, <1>3, AccessibleIsReachable DEF MoveAssign
    <2>2. Heap!Store(src, dst)
      BY <1>3, <2>1 DEF MoveAssign, Heap!Store
    <2> QED
      BY <1>h, <2>2 DEF Heap!Next
  <1>4. ASSUME NEW r \in Holder, Reset(r) PROVE Heap!Next
    <2>1. Heap!Reaches(r)
      BY <1>i, <1>4, AccessibleIsReachable DEF Reset
    <2>2. Heap!Drop(r)
      BY <1>4, <2>1 DEF Reset, Heap!Drop
    <2> QED
      BY <1>h, <2>2 DEF Heap!Next
  <1>5. ASSUME NEW o \in Obj, Release(o) PROVE [Heap!Next]_(Heap!vars)
    <2>1. CASE count[o] = 1 /\ OnDestroyed(o, [owed EXCEPT ![o] = @ - 1])
      <3>1. owed[o] > 0 /\ o \in alive
        BY <1>5, <1>i DEF Release, AliveInv, NoUseAfterFree
      <3>2. Subtracted = {}
        <4>1. phase \notin {"mark", "scan", "gather"}
          BY <3>1 DEF IInv, ControlInv, Settled
        <4> QED
          BY <1>i, <4>1, WholePhases DEF TypeOK, Phases
      <3>3. Claims(o) = 1
        BY <2>1, <3>2, ExactWhenWhole
      <3>4. \A r \in Holder : ref[r] # o
        BY <1>i, <3>1, <3>3, LastClaim
      <3> QED
        BY <1>f, <2>1, <3>1, <3>4 DEF OnDestroyed
    <2>2. CASE UNCHANGED <<ref, alive>>
      BY <1>s, <2>2
    <2> QED
      BY <1>5, <2>1, <2>2 DEF Release
  <1>6. ASSUME NEW o \in Obj, ClearReferences(o) PROVE Heap!Next
    <2>1. /\ phase = "clear" /\ o \in garbage /\ garbage \in SUBSET Obj /\ garbage \subseteq alive
          /\ DropMembers(o, owed) /\ UNCHANGED alive
      BY <1>6, <1>i DEF ClearReferences, IInv, ControlInv, AliveInv, NoUseAfterFree, TypeOK
    <2>2. o \notin Heap!Reachable
      BY <1>i, <2>1, OutOfReach DEF GarbageSealed
    <2>3. Heap!Sever(o)
      BY <1>h, <2>1, <2>2 DEF Heap!Sever, Heap!WithoutMembers, DropMembers
    <2> QED
      BY <2>3 DEF Heap!Next
  <1>7. ASSUME NEW o \in Obj, DeleteGarbage(o) PROVE [Heap!Next]_(Heap!vars)
    <2>1. CASE count[o] = 1 /\ alive' = alive \ {o} /\ DropMembers(o, owed)
      <3>1. o \in alive /\ o \in Held /\ Subtracted = {}
        BY <1>7, <1>i, WholePhases
        DEF DeleteGarbage, IInv, ControlInv, AliveInv, NoUseAfterFree, Held
      <3>2. Claims(o) = 1
        BY <2>1, <3>1, ExactWhenWhole
      <3>3. \A r \in Holder : ref[r] # o
        BY <1>i, <3>1, <3>2, LastClaim
      <3> QED
        BY <1>f, <2>1, <3>1, <3>3
    <2>2. CASE UNCHANGED <<ref, alive>>
      BY <1>s, <2>2
    <2> QED
      BY <1>7, <2>1, <2>2 DEF DeleteGarbage
  <1>8. CASE \/ \E b \in BOOLEAN : StartCollect(b)
             \/ \E o \in Obj : MarkGrey(o) \/ Scan(o) \/ ScanBlack(o) \/ GatherWhite(o)
    BY <1>8, <1>s DEF StartCollect, MarkGrey, Scan, ScanBlack, GatherWhite
  <1>9. CASE StartScan \/ StartGather \/ HoldGarbage \/ StartDelete \/ FinishCollect
    BY <1>9, <1>s DEF StartScan, StartGather, HoldGarbage, StartDelete, FinishCollect
  <1>10. CASE UNCHANGED vars
    BY <1>10, <1>s DEF vars
  <1> QED
    BY <1>1, <1>2, <1>3, <1>4, <1>5, <1>6, <1>7, <1>8, <1>9, <1>10, NextCases

\* Reference counts and trial deletion keep the runtime's promise about lifetimes: whatever the
\* counts, the colours and the buffer do, an object loses its references or goes away only when no
\* chain of references leads to it from a handle, for any number of objects, handles and members,
\* traced or not.
THEOREM CollectorImplementsHeap == Spec => ImplementsHeap
PROOF
  <1>1. Init => IInv /\ SealInv
    <2>1. Init => SealInv
      BY DEF Init, SealInv, WhiteUncounted, GarbageSealed
    <2> QED
      BY <2>1, InitHolds
  <1>2. IInv /\ SealInv /\ [Next]_vars => (IInv /\ SealInv)'
    BY StepHolds, SealStep
  <1>3. Init => Heap!Init
    BY DEF Init, Heap!Init, Heap!Holder, Holder, Member
  <1>4. IInv /\ SealInv /\ [Next]_vars => [Heap!Next]_(Heap!vars)
    BY HeapStep
  <1> QED
    BY <1>1, <1>2, <1>3, <1>4, PTL DEF Spec, ImplementsHeap, Heap!Spec
=============================================================================
