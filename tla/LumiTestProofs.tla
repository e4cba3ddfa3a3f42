--------------------------- MODULE LumiTestProofs ---------------------------
(***************************************************************************)
(* Proofs about lumiere tester, for any number of files, groups, hooks and *)
(* tests, and calls nested to any depth.                                   *)
(***************************************************************************)
EXTENDS LumiTest, FiniteSetTheorems, SequenceTheorems, TLAPS

USE BoundsAssumption

-----------------------------------------------------------------------------
(* The inductive invariant.  Its parts are about any stack s, groups gs and hooks hs. *)

Looping == {"before_all", "before_each", "after_each"}
IsHook(f) == f.kind = "code" /\ f.of \in Kinds
IsFile(f) == f.kind = "code" /\ f.of = "file"
IsTest(f) == f.kind = "test"

Settled(hs, h) == hs[h].late \/ hs[h].done > 0
Completes(gs, hs, g) ==
    \A k \in DOMAIN gs[g].hooks["before_all"] : Settled(hs, gs[g].hooks["before_all"][k])
PlacesOf(gs, kind) == UNION {{g} \X DOMAIN gs[g].hooks[kind] : g \in DOMAIN gs}

\* The places of a set that come before one, on the way in and on the way out.
Before(P, x) == {p \in P : Inwards(p, x)}
Behind(P, x) == {p \in P : Outwards(p, x)}

\* What a function may call is a native, and a native calls the function that it
\* has come to: a test the hook just before the place it is at.
Calling(gs, lower, upper) ==
    /\ lower.kind = "code" => upper.kind # "code"
    /\ lower.kind # "code" => upper.kind = "code"
    /\ lower.kind = "groupe" => upper.of \in {"group", "after_all"}
    /\ lower.kind = "lance" => upper.of = "lance"
    /\ upper.kind = "code" /\ upper.of = "lance" => lower.kind = "lance"
    /\ IsTest(lower) => \/ lower.at = "body" /\ upper.of = "test"
                       \/ /\ lower.at \in Looping /\ upper.of = lower.at
                          /\ lower.group \in DOMAIN gs
                          /\ lower.hook - 1 \in DOMAIN gs[lower.group].hooks[lower.at]
                          /\ upper.hook = gs[lower.group].hooks[lower.at][lower.hook - 1]

\* The functions and natives under way.  A hook opens no group.
StackOK(gs, s, raised) ==
    /\ s # <<>> => s[1] = Code("file")
    /\ \A i \in DOMAIN s : IsFile(s[i]) => i = 1
    /\ \A i \in DOMAIN s : i + 1 \in DOMAIN s => Calling(gs, s[i], s[i + 1])
    /\ \A i, j \in DOMAIN s : i < j /\ IsHook(s[i]) => s[j].kind # "groupe"
    /\ raised => s # <<>>

\* A group is done with avant_tout once every hook it had has completed.
GroupsOK(gs, hs) ==
    \A g \in DOMAIN gs : gs[g].before_all_ran => gs[g].admitted /\ Completes(gs, hs, g)

\* How far a test is with the hooks of one kind: those before its place have been
\* run, though the last may still be running or have failed.
BeforeAllOK(gs, hs, f) ==
    /\ \A g \in DOMAIN gs : gs[g].admitted
    /\ \A g \in DOMAIN gs : g < f.group => Completes(gs, hs, g)
    /\ f.group \in DOMAIN gs =>
         \A k \in DOMAIN gs[f.group].hooks["before_all"] :
            k < f.hook - 1 => Settled(hs, gs[f.group].hooks["before_all"][k])
LastSettled(gs, hs, f) ==
    f.at = "before_all" /\ f.group \in DOMAIN gs /\ f.hook - 1 \in DOMAIN gs[f.group].hooks["before_all"]
    => Settled(hs, gs[f.group].hooks["before_all"][f.hook - 1])
BeforeEachOK(gs, hs, f) ==
    /\ f.group > 0
    /\ \A g \in DOMAIN gs : Completes(gs, hs, g)
    /\ Range(f.ran) = Before(PlacesOf(gs, "before_each"), <<f.group, f.hook>>)
    /\ InOrder(f.ran, Inwards)
AfterEachOK(gs, f) ==
    /\ f.group <= Len(gs)
    /\ Range(f.ran) = Behind(PlacesOf(gs, "after_each"), <<f.group, f.hook>>)
    /\ InOrder(f.ran, Outwards)
TestOK(gs, hs, f) ==
    /\ f.at = "before_all" => f.group > 0 /\ BeforeAllOK(gs, hs, f)
    /\ f.at = "before_each" => BeforeEachOK(gs, hs, f)
    /\ f.at = "after_each" => AfterEachOK(gs, f)
TestsOK(gs, hs, s) == \A i \in DOMAIN s : IsTest(s[i]) => TestOK(gs, hs, s[i])

\* The hooks that a filtered group keeps quiet.
Admitted(gs, f) ==
    f.kind = "code" /\ f.of \in {"before_all", "after_all"}
    => \E g \in DOMAIN gs : Contains(gs[g].hooks[f.of], f.hook) /\ gs[g].admitted

\* Errors that have been caught, and where they are counted.
FailedTest(s) == \E i \in DOMAIN s : IsTest(s[i]) /\ ~s[i].passed
Counted == aggregate.failed > 0 \/ (stack # <<>> /\ (summary.failed > 0 \/ FailedTest(stack)))

StackInv == StackOK(groups, stack, raising)
GroupsInv == GroupsOK(groups, hooks)
TestsInv == TestsOK(groups, hooks, stack)
SettledInv == stack # <<>> /\ ~raising /\ IsTest(Top) => LastSettled(groups, hooks, Top)
QuietInv == \A i \in DOMAIN stack : Admitted(groups, stack[i])
OutcomeInv ==
    /\ status # None => stack = <<>> /\ (status = 0 <=> ~struck)
    /\ status = None => (struck <=> Counted)
IInv == TypeOK /\ StackInv /\ GroupsInv /\ TestsInv /\ SettledInv /\ QuietInv /\ OutcomeInv

-----------------------------------------------------------------------------
(* Frames and stacks. *)

Opened(s) == {i \in DOMAIN s : s[i].kind = "groupe"}

\* An element more makes a finite set larger by one.
LEMMA OneMore ==
    ASSUME NEW S, IsFiniteSet(S), NEW x, x \notin S
    PROVE  Cardinality(S \cup {x}) = Cardinality(S) + 1 /\ Cardinality(S) \in Nat
  BY FS_AddElement, FS_CardinalityType

\* What Append does to a stack, and to how many groups are open in it.
LEMMA Pushed ==
    ASSUME NEW S, NEW s \in Seq(S), NEW f \in S
    PROVE  LET t == Append(s, f)
           IN /\ t \in Seq(S) /\ Len(t) = Len(s) + 1 /\ Len(t) \in Nat /\ t # <<>>
              /\ DOMAIN t = 1 .. Len(s) + 1
              /\ \A i \in 1 .. Len(s) : t[i] = s[i]
              /\ t[Len(s) + 1] = f
              /\ Last(t) = f
              /\ Cardinality(Opened(t)) = Cardinality(Opened(s)) + (IF f.kind = "groupe" THEN 1 ELSE 0)
PROOF
  <1> DEFINE t == Append(s, f)
  <1>1. /\ t \in Seq(S) /\ Len(t) = Len(s) + 1 /\ Len(t) \in Nat /\ DOMAIN t = 1 .. Len(s) + 1
        /\ \A i \in 1 .. Len(s) : t[i] = s[i]
        /\ t[Len(s) + 1] = f
        /\ DOMAIN s = 1 .. Len(s) /\ Len(s) \in Nat
    BY AppendProperties, LenProperties
  <1> HIDE DEF t
  <1>2. IsFiniteSet(Opened(s)) /\ Len(s) + 1 \notin Opened(s)
    <2>1. IsFiniteSet(1 .. Len(s)) /\ Opened(s) \subseteq 1 .. Len(s)
      BY <1>1, FS_Interval DEF Opened
    <2> QED
      BY <1>1, <2>1, FS_Subset
  <1>3. Opened(t) = IF f.kind = "groupe" THEN Opened(s) \cup {Len(s) + 1} ELSE Opened(s)
    BY <1>1 DEF Opened
  <1>4. Cardinality(Opened(t)) = Cardinality(Opened(s)) + (IF f.kind = "groupe" THEN 1 ELSE 0)
    <2>1. /\ Cardinality(Opened(s) \cup {Len(s) + 1}) = Cardinality(Opened(s)) + 1
          /\ Cardinality(Opened(s)) \in Nat
      BY <1>2, OneMore
    <2> QED
      BY <1>3, <2>1
  <1>5. t # <<>> /\ Last(t) = f
    BY <1>1 DEF Last
  <1> QED
    BY <1>1, <1>4, <1>5 DEF t

\* What Front does.
LEMMA Popped ==
    ASSUME NEW S, NEW s \in Seq(S), s # <<>>
    PROVE  LET t == Front(s)
           IN /\ t \in Seq(S) /\ Len(t) = Len(s) - 1 /\ Len(t) \in Nat
              /\ DOMAIN t = 1 .. Len(s) - 1
              /\ \A i \in 1 .. Len(s) - 1 : t[i] = s[i]
              /\ Last(s) = s[Len(s)] /\ Len(s) \in DOMAIN s /\ Last(s) \in S
              /\ Cardinality(Opened(s)) = Cardinality(Opened(t)) + (IF Last(s).kind = "groupe" THEN 1 ELSE 0)
              /\ Cardinality(Opened(t)) \in Nat
PROOF
  <1> DEFINE t == Front(s)
  <1> DEFINE n == Len(s) - 1
  <1>1. /\ n \in Nat /\ Len(s) = n + 1 /\ DOMAIN s = 1 .. n + 1
        /\ \A i \in 1 .. n + 1 : s[i] \in S
    BY LenProperties, EmptySeq
  <1>2. /\ t \in Seq(S) /\ Len(t) = n /\ DOMAIN t = 1 .. n
        /\ \A i \in 1 .. n : t[i] = s[i]
    <2>1. t = SubSeq(s, 1, n)
      BY DEF Front
    <2> HIDE DEF n, t
    <2>2. \A i \in 1 .. n : s[i] \in S
      BY <1>1
    <2>3. /\ SubSeq(s, 1, n) \in Seq(S)
          /\ Len(SubSeq(s, 1, n)) = IF 1 <= n THEN n - 1 + 1 ELSE 0
          /\ \A i \in 1 .. n - 1 + 1 : SubSeq(s, 1, n)[i] = s[1 + i - 1]
      BY <1>1, <2>2, SubSeqProperties
    <2>4. t \in Seq(S) /\ Len(t) = n /\ \A i \in 1 .. n : t[i] = s[i]
      BY <1>1, <2>1, <2>3
    <2> QED
      BY <2>4, LenProperties
  <1> HIDE DEF n
  <1> HIDE DEF t
  <1>3. Last(s) = s[Len(s)] /\ Len(s) \in DOMAIN s /\ Last(s) \in S
    BY <1>1 DEF Last
  <1>4. IsFiniteSet(Opened(t)) /\ Len(s) \notin Opened(t)
    <2>1. IsFiniteSet(1 .. n) /\ Opened(t) \subseteq 1 .. n
      BY <1>1, <1>2, FS_Interval DEF Opened
    <2> QED
      BY <1>1, <2>1, FS_Subset
  <1>5. Opened(s) = IF Last(s).kind = "groupe" THEN Opened(t) \cup {Len(s)} ELSE Opened(t)
    BY <1>1, <1>2, <1>3 DEF Opened
  <1>6. /\ Cardinality(Opened(s)) = Cardinality(Opened(t)) + (IF Last(s).kind = "groupe" THEN 1 ELSE 0)
        /\ Cardinality(Opened(t)) \in Nat
    <2>1. /\ Cardinality(Opened(t) \cup {Len(s)}) = Cardinality(Opened(t)) + 1
          /\ Cardinality(Opened(t)) \in Nat
      BY <1>4, OneMore
    <2> QED
      BY <1>5, <2>1
  <1> QED
    BY <1>1, <1>2, <1>3, <1>6 DEF t

-----------------------------------------------------------------------------
(* What a step leaves of the invariant. *)

\* The groups keep their hooks, and a hook that has completed stays so.
SameHooks(gs, gs2) ==
    /\ Len(gs2) = Len(gs) /\ DOMAIN gs2 = DOMAIN gs
    /\ \A g \in DOMAIN gs : gs2[g].hooks = gs[g].hooks /\ (gs[g].admitted => gs2[g].admitted)
MoreSettled(hs, hs2) == \A h \in DOMAIN hs : Settled(hs, h) => Settled(hs2, h)
HooksOf(gs, hs) ==
    \A g \in DOMAIN gs : \A k \in DOMAIN gs[g].hooks["before_all"] : gs[g].hooks["before_all"][k] \in DOMAIN hs

\* No hook is under way, and no test but for its body.
Calm(s) == \A i \in DOMAIN s : ~IsHook(s[i]) /\ (IsTest(s[i]) => s[i].at = "body")

\* A call stays one when no hook was registered.
LEMMA CallingKept ==
    ASSUME NEW gs, NEW gs2, NEW lower, NEW upper, Calling(gs, lower, upper),
           DOMAIN gs2 = DOMAIN gs, \A g \in DOMAIN gs : gs2[g].hooks = gs[g].hooks
    PROVE  Calling(gs2, lower, upper)
PROOF
  <1>1. ASSUME lower.group \in DOMAIN gs
        PROVE  lower.group \in DOMAIN gs2 /\ gs2[lower.group].hooks = gs[lower.group].hooks
    BY <1>1
  <1> QED
    BY <1>1 DEF Calling

\* A call that is no hook's asks nothing of the groups.
LEMMA CallingBody ==
    ASSUME NEW gs, NEW gs2, NEW lower, NEW upper, Calling(gs, lower, upper),
           IsTest(lower) => lower.at = "body"
    PROVE  Calling(gs2, lower, upper)
PROOF
  <1>1. "body" \notin Looping
    BY DEF Looping
  <1>2. IsTest(lower) => upper.of = "test"
    BY <1>1 DEF Calling
  <1> QED
    BY <1>2 DEF Calling

\* A group that has completed its avant_tout hooks has still done so.
LEMMA CompletesGrows ==
    ASSUME NEW gs, NEW gs2, NEW hs, NEW hs2,
           SameHooks(gs, gs2), MoreSettled(hs, hs2), HooksOf(gs, hs),
           NEW g \in DOMAIN gs, Completes(gs, hs, g)
    PROVE  Completes(gs2, hs2, g)
  BY DEF SameHooks, MoreSettled, HooksOf, Completes

\* Groups with the same hooks have them at the same places.
LEMMA SamePlaces ==
    ASSUME NEW gs, NEW gs2, SameHooks(gs, gs2), NEW kind
    PROVE  PlacesOf(gs2, kind) = PlacesOf(gs, kind)
PROOF
  <1>1. \A g \in DOMAIN gs : {g} \X DOMAIN gs2[g].hooks[kind] = {g} \X DOMAIN gs[g].hooks[kind]
    BY DEF SameHooks
  <1>2. DOMAIN gs2 = DOMAIN gs
    BY DEF SameHooks
  <1> QED
    BY <1>1, <1>2 DEF PlacesOf

\* What holds of a test goes on to hold when no hook was registered and none
\* undone.
LEMMA TestGrows ==
    ASSUME NEW gs, NEW gs2, NEW hs, NEW hs2,
           SameHooks(gs, gs2), MoreSettled(hs, hs2), HooksOf(gs, hs),
           NEW f, TestOK(gs, hs, f)
    PROVE  TestOK(gs2, hs2, f)
PROOF
  <1>1. CASE f.at = "before_all"
    <2>1. BeforeAllOK(gs, hs, f)
      BY <1>1 DEF TestOK
    <2>2. \A g \in DOMAIN gs2 : gs2[g].admitted
      BY <2>1 DEF BeforeAllOK, SameHooks
    <2>3. \A g \in DOMAIN gs2 : g < f.group => Completes(gs2, hs2, g)
      BY <2>1, CompletesGrows DEF BeforeAllOK, SameHooks
    <2>4. ASSUME f.group \in DOMAIN gs2, NEW k \in DOMAIN gs2[f.group].hooks["before_all"],
                 k < f.hook - 1
          PROVE  Settled(hs2, gs2[f.group].hooks["before_all"][k])
      BY <2>1, <2>4 DEF BeforeAllOK, SameHooks, MoreSettled, HooksOf
    <2>5. BeforeAllOK(gs2, hs2, f)
      BY <2>2, <2>3, <2>4 DEF BeforeAllOK
    <2> QED
      BY <1>1, <2>5 DEF TestOK
  <1>2. CASE f.at = "before_each"
    <2>1. BeforeEachOK(gs, hs, f)
      BY <1>2 DEF TestOK
    <2>2. \A g \in DOMAIN gs2 : Completes(gs2, hs2, g)
      BY <2>1, CompletesGrows DEF BeforeEachOK, SameHooks
    <2>3. BeforeEachOK(gs2, hs2, f)
      BY <2>1, <2>2, SamePlaces DEF BeforeEachOK
    <2> QED
      BY <1>2, <2>3 DEF TestOK
  <1>3. CASE f.at = "after_each"
    <2>1. AfterEachOK(gs, f)
      BY <1>3 DEF TestOK
    <2>2. AfterEachOK(gs2, f)
      BY <2>1, SamePlaces DEF AfterEachOK, SameHooks
    <2> QED
      BY <1>3, <2>2 DEF TestOK
  <1> QED
    BY <1>1, <1>2, <1>3 DEF TestOK

\* A hook of an admitted group stays one.
LEMMA AdmittedGrows ==
    ASSUME NEW gs, NEW gs2, SameHooks(gs, gs2), NEW f, Admitted(gs, f)
    PROVE  Admitted(gs2, f)
  BY DEF SameHooks, Admitted

\* The stack t keeps the first n frames of s.
LEMMA StackKept ==
    ASSUME NEW gs, NEW gs2, NEW S, NEW S2, NEW s \in Seq(S), NEW t \in Seq(S2),
           NEW r, NEW r2, StackOK(gs, s, r), SameHooks(gs, gs2) \/ Calm(s),
           NEW n \in Nat, n <= Len(s), n <= Len(t), n > 0 \/ t = <<>>,
           \A i \in 1 .. n : t[i] = s[i],
           \A i \in n + 1 .. Len(t) :
               ~IsFile(t[i]) /\ (t[i].kind = "groupe" => \A j \in 1 .. i - 1 : ~IsHook(t[j])),
           \A i \in n .. Len(t) - 1 : i > 0 => Calling(gs2, t[i], t[i + 1]),
           r2 => t # <<>>
    PROVE  StackOK(gs2, t, r2)
PROOF
  <1>1. /\ DOMAIN s = 1 .. Len(s) /\ Len(s) \in Nat /\ DOMAIN t = 1 .. Len(t) /\ Len(t) \in Nat
        /\ t # <<>> => Len(t) > 0
    BY LenProperties, EmptySeq
  <1>2. t # <<>> => t[1] = Code("file")
    BY <1>1 DEF StackOK
  <1>3. \A i \in DOMAIN t : IsFile(t[i]) => i = 1
    BY <1>1 DEF StackOK
  <1>4. ASSUME NEW i \in DOMAIN t, i + 1 \in DOMAIN t
        PROVE  Calling(gs2, t[i], t[i + 1])
    <2>1. CASE i >= n
      BY <1>1, <1>4, <2>1
    <2>2. CASE i < n
      <3>1. Calling(gs, s[i], s[i + 1]) /\ t[i] = s[i] /\ t[i + 1] = s[i + 1]
        BY <1>1, <2>2 DEF StackOK
      <3>2. CASE SameHooks(gs, gs2)
        <4>1. DOMAIN gs2 = DOMAIN gs /\ \A g \in DOMAIN gs : gs2[g].hooks = gs[g].hooks
          BY <3>2 DEF SameHooks
        <4> QED
          BY <3>1, <4>1, CallingKept
      <3>3. CASE Calm(s)
        <4>1. IsTest(s[i]) => s[i].at = "body"
          BY <1>1, <2>2, <3>3 DEF Calm
        <4> QED
          BY <3>1, <4>1, CallingBody
      <3> QED
        BY <3>2, <3>3
    <2> QED
      BY <1>1, <2>1, <2>2
  <1>5. ASSUME NEW i \in DOMAIN t, NEW j \in DOMAIN t, i < j, IsHook(t[i])
        PROVE  t[j].kind # "groupe"
    BY <1>1, <1>5 DEF StackOK
  <1> QED
    BY <1>2, <1>3, <1>4, <1>5 DEF StackOK

\* The tests under way go on as they were, when those below the n-th function
\* are the same and the new ones sound.
LEMMA TestsKept ==
    ASSUME NEW gs, NEW gs2, NEW hs, NEW hs2, NEW S, NEW S2, NEW s \in Seq(S), NEW t \in Seq(S2),
           TestsOK(gs, hs, s),
           (SameHooks(gs, gs2) /\ MoreSettled(hs, hs2) /\ HooksOf(gs, hs)) \/ Calm(s),
           NEW n \in Nat, n <= Len(s), n <= Len(t),
           \A i \in 1 .. n : t[i] = s[i],
           \A i \in n + 1 .. Len(t) : IsTest(t[i]) => TestOK(gs2, hs2, t[i])
    PROVE  TestsOK(gs2, hs2, t)
PROOF
  <1>1. DOMAIN s = 1 .. Len(s) /\ Len(s) \in Nat /\ DOMAIN t = 1 .. Len(t) /\ Len(t) \in Nat
    BY LenProperties
  <1>2. ASSUME NEW i \in DOMAIN t, IsTest(t[i])
        PROVE  TestOK(gs2, hs2, t[i])
    <2>1. CASE i > n
      BY <1>1, <1>2, <2>1
    <2>2. CASE i <= n
      <3>1. i \in DOMAIN s /\ t[i] = s[i] /\ IsTest(s[i]) /\ TestOK(gs, hs, s[i])
        BY <1>1, <1>2, <2>2 DEF TestsOK
      <3>2. CASE Calm(s)
        BY <3>1, <3>2 DEF Calm, TestOK
      <3>3. CASE SameHooks(gs, gs2) /\ MoreSettled(hs, hs2) /\ HooksOf(gs, hs)
        <4>1. TestOK(gs2, hs2, s[i])
          BY <3>1, <3>3, TestGrows
        <4> QED
          BY <3>1, <4>1
      <3> QED
        BY <3>2, <3>3
    <2> QED
      BY <1>1, <2>1, <2>2
  <1> QED
    BY <1>2 DEF TestsOK

-----------------------------------------------------------------------------
(* The state a step starts from, and the stacks it may leave. *)

\* What a frame of each kind is.
LEMMA FrameFields ==
    ASSUME TypeOK, NEW f \in Frames
    PROVE  /\ f.kind \in {"code", "groupe", "test", "lance"}
           /\ f.kind = "code" =>
                 /\ f = [kind |-> "code", of |-> f.of, hook |-> f.hook]
                 /\ f.of \in Kinds \cup {"file", "group", "test", "lance"} /\ f.hook \in 0 .. Len(hooks)
           /\ f.kind = "groupe" =>
                 /\ f = [kind |-> "groupe", at |-> f.at, hook |-> f.hook]
                 /\ f.at = "callback" /\ f.hook \in Nat \ {0}
           /\ f.kind = "test" =>
                 /\ f = [kind |-> "test", at |-> f.at, group |-> f.group, hook |-> f.hook,
                         passed |-> f.passed, ran |-> f.ran]
                 /\ f.at \in {"before_all", "before_each", "body", "after_each", "finish"}
                 /\ f.group \in Nat /\ f.hook \in Nat \ {0} /\ f.passed \in BOOLEAN /\ f.ran \in Seq(Nat \X Nat)
  BY DEF Frames

\* More hooks make more frames and more groups.
LEMMA TypesGrow ==
    ASSUME TypeOK, Len(hooks') \in Nat, Len(hooks) <= Len(hooks')
    PROVE  Frames \subseteq Frames' /\ Groups \subseteq Groups' /\ Seq(Frames) \subseteq Seq(Frames')
           /\ Seq(Groups) \subseteq Seq(Groups')
PROOF
  <1>1. Len(hooks) \in Nat
    BY LenProperties DEF TypeOK
  <1>2. 0 .. Len(hooks) \subseteq 0 .. Len(hooks') /\ 1 .. Len(hooks) \subseteq 1 .. Len(hooks')
    BY <1>1
  <1>3. Frames \subseteq Frames'
    BY <1>2 DEF Frames
  <1>4. Seq(1 .. Len(hooks)) \subseteq Seq(1 .. Len(hooks'))
    BY <1>2, SeqMonotonic
  <1>5. Groups \subseteq Groups'
    BY <1>4 DEF Groups
  <1> QED
    BY <1>3, <1>5, SeqMonotonic

\* The frame and the group on top, and what is below.
LEMMA TopFields ==
    ASSUME TypeOK, stack # <<>>
    PROVE  /\ Top \in Frames /\ Len(stack) \in DOMAIN stack /\ Top = stack[Len(stack)]
           /\ DOMAIN stack = 1 .. Len(stack) /\ Len(stack) \in Nat \ {0}
           /\ Front(stack) \in Seq(Frames)
  BY Popped, LenProperties, EmptySeq DEF TypeOK, Top

\* The groups, their hooks and the hooks of the file are sequences that refer
\* to one another.
LEMMA GroupsFields ==
    ASSUME TypeOK
    PROVE  /\ DOMAIN groups = 1 .. Len(groups) /\ Len(groups) \in Nat
           /\ \A g \in DOMAIN groups :
                 /\ groups[g] \in Groups
                 /\ \A kind \in Kinds :
                       /\ groups[g].hooks[kind] \in Seq(1 .. Len(hooks))
                       /\ DOMAIN groups[g].hooks[kind] = 1 .. Len(groups[g].hooks[kind])
                       /\ Len(groups[g].hooks[kind]) \in Nat
                       /\ \A k \in DOMAIN groups[g].hooks[kind] : groups[g].hooks[kind][k] \in 1 .. Len(hooks)
           /\ DOMAIN hooks = 1 .. Len(hooks) /\ Len(hooks) \in Nat
           /\ HooksOf(groups, hooks)
PROOF
  <1>1. DOMAIN groups = 1 .. Len(groups) /\ Len(groups) \in Nat /\ DOMAIN hooks = 1 .. Len(hooks) /\ Len(hooks) \in Nat
    BY LenProperties DEF TypeOK
  <1>2. ASSUME NEW g \in DOMAIN groups, NEW kind \in Kinds
        PROVE  /\ groups[g] \in Groups
               /\ groups[g].hooks[kind] \in Seq(1 .. Len(hooks))
    <2>1. groups \in [1 .. Len(groups) -> Groups]
      BY LenProperties DEF TypeOK
    <2>2. groups[g] \in Groups
      BY <1>2, <2>1
    <2> QED
      BY <1>2, <2>2 DEF Groups
  <1>3. ASSUME NEW g \in DOMAIN groups, NEW kind \in Kinds
        PROVE  /\ DOMAIN groups[g].hooks[kind] = 1 .. Len(groups[g].hooks[kind])
               /\ Len(groups[g].hooks[kind]) \in Nat
               /\ \A k \in DOMAIN groups[g].hooks[kind] : groups[g].hooks[kind][k] \in 1 .. Len(hooks)
    BY <1>2, LenProperties, ElementOfSeq
  <1>4. HooksOf(groups, hooks)
    BY <1>1, <1>3 DEF HooksOf, Kinds
  <1>5. \A g \in DOMAIN groups : groups[g] \in Groups
    BY <1>1, ElementOfSeq DEF TypeOK
  <1> QED
    BY <1>1, <1>2, <1>3, <1>4, <1>5

\* When a function outside of any hook is on top, or groupe, every test below is in its body.
LEMMA CalmInside ==
    ASSUME TypeOK, StackInv, stack # <<>>,
           (Top.kind = "code" /\ ~InHook) \/ Top.kind = "groupe"
    PROVE  Calm(stack)
PROOF
  <1>1. \A i \in DOMAIN stack : ~IsHook(stack[i])
    <2>1. CASE Top.kind = "code" /\ ~InHook
      BY <2>1 DEF InHook, IsHook
    <2>2. CASE Top.kind = "groupe"
      <3>1. ASSUME NEW i \in DOMAIN stack, IsHook(stack[i])
            PROVE  FALSE
        <4>1. i # Len(stack)
          BY <2>2, <3>1, TopFields DEF IsHook
        <4> QED
          BY <2>2, <3>1, <4>1, TopFields DEF StackInv, StackOK
      <3> QED
        BY <3>1
    <2> QED
      BY <2>1, <2>2
  <1>2. ASSUME NEW i \in DOMAIN stack, IsTest(stack[i])
        PROVE  stack[i].at = "body"
    <2>1. i # Len(stack)
      BY <1>2, TopFields DEF IsTest
    <2>2. i + 1 \in DOMAIN stack
      BY <2>1, TopFields
    <2>3. Calling(groups, stack[i], stack[i + 1])
      BY <2>2 DEF StackInv, StackOK
    <2> QED
      BY <1>1, <1>2, <2>2, <2>3 DEF Calling, IsTest, IsHook, Looping, Kinds
  <1> QED
    BY <1>1, <1>2 DEF Calm

\* The frame on top gives way to another.
LEMMA Gone ==
    ASSUME NEW S, NEW s \in Seq(S), s # <<>>, NEW f \in S
    PROVE  LET t == Append(Front(s), f)
           IN /\ t \in Seq(S) /\ Len(t) = Len(s) /\ t # <<>>
              /\ DOMAIN t = 1 .. Len(s)
              /\ \A i \in 1 .. Len(s) - 1 : t[i] = s[i]
              /\ t[Len(s)] = f /\ Last(t) = f
              /\ Cardinality(Opened(t)) = Cardinality(Opened(Front(s))) + (IF f.kind = "groupe" THEN 1 ELSE 0)
PROOF
  <1> DEFINE u == Front(s)
  <1>1. /\ u \in Seq(S) /\ Len(u) = Len(s) - 1 /\ Len(s) \in Nat \ {0}
        /\ \A i \in 1 .. Len(s) - 1 : u[i] = s[i]
    BY Popped, LenProperties, EmptySeq
  <1> HIDE DEF u
  <1> DEFINE t == Append(u, f)
  <1>2. /\ t \in Seq(S) /\ Len(t) = Len(u) + 1 /\ t # <<>> /\ DOMAIN t = 1 .. Len(u) + 1
        /\ \A i \in 1 .. Len(u) : t[i] = u[i]
        /\ t[Len(u) + 1] = f /\ Last(t) = f
        /\ Cardinality(Opened(t)) = Cardinality(Opened(u)) + (IF f.kind = "groupe" THEN 1 ELSE 0)
    BY <1>1, Pushed
  <1> HIDE DEF t
  <1>3. /\ Len(t) = Len(s) /\ DOMAIN t = 1 .. Len(s) /\ t[Len(s)] = f
        /\ \A i \in 1 .. Len(s) - 1 : t[i] = s[i]
    BY <1>1, <1>2
  <1> QED
    BY <1>2, <1>3 DEF t, u

-----------------------------------------------------------------------------
(* Parts of the invariant that most steps leave alone. *)

\* The stack stays sound when it keeps its first n functions and each new one
\* is what the one below may call.
LEMMA FramesKept ==
    ASSUME IInv, stack' \in Seq(Frames'),
           (SameHooks(groups, groups') /\ MoreSettled(hooks, hooks')) \/ Calm(stack),
           NEW n \in Nat, n <= Len(stack), n <= Len(stack'), n > 0 \/ stack' = <<>>,
           \A i \in 1 .. n : stack'[i] = stack[i],
           \A i \in n + 1 .. Len(stack') :
               /\ ~IsFile(stack'[i])
               /\ stack'[i].kind = "groupe" => \A j \in 1 .. i - 1 : ~IsHook(stack'[j])
               /\ IsTest(stack'[i]) => TestOK(groups', hooks', stack'[i])
               /\ Admitted(groups', stack'[i]),
           \A i \in n .. Len(stack') - 1 : i > 0 => Calling(groups', stack'[i], stack'[i + 1]),
           raising' => stack' # <<>>
    PROVE  StackInv' /\ TestsInv' /\ QuietInv'
PROOF
  <1>1. TypeOK /\ StackInv /\ TestsInv /\ QuietInv
    BY DEF IInv
  <1>2. stack \in Seq(Frames) /\ HooksOf(groups, hooks)
    BY <1>1, GroupsFields DEF TypeOK
  <1>3. StackOK(groups', stack', raising')
    BY <1>1, <1>2, StackKept DEF StackInv
  <1>4. TestsOK(groups', hooks', stack')
    BY <1>1, <1>2, TestsKept DEF TestsInv
  <1>5. ASSUME NEW i \in DOMAIN stack'
        PROVE  Admitted(groups', stack'[i])
    <2>1. DOMAIN stack' = 1 .. Len(stack') /\ DOMAIN stack = 1 .. Len(stack)
      BY <1>2, LenProperties
    <2>2. CASE i <= n
      <3>1. i \in DOMAIN stack /\ stack'[i] = stack[i] /\ Admitted(groups, stack[i])
        BY <1>1, <1>5, <2>1, <2>2 DEF QuietInv
      <3>2. CASE Calm(stack)
        BY <3>1, <3>2 DEF Calm, IsHook, Kinds, Admitted
      <3>3. CASE SameHooks(groups, groups')
        BY <3>1, <3>3, AdmittedGrows
      <3> QED
        BY <3>2, <3>3
    <2> QED
      BY <1>5, <2>1, <2>2
  <1> QED
    BY <1>3, <1>4, <1>5 DEF StackInv, TestsInv, QuietInv

\* The groups stay sound when none is marked or gains a hook.
LEMMA GroupsKept ==
    ASSUME GroupsInv, TypeOK, SameHooks(groups, groups'), MoreSettled(hooks, hooks'),
           \A g \in DOMAIN groups : groups'[g].before_all_ran = groups[g].before_all_ran
    PROVE  GroupsInv'
PROOF
  <1>1. ASSUME NEW g \in DOMAIN groups', groups'[g].before_all_ran
        PROVE  groups'[g].admitted /\ Completes(groups', hooks', g)
    <2>1. g \in DOMAIN groups /\ groups[g].admitted /\ Completes(groups, hooks, g)
      BY <1>1 DEF GroupsInv, GroupsOK, SameHooks
    <2>2. Completes(groups', hooks', g)
      BY <2>1, GroupsFields, CompletesGrows
    <2> QED
      BY <2>1, <2>2 DEF SameHooks
  <1> QED
    BY <1>1 DEF GroupsInv, GroupsOK

\* The groups, or the groups and the hooks, are left alone.
LEMMA SameGroups ==
    /\ groups' = groups => SameHooks(groups, groups')
    /\ hooks' = hooks => MoreSettled(hooks, hooks')
  BY DEF SameHooks, MoreSettled

\* The same tests that are under way have failed.
LEMMA OutcomeKept ==
    ASSUME OutcomeInv, UNCHANGED <<aggregate, summary, struck, status>>,
           stack # <<>>, stack' # <<>>, FailedTest(stack') <=> FailedTest(stack)
    PROVE  OutcomeInv'
PROOF
  <1>1. Counted' <=> Counted
    BY DEF Counted
  <1> QED
    BY <1>1 DEF OutcomeInv

FailedAbove(n, s) == \E i \in n + 1 .. Len(s) : IsTest(s[i]) /\ ~s[i].passed

\* Whether a test has failed depends on the functions above those that two
\* stacks share.
LEMMA FailedKept ==
    ASSUME NEW S, NEW S2, NEW s \in Seq(S), NEW t \in Seq(S2), NEW n \in Nat, n <= Len(s), n <= Len(t),
           \A i \in 1 .. n : t[i] = s[i],
           FailedAbove(n, t) <=> FailedAbove(n, s)
    PROVE  FailedTest(t) <=> FailedTest(s)
PROOF
  <1>1. /\ DOMAIN s = 1 .. Len(s) /\ Len(s) \in Nat /\ DOMAIN t = 1 .. Len(t) /\ Len(t) \in Nat
    BY LenProperties
  <1>2. ASSUME FailedTest(s)
        PROVE  FailedTest(t)
    <2>1. PICK i \in DOMAIN s : IsTest(s[i]) /\ ~s[i].passed
      BY <1>2 DEF FailedTest
    <2>2. CASE i <= n
      BY <1>1, <2>1, <2>2 DEF FailedTest
    <2>3. CASE i > n
      <3>1. i \in n + 1 .. Len(s)
        BY <1>1, <2>3
      <3>2. PICK j \in n + 1 .. Len(t) : IsTest(t[j]) /\ ~t[j].passed
        BY <2>1, <3>1 DEF FailedAbove
      <3> QED
        BY <1>1, <3>2 DEF FailedTest
    <2> QED
      BY <1>1, <2>2, <2>3
  <1>3. ASSUME FailedTest(t)
        PROVE  FailedTest(s)
    <2>1. PICK i \in DOMAIN t : IsTest(t[i]) /\ ~t[i].passed
      BY <1>3 DEF FailedTest
    <2>2. CASE i <= n
      BY <1>1, <2>1, <2>2 DEF FailedTest
    <2>3. CASE i > n
      <3>1. i \in n + 1 .. Len(t)
        BY <1>1, <2>3
      <3>2. PICK j \in n + 1 .. Len(s) : IsTest(s[j]) /\ ~s[j].passed
        BY <2>1, <3>1 DEF FailedAbove
      <3> QED
        BY <1>1, <3>2 DEF FailedTest
    <2> QED
      BY <1>1, <2>2, <2>3
  <1> QED
    BY <1>2, <1>3

\* A frame that is not the file has another below, which has called it.
LEMMA Below ==
    ASSUME IInv, stack # <<>>, ~IsFile(Top)
    PROVE  /\ Len(stack) - 1 \in Nat \ {0} /\ Len(stack) - 1 \in DOMAIN stack /\ Front(stack) # <<>>
           /\ Last(Front(stack)) = stack[Len(stack) - 1] /\ stack[Len(stack) - 1] \in Frames
           /\ Calling(groups, stack[Len(stack) - 1], Top)
PROOF
  <1>1. TypeOK /\ StackInv
    BY DEF IInv
  <1>2. /\ Top = stack[Len(stack)] /\ Len(stack) \in Nat \ {0} /\ DOMAIN stack = 1 .. Len(stack)
        /\ stack \in Seq(Frames)
    BY <1>1, TopFields DEF TypeOK
  <1>3. Len(stack) # 1
    BY <1>1, <1>2 DEF StackInv, StackOK, IsFile, Code
  <1>4. /\ Front(stack) \in Seq(Frames) /\ Len(Front(stack)) = Len(stack) - 1
        /\ \A i \in 1 .. Len(stack) - 1 : Front(stack)[i] = stack[i]
    BY <1>2, Popped
  <1>5. Front(stack) # <<>> /\ Last(Front(stack)) = stack[Len(stack) - 1]
    <2>1. Len(Front(stack)) \in Nat \ {0} /\ Len(Front(stack)) \in 1 .. Len(stack) - 1
      BY <1>2, <1>3, <1>4
    <2>2. Front(stack) # <<>>
      BY <1>4, <2>1, EmptySeq
    <2> QED
      BY <1>4, <2>1, <2>2 DEF Last
  <1>6. Calling(groups, stack[Len(stack) - 1], Top)
    <2>1. /\ Len(stack) - 1 \in DOMAIN stack /\ (Len(stack) - 1) + 1 = Len(stack)
          /\ (Len(stack) - 1) + 1 \in DOMAIN stack
      BY <1>2, <1>3
    <2>2. Calling(groups, stack[Len(stack) - 1], stack[(Len(stack) - 1) + 1])
      BY <1>1, <2>1 DEF StackInv, StackOK
    <2> QED
      BY <1>2, <2>1, <2>2
  <1>7. stack[Len(stack) - 1] \in Frames
    BY <1>2, <1>3, ElementOfSeq
  <1> QED
    BY <1>2, <1>3, <1>5, <1>6, <1>7

\* The stack, the groups and the hooks are as they were.
LEMMA SameTypes ==
    ASSUME TypeOK, hooks' = hooks
    PROVE  Frames' = Frames /\ Groups' = Groups
  BY DEF Frames, Groups

\* The frame on top, which is not the file, is gone.
LEMMA PopKept ==
    ASSUME IInv, stack # <<>>, ~IsFile(Top), stack' = Front(stack),
           Len(hooks') \in Nat, Len(hooks) <= Len(hooks'),
           (SameHooks(groups, groups') /\ MoreSettled(hooks, hooks')) \/ Calm(stack)
    PROVE  /\ stack' \in Seq(Frames') /\ stack' # <<>>
           /\ StackInv' /\ TestsInv' /\ QuietInv'
           /\ Cardinality(Opened(stack')) = IF Top.kind = "groupe" THEN Len(groups) - 1 ELSE Len(groups)
           /\ Cardinality(Opened(stack')) \in Nat
           /\ ~IsTest(Top) \/ Top.passed => (FailedTest(stack') <=> FailedTest(stack))
           /\ Last(stack') \in Frames /\ Calling(groups, Last(stack'), Top)
PROOF
  <1>1. TypeOK
    BY DEF IInv
  <1>2. stack \in Seq(Frames) /\ Len(groups) = Cardinality(Opened(stack)) /\ Len(groups) \in Nat
    BY <1>1, GroupsFields DEF TypeOK, Opened
  <1>3. /\ Top = stack[Len(stack)] /\ Len(stack) \in Nat /\ Top \in Frames
    BY <1>1, TopFields
  <1>4. /\ Len(stack) - 1 \in Nat \ {0} /\ stack' # <<>> /\ Last(stack') = stack[Len(stack) - 1]
        /\ Last(stack') \in Frames /\ Calling(groups, Last(stack'), Top)
    BY Below
  <1>5. /\ stack' \in Seq(Frames) /\ Len(stack') = Len(stack) - 1
        /\ \A i \in 1 .. Len(stack) - 1 : stack'[i] = stack[i]
        /\ Last(stack) = Top
        /\ Cardinality(Opened(stack)) = Cardinality(Opened(stack')) + (IF Last(stack).kind = "groupe" THEN 1 ELSE 0)
        /\ Cardinality(Opened(stack')) \in Nat
    BY <1>2, Popped DEF Top
  <1>6. stack' \in Seq(Frames')
    BY <1>1, <1>5, TypesGrow
  <1> DEFINE n == Len(stack')
  <1>7. /\ n \in Nat /\ n > 0 /\ n <= Len(stack) /\ n <= Len(stack')
        /\ \A i \in 1 .. n : stack'[i] = stack[i]
        /\ \A i \in n + 1 .. Len(stack') : FALSE
        /\ \A i \in n .. Len(stack') - 1 : FALSE
    <2>1. n = Len(stack) - 1 /\ n \in Nat \ {0}
      BY <1>4, <1>5
    <2> HIDE DEF n
    <2>2. \A i \in 1 .. n : stack'[i] = stack[i]
      BY <1>5, <2>1
    <2>3. Len(stack') = n
      BY DEF n
    <2> QED
      BY <1>3, <2>1, <2>2, <2>3
  <1> HIDE DEF n
  <1>8. StackInv' /\ TestsInv' /\ QuietInv'
    BY <1>4, <1>6, <1>7, FramesKept
  <1>9. Cardinality(Opened(stack')) = IF Top.kind = "groupe" THEN Len(groups) - 1 ELSE Len(groups)
    BY <1>2, <1>5
  <1>10. ASSUME ~IsTest(Top) \/ Top.passed
         PROVE  FailedTest(stack') <=> FailedTest(stack)
    <2>1. \A i \in Len(stack') + 1 .. Len(stack) : i = Len(stack)
      BY <1>3, <1>4, <1>5
    <2>2. FailedAbove(Len(stack'), stack') <=> FailedAbove(Len(stack'), stack)
      BY <1>3, <1>7, <1>10, <2>1 DEF FailedAbove
    <2>3. /\ Len(stack') \in Nat /\ Len(stack') <= Len(stack) /\ Len(stack') <= Len(stack')
          /\ \A i \in 1 .. Len(stack') : stack'[i] = stack[i]
      BY <1>4, <1>5
    <2> QED
      BY <1>2, <1>5, <2>2, <2>3, FailedKept
  <1> QED
    BY <1>4, <1>5, <1>6, <1>8, <1>9, <1>10

\* The frame on top has moved on to f.
LEMMA GoesKept ==
    ASSUME IInv, stack # <<>>, NEW f \in Frames', IsTest(Top), IsTest(f),
           stack' = Append(Front(stack), f),
           SameHooks(groups, groups'), MoreSettled(hooks, hooks'), Len(hooks') \in Nat, Len(hooks) <= Len(hooks'),
           TestOK(groups', hooks', f), raising' \/ LastSettled(groups', hooks', f)
    PROVE  /\ stack' \in Seq(Frames') /\ stack' # <<>>
           /\ StackInv' /\ TestsInv' /\ QuietInv' /\ SettledInv'
           /\ Cardinality(Opened(stack')) = Len(groups)
           /\ f.passed = Top.passed => (FailedTest(stack') <=> FailedTest(stack))
           /\ ~f.passed => FailedTest(stack')
PROOF
  <1>1. TypeOK /\ StackInv
    BY DEF IInv
  <1>2. /\ stack \in Seq(Frames) /\ stack \in Seq(Frames') /\ Len(groups) = Cardinality(Opened(stack))
        /\ Len(groups) \in Nat
    BY <1>1, GroupsFields, TypesGrow DEF TypeOK, Opened
  <1>3. /\ Top = stack[Len(stack)] /\ Len(stack) \in Nat /\ ~IsFile(Top) /\ Last(stack) = Top
    BY <1>1, TopFields DEF IsFile, IsTest, Top
  <1>4. PICK n \in Nat \ {0} : Len(stack) = n + 1 /\ n \in DOMAIN stack /\ Calling(groups, stack[n], Top)
    <2>1. (Len(stack) - 1) + 1 = Len(stack)
      BY <1>3
    <2> QED
      BY <1>3, <2>1, Below
  <1>5. /\ stack' \in Seq(Frames') /\ Len(stack') = Len(stack) /\ stack' # <<>>
        /\ \A i \in 1 .. Len(stack) - 1 : stack'[i] = stack[i]
        /\ stack'[Len(stack)] = f /\ Last(stack') = f
        /\ Cardinality(Opened(stack')) = Cardinality(Opened(Front(stack))) + (IF f.kind = "groupe" THEN 1 ELSE 0)
    BY <1>2, Gone
  <1>6. /\ Cardinality(Opened(stack)) = Cardinality(Opened(Front(stack))) + (IF Last(stack).kind = "groupe" THEN 1 ELSE 0)
        /\ Cardinality(Opened(Front(stack))) \in Nat
    BY <1>2, Popped
  <1>7. Cardinality(Opened(stack')) = Len(groups)
    BY <1>2, <1>3, <1>5, <1>6 DEF IsTest
  <1>8. /\ n <= Len(stack) /\ n <= Len(stack') /\ \A i \in 1 .. n : stack'[i] = stack[i]
        /\ \A i \in n + 1 .. Len(stack') : i = n + 1
        /\ \A i \in n .. Len(stack') - 1 : i = n
        /\ stack'[n] = stack[n] /\ stack'[n + 1] = f /\ stack[n + 1] = Top
    <2>1. Len(stack') = n + 1 /\ stack'[n + 1] = f /\ stack[n + 1] = Top
      BY <1>3, <1>4, <1>5
    <2>2. \A i \in 1 .. n : i \in 1 .. Len(stack) - 1
      BY <1>4
    <2> QED
      BY <1>4, <1>5, <2>1, <2>2
  <1>9. Calling(groups', stack[n], f)
    BY <1>4 DEF Calling, IsTest
  <1>10. ~IsFile(f) /\ f.kind # "groupe" /\ Admitted(groups', f)
    BY DEF IsTest, IsFile, Admitted
  <1>11. StackInv' /\ TestsInv' /\ QuietInv'
    <2>1. /\ \A i \in n + 1 .. Len(stack') :
               /\ ~IsFile(stack'[i])
               /\ stack'[i].kind = "groupe" => \A j \in 1 .. i - 1 : ~IsHook(stack'[j])
               /\ IsTest(stack'[i]) => TestOK(groups', hooks', stack'[i])
               /\ Admitted(groups', stack'[i])
          /\ \A i \in n .. Len(stack') - 1 : i > 0 => Calling(groups', stack'[i], stack'[i + 1])
      BY <1>8, <1>9, <1>10
    <2>2. n \in Nat /\ (n > 0 \/ stack' = <<>>) /\ (raising' => stack' # <<>>)
      BY <1>4, <1>5
    <2> QED
      BY <1>5, <1>8, <2>1, <2>2, FramesKept
  <1>12. SettledInv'
    BY <1>5 DEF SettledInv, Top
  <1>13. ASSUME f.passed = Top.passed
         PROVE  FailedTest(stack') <=> FailedTest(stack)
    <2>1. FailedAbove(n, stack') <=> ~f.passed
      BY <1>4, <1>5, <1>8 DEF FailedAbove
    <2>2. FailedAbove(n, stack) <=> ~Top.passed
      BY <1>4, <1>5, <1>8 DEF FailedAbove
    <2> QED
      BY <1>2, <1>4, <1>5, <1>8, <1>13, <2>1, <2>2, FailedKept
  <1>14. ~f.passed => FailedTest(stack')
    BY <1>4, <1>5, <1>8, LenProperties DEF FailedTest
  <1> QED
    BY <1>5, <1>7, <1>11, <1>12, <1>13, <1>14

\* The native on top has moved on to f and called c.
LEMMA CallKept ==
    ASSUME IInv, stack # <<>>, Top.kind \in {"groupe", "test"},
           NEW f \in Frames', NEW c \in Frames', f.kind = Top.kind, c.kind = "code", ~IsFile(c),
           stack' = Append(Append(Front(stack), f), c),
           SameHooks(groups, groups'), MoreSettled(hooks, hooks'), Len(hooks') \in Nat, Len(hooks) <= Len(hooks'),
           IsTest(f) => TestOK(groups', hooks', f) /\ f.passed = Top.passed,
           Admitted(groups', c), Calling(groups', f, c)
    PROVE  /\ stack' \in Seq(Frames') /\ stack' # <<>>
           /\ StackInv' /\ TestsInv' /\ QuietInv' /\ SettledInv'
           /\ Cardinality(Opened(stack')) = Len(groups)
           /\ FailedTest(stack') <=> FailedTest(stack)
PROOF
  <1> DEFINE u == Append(Front(stack), f)
  <1>1. TypeOK /\ StackInv
    BY DEF IInv
  <1>2. /\ stack \in Seq(Frames) /\ stack \in Seq(Frames') /\ Len(groups) = Cardinality(Opened(stack))
        /\ Len(groups) \in Nat
    BY <1>1, GroupsFields, TypesGrow DEF TypeOK, Opened
  <1>3. /\ Top = stack[Len(stack)] /\ Len(stack) \in Nat /\ ~IsFile(Top) /\ Last(stack) = Top
    BY <1>1, TopFields DEF IsFile, Top
  <1>4. PICK n \in Nat \ {0} : Len(stack) = n + 1 /\ n \in DOMAIN stack /\ Calling(groups, stack[n], Top)
    <2>1. (Len(stack) - 1) + 1 = Len(stack)
      BY <1>3
    <2> QED
      BY <1>3, <2>1, Below
  <1>5. /\ u \in Seq(Frames') /\ Len(u) = Len(stack)
        /\ \A i \in 1 .. Len(stack) - 1 : u[i] = stack[i]
        /\ u[Len(stack)] = f
        /\ Cardinality(Opened(u)) = Cardinality(Opened(Front(stack))) + (IF f.kind = "groupe" THEN 1 ELSE 0)
    BY <1>2, Gone
  <1>6. /\ Cardinality(Opened(stack)) = Cardinality(Opened(Front(stack))) + (IF Last(stack).kind = "groupe" THEN 1 ELSE 0)
        /\ Cardinality(Opened(Front(stack))) \in Nat
    BY <1>2, Popped
  <1>7. Cardinality(Opened(u)) = Len(groups)
    BY <1>2, <1>3, <1>5, <1>6
  <1>8. /\ stack' \in Seq(Frames') /\ Len(stack') = Len(u) + 1 /\ stack' # <<>>
        /\ \A i \in 1 .. Len(u) : stack'[i] = u[i]
        /\ stack'[Len(u) + 1] = c /\ Last(stack') = c
        /\ Cardinality(Opened(stack')) = Cardinality(Opened(u)) + (IF c.kind = "groupe" THEN 1 ELSE 0)
    <2> HIDE DEF u
    <2>1. stack' = Append(u, c)
      BY DEF u
    <2> QED
      BY <1>5, <2>1, Pushed
  <1> HIDE DEF u
  <1>9. Cardinality(Opened(stack')) = Len(groups)
    BY <1>2, <1>7, <1>8
  <1>10. /\ n <= Len(stack) /\ n <= Len(stack') /\ Len(stack') = n + 2 /\ \A i \in 1 .. n : stack'[i] = stack[i]
         /\ \A i \in n + 1 .. Len(stack') : i = n + 1 \/ i = n + 2
         /\ \A i \in n .. Len(stack') - 1 : i = n \/ i = n + 1
         /\ stack'[n] = stack[n] /\ stack'[n + 1] = f /\ stack'[n + 2] = c /\ stack[n + 1] = Top
         /\ \A j \in 1 .. (n + 1) - 1 : j \in 1 .. n
    <2>1. Len(u) = n + 1 /\ Len(stack') = n + 2 /\ u[n + 1] = f /\ stack[n + 1] = Top
      BY <1>3, <1>4, <1>5, <1>8
    <2>2. \A i \in 1 .. n : i \in 1 .. Len(stack) - 1 /\ i \in 1 .. Len(u)
      BY <1>4, <2>1
    <2>3. \A i \in 1 .. n : stack'[i] = stack[i]
      BY <1>5, <1>8, <2>2
    <2>4. stack'[n + 1] = f
      <3>1. n + 1 \in 1 .. Len(u)
        BY <1>4, <2>1
      <3> QED
        BY <1>8, <2>1, <3>1
    <2>5. stack'[n + 2] = c
      <3>1. Len(u) + 1 = n + 2
        BY <1>4, <2>1
      <3> QED
        BY <1>8, <3>1
    <2> QED
      BY <1>4, <2>1, <2>3, <2>4, <2>5
  <1>11. Calling(groups', stack[n], f)
    BY <1>4 DEF Calling, IsTest
  <1>12. ASSUME f.kind = "groupe", NEW j \in 1 .. (n + 1) - 1
         PROVE  ~IsHook(stack'[j])
    <2>1. j \in 1 .. n /\ j \in DOMAIN stack /\ j < Len(stack) /\ Len(stack) \in DOMAIN stack
      <3>1. j \in 1 .. n
        BY <1>10, <1>12
      <3>2. DOMAIN stack = 1 .. Len(stack) /\ Len(stack) \in DOMAIN stack
        BY <1>1, TopFields
      <3> QED
        BY <1>4, <3>1, <3>2
    <2>2. ~IsHook(stack[j])
      BY <1>1, <1>3, <1>12, <2>1 DEF StackInv, StackOK
    <2> QED
      BY <1>10, <2>1, <2>2
  <1>13. ~IsFile(f) /\ Admitted(groups', f) /\ ~IsTest(c)
    BY DEF IsTest, IsFile, Admitted
  <1>14. ASSUME NEW i \in n + 1 .. Len(stack')
         PROVE  /\ ~IsFile(stack'[i])
                /\ stack'[i].kind = "groupe" => \A j \in 1 .. i - 1 : ~IsHook(stack'[j])
                /\ IsTest(stack'[i]) => TestOK(groups', hooks', stack'[i])
                /\ Admitted(groups', stack'[i])
    <2>1. CASE i = n + 1
      BY <1>10, <1>12, <1>13, <2>1
    <2>2. CASE i = n + 2
      BY <1>10, <1>13, <2>2
    <2> QED
      BY <1>10, <2>1, <2>2
  <1>15. ASSUME NEW i \in n .. Len(stack') - 1
         PROVE  Calling(groups', stack'[i], stack'[i + 1])
    <2>1. CASE i = n
      BY <1>10, <1>11, <2>1
    <2>2. CASE i = n + 1
      <3>1. i + 1 = n + 2
        BY <1>4, <2>2
      <3> QED
        BY <1>10, <2>2, <3>1
    <2> QED
      BY <1>10, <2>1, <2>2
  <1>16. StackInv' /\ TestsInv' /\ QuietInv'
    <2>1. n \in Nat /\ (n > 0 \/ stack' = <<>>) /\ (raising' => stack' # <<>>)
      BY <1>4, <1>8
    <2>2. \A i \in n .. Len(stack') - 1 : i > 0 => Calling(groups', stack'[i], stack'[i + 1])
      BY <1>15
    <2> QED
      BY <1>8, <1>10, <1>14, <2>1, <2>2, FramesKept
  <1>17. SettledInv'
    BY <1>8, <1>13 DEF SettledInv, Top
  <1>18. FailedTest(stack') <=> FailedTest(stack)
    <2>1. FailedAbove(n, stack') <=> FailedAbove(n, stack)
      <3>1. FailedAbove(n, stack') <=> IsTest(f) /\ ~f.passed
        BY <1>4, <1>10, <1>13 DEF FailedAbove
      <3>2. FailedAbove(n, stack) <=> IsTest(Top) /\ ~Top.passed
        BY <1>4, <1>10 DEF FailedAbove
      <3>3. IsTest(f) <=> IsTest(Top)
        BY DEF IsTest
      <3> QED
        BY <3>1, <3>2, <3>3
    <2> QED
      BY <1>2, <1>4, <1>8, <1>10, <2>1, FailedKept
  <1> QED
    BY <1>8, <1>9, <1>16, <1>17, <1>18

\* A function has called the native f, and f the function c.
LEMMA EnterKept ==
    ASSUME IInv, stack # <<>>, Top.kind = "code",
           NEW f \in Frames', NEW c \in Frames', f.kind \in {"groupe", "lance"},
           c.kind = "code", ~IsFile(c), ~IsHook(c), f.kind = "groupe" => Calm(stack),
           stack' = Append(Append(stack, f), c), Len(hooks') \in Nat, Len(hooks) <= Len(hooks'),
           (SameHooks(groups, groups') /\ MoreSettled(hooks, hooks')) \/ Calm(stack),
           Calling(groups', f, c)
    PROVE  /\ stack' \in Seq(Frames') /\ stack' # <<>>
           /\ StackInv' /\ TestsInv' /\ QuietInv' /\ SettledInv'
           /\ Cardinality(Opened(stack')) = IF f.kind = "groupe" THEN Len(groups) + 1 ELSE Len(groups)
           /\ FailedTest(stack') <=> FailedTest(stack)
PROOF
  <1> DEFINE u == Append(stack, f)
  <1>1. TypeOK /\ StackInv
    BY DEF IInv
  <1>2. /\ stack \in Seq(Frames) /\ stack \in Seq(Frames') /\ Len(groups) = Cardinality(Opened(stack))
        /\ Len(groups) \in Nat
    BY <1>1, GroupsFields, TypesGrow DEF TypeOK, Opened
  <1>3. PICK n \in Nat \ {0} : n = Len(stack) /\ stack[n] = Top /\ DOMAIN stack = 1 .. n
    BY <1>1, TopFields
  <1>4. /\ u \in Seq(Frames') /\ Len(u) = n + 1
        /\ \A i \in 1 .. n : u[i] = stack[i]
        /\ u[n + 1] = f
        /\ Cardinality(Opened(u)) = Cardinality(Opened(stack)) + (IF f.kind = "groupe" THEN 1 ELSE 0)
    BY <1>2, <1>3, Pushed
  <1>5. /\ stack' \in Seq(Frames') /\ Len(stack') = n + 2 /\ stack' # <<>>
        /\ \A i \in 1 .. n + 1 : stack'[i] = u[i]
        /\ stack'[n + 2] = c /\ Last(stack') = c
        /\ Cardinality(Opened(stack')) = Cardinality(Opened(u)) + (IF c.kind = "groupe" THEN 1 ELSE 0)
    <2> HIDE DEF u
    <2>1. stack' = Append(u, c)
      BY DEF u
    <2>2. /\ stack' \in Seq(Frames') /\ Len(stack') = Len(u) + 1 /\ stack' # <<>>
          /\ \A i \in 1 .. Len(u) : stack'[i] = u[i]
          /\ stack'[Len(u) + 1] = c /\ Last(stack') = c
          /\ Cardinality(Opened(stack')) = Cardinality(Opened(u)) + (IF c.kind = "groupe" THEN 1 ELSE 0)
      BY <1>4, <2>1, Pushed
    <2>3. Len(u) + 1 = n + 2
      BY <1>3, <1>4
    <2> QED
      BY <1>4, <2>2, <2>3
  <1> HIDE DEF u
  <1>6. Cardinality(Opened(stack')) = IF f.kind = "groupe" THEN Len(groups) + 1 ELSE Len(groups)
    BY <1>2, <1>4, <1>5
  <1>7. /\ n <= Len(stack) /\ n <= Len(stack') /\ \A i \in 1 .. n : stack'[i] = stack[i]
        /\ \A i \in n + 1 .. Len(stack') : i = n + 1 \/ i = n + 2
        /\ \A i \in n .. Len(stack') - 1 : i = n \/ i = n + 1
        /\ stack'[n] = Top /\ stack'[n + 1] = f /\ stack'[n + 2] = c
        /\ \A j \in 1 .. (n + 1) - 1 : j \in 1 .. n
    <2>1. n + 1 \in 1 .. n + 1 /\ \A i \in 1 .. n : i \in 1 .. n + 1
      BY <1>3
    <2> QED
      BY <1>3, <1>4, <1>5, <2>1
  <1>8. Calling(groups', Top, f)
    BY DEF Calling, IsTest
  <1>9. ~IsFile(f) /\ ~IsTest(f) /\ ~IsTest(c) /\ Admitted(groups', f) /\ Admitted(groups', c)
    BY DEF IsTest, IsFile, IsHook, Kinds, Admitted
  <1>10. ASSUME f.kind = "groupe", NEW j \in 1 .. (n + 1) - 1
         PROVE  ~IsHook(stack'[j])
    BY <1>3, <1>7, <1>10 DEF Calm
  <1>11. ASSUME NEW i \in n + 1 .. Len(stack')
         PROVE  /\ ~IsFile(stack'[i])
                /\ stack'[i].kind = "groupe" => \A j \in 1 .. i - 1 : ~IsHook(stack'[j])
                /\ IsTest(stack'[i]) => TestOK(groups', hooks', stack'[i])
                /\ Admitted(groups', stack'[i])
    <2>1. CASE i = n + 1
      BY <1>7, <1>9, <1>10, <2>1
    <2>2. CASE i = n + 2
      BY <1>7, <1>9, <2>2
    <2> QED
      BY <1>7, <2>1, <2>2
  <1>12. ASSUME NEW i \in n .. Len(stack') - 1
         PROVE  Calling(groups', stack'[i], stack'[i + 1])
    <2>1. CASE i = n
      BY <1>7, <1>8, <2>1
    <2>2. CASE i = n + 1
      <3>1. i + 1 = n + 2
        BY <1>3, <2>2
      <3> QED
        BY <1>7, <2>2, <3>1
    <2> QED
      BY <1>7, <2>1, <2>2
  <1>13. StackInv' /\ TestsInv' /\ QuietInv'
    <2>1. n \in Nat /\ (n > 0 \/ stack' = <<>>) /\ (raising' => stack' # <<>>)
      BY <1>3, <1>5
    <2>2. \A i \in n .. Len(stack') - 1 : i > 0 => Calling(groups', stack'[i], stack'[i + 1])
      BY <1>12
    <2> QED
      BY <1>5, <1>7, <1>11, <2>1, <2>2, FramesKept
  <1>14. SettledInv'
    BY <1>5, <1>9 DEF SettledInv, Top
  <1>15. FailedTest(stack') <=> FailedTest(stack)
    <2>1. ~FailedAbove(n, stack')
      BY <1>3, <1>7, <1>9 DEF FailedAbove
    <2>2. ~FailedAbove(n, stack)
      BY <1>3 DEF FailedAbove
    <2> QED
      BY <1>2, <1>3, <1>5, <1>7, <2>1, <2>2, FailedKept
  <1> QED
    BY <1>5, <1>6, <1>13, <1>14, <1>15

-----------------------------------------------------------------------------
(* What a program does. *)

\* A check that fails, or anything else that raises, keeps the invariant.
LEMMA FailStep ==
    ASSUME IInv, Fail
    PROVE  IInv'
PROOF
  <1>1. /\ stack # <<>> /\ raising' = TRUE
        /\ UNCHANGED <<stack, groups, abort, summary, hooks, opened, file, aggregate, status, stop, struck>>
    BY DEF Fail, Running, testVars, fileVars
  <1>2. TypeOK'
    BY <1>1, SameTypes DEF IInv, TypeOK
  <1>3. StackInv' /\ GroupsInv' /\ TestsInv' /\ SettledInv' /\ QuietInv'
    BY <1>1 DEF IInv, StackInv, StackOK, GroupsInv, TestsInv, SettledInv, QuietInv
  <1>4. OutcomeInv'
    BY <1>1 DEF IInv, OutcomeInv, Counted
  <1> QED
    BY <1>2, <1>3, <1>4 DEF IInv

\* An error that leaves a function, or that vérifier_lance catches, keeps the
\* invariant.
LEMMA UnwindStep ==
    ASSUME IInv, Unwind
    PROVE  IInv'
PROOF
  <1>1. /\ raising /\ stack # <<>> /\ Top.kind \in {"code", "lance"} /\ ~IsFile(Top)
        /\ stack' = Front(stack) /\ raising' = (Top.kind # "lance")
        /\ UNCHANGED <<groups, abort, summary, hooks, opened, file, aggregate, status, stop, struck>>
    BY DEF Unwind, IsFile, testVars, fileVars
  <1>2. TypeOK /\ OutcomeInv /\ GroupsInv
    BY DEF IInv
  <1>3. SameHooks(groups, groups') /\ MoreSettled(hooks, hooks') /\ Len(hooks') \in Nat /\ Len(hooks) <= Len(hooks')
    BY <1>1, <1>2, SameGroups, GroupsFields
  <1>4. /\ stack' \in Seq(Frames') /\ stack' # <<>> /\ StackInv' /\ TestsInv' /\ QuietInv'
        /\ Cardinality(Opened(stack')) = IF Top.kind = "groupe" THEN Len(groups) - 1 ELSE Len(groups)
        /\ ~IsTest(Top) => (FailedTest(stack') <=> FailedTest(stack))
        /\ Calling(groups, Last(stack'), Top)
    BY <1>1, <1>3, PopKept
  <1>5. TypeOK'
    <2>1. Len(groups') = Cardinality(Opened(stack'))
      BY <1>1, <1>4
    <2> QED
      BY <1>1, <1>2, <1>4, <2>1, SameTypes DEF TypeOK, Opened
  <1>6. GroupsInv'
    BY <1>1, <1>2, <1>3, GroupsKept
  <1>7. SettledInv'
    BY <1>1, <1>4 DEF SettledInv, Top, Calling, IsTest
  <1>8. OutcomeInv'
    BY <1>1, <1>2, <1>4, OutcomeKept DEF IsTest
  <1> QED
    BY <1>4, <1>5, <1>6, <1>7, <1>8 DEF IInv

\* One hook has completed once more, or none.
LEMMA HookCompletes ==
    ASSUME TypeOK, NEW h \in 0 .. Len(hooks),
           hooks' = IF h = 0 THEN hooks ELSE [hooks EXCEPT ![h].done = @ + 1]
    PROVE  /\ hooks' \in Seq([late : BOOLEAN, done : Nat]) /\ Len(hooks') = Len(hooks) /\ Len(hooks') \in Nat
           /\ MoreSettled(hooks, hooks')
           /\ h # 0 => Settled(hooks', h)
PROOF
  <1>1. /\ hooks \in Seq([late : BOOLEAN, done : Nat]) /\ DOMAIN hooks = 1 .. Len(hooks) /\ Len(hooks) \in Nat
        /\ \A k \in 1 .. Len(hooks) : hooks[k] \in [late : BOOLEAN, done : Nat]
    BY LenProperties, ElementOfSeq DEF TypeOK
  <1>2. CASE h = 0
    BY <1>1, <1>2 DEF MoreSettled
  <1>3. CASE h # 0
    <2>1. hooks' = [hooks EXCEPT ![h] = [hooks[h] EXCEPT !.done = @ + 1]]
      BY <1>3
    <2>2. [hooks[h] EXCEPT !.done = @ + 1] \in [late : BOOLEAN, done : Nat]
      <3>1. hooks[h] \in [late : BOOLEAN, done : Nat]
        BY <1>1, <1>3
      <3>2. \A r \in [late : BOOLEAN, done : Nat] : [r EXCEPT !.done = @ + 1] \in [late : BOOLEAN, done : Nat]
        OBVIOUS
      <3> QED
        BY <3>1, <3>2
    <2>3. hooks' \in Seq([late : BOOLEAN, done : Nat]) /\ Len(hooks') = Len(hooks)
      BY <1>1, <1>3, <2>1, <2>2, ExceptSeq
    <2>4. /\ \A k \in 1 .. Len(hooks) : k # h => hooks'[k] = hooks[k]
          /\ hooks'[h].done > 0
      BY <1>1, <1>3, <2>1
    <2> QED
      BY <1>1, <1>3, <2>3, <2>4 DEF MoreSettled, Settled
  <1> QED
    BY <1>2, <1>3

\* A function that returns keeps the invariant: a hook that does has
\* completed.
LEMMA ReturnStep ==
    ASSUME IInv, Return
    PROVE  IInv'
PROOF
  <1> DEFINE h == Top.hook
  <1>1. /\ ~raising /\ stack # <<>> /\ Top.kind = "code" /\ ~IsFile(Top)
        /\ hooks' = IF h = 0 THEN hooks ELSE [hooks EXCEPT ![h].done = @ + 1]
        /\ UNCHANGED <<groups, abort, summary, opened, file, aggregate, status, stop, struck>>
        /\ IF Top.of = "lance" THEN stack' = Front(Front(stack)) /\ raising' = TRUE
           ELSE stack' = Front(stack) /\ UNCHANGED raising
    BY DEF Return, Running, IsFile, fileVars
  <1>2. TypeOK /\ OutcomeInv /\ GroupsInv /\ StackInv
    BY DEF IInv
  <1>3. h \in 0 .. Len(hooks)
    BY <1>1, <1>2, TopFields, FrameFields
  <1>4. /\ hooks' \in Seq([late : BOOLEAN, done : Nat]) /\ Len(hooks') = Len(hooks) /\ Len(hooks') \in Nat
        /\ MoreSettled(hooks, hooks') /\ SameHooks(groups, groups') /\ (h # 0 => Settled(hooks', h))
    <2> HIDE DEF h
    <2> QED
      BY <1>1, <1>2, <1>3, HookCompletes, SameGroups
  <1> HIDE DEF h
  <1>5. Len(hooks) <= Len(hooks') /\ Seq(Groups) \subseteq Seq(Groups')
    BY <1>2, <1>4, TypesGrow
  <1>6. GroupsInv'
    BY <1>1, <1>2, <1>4, GroupsKept
  <1>7. CASE Top.of # "lance"
    <2>1. /\ stack' \in Seq(Frames') /\ stack' # <<>> /\ StackInv' /\ TestsInv' /\ QuietInv'
          /\ Cardinality(Opened(stack')) = Len(groups)
          /\ FailedTest(stack') <=> FailedTest(stack)
          /\ Last(stack') \in Frames /\ Calling(groups, Last(stack'), Top)
      BY <1>1, <1>4, <1>5, <1>7, PopKept DEF IsTest
    <2>2. TypeOK'
      BY <1>1, <1>2, <1>4, <1>5, <1>7, <2>1 DEF TypeOK, Opened
    <2>3. ASSUME IsTest(Last(stack')), Last(stack').at = "before_all"
          PROVE  LastSettled(groups', hooks', Last(stack'))
      <3>1. /\ h = groups[Last(stack').group].hooks["before_all"][Last(stack').hook - 1]
            /\ Last(stack').group \in DOMAIN groups
            /\ Last(stack').hook - 1 \in DOMAIN groups[Last(stack').group].hooks["before_all"]
        BY <2>1, <2>3 DEF Calling, h
      <3>2. h # 0
        <4> DEFINE g == Last(stack').group
                   k == Last(stack').hook - 1
        <4>1. g \in DOMAIN groups /\ k \in DOMAIN groups[g].hooks["before_all"]
          BY <3>1
        <4>2. h = groups[g].hooks["before_all"][k]
          BY <3>1
        <4> HIDE DEF g, k, h
        <4>3. groups[g].hooks["before_all"][k] \in 1 .. Len(hooks)
          BY <1>2, <4>1, GroupsFields DEF Kinds
        <4>4. Len(hooks) \in Nat
          BY <1>2, GroupsFields
        <4> QED
          BY <4>2, <4>3, <4>4
      <3> QED
        BY <1>1, <1>4, <3>1, <3>2 DEF LastSettled
    <2>4. SettledInv'
      BY <2>3 DEF SettledInv, Top, LastSettled
    <2>5. OutcomeInv'
      BY <1>1, <1>2, <2>1, OutcomeKept
    <2> QED
      BY <1>6, <2>1, <2>2, <2>4, <2>5 DEF IInv
  <1>8. CASE Top.of = "lance"
    <2> DEFINE n == Len(stack) - 2
    <2>1. /\ stack \in Seq(Frames) /\ Top = stack[Len(stack)] /\ stack[Len(stack) - 1].kind = "lance"
          /\ Len(stack) - 1 \in Nat \ {0} /\ stack[1] = Code("file") /\ Front(stack) # <<>>
          /\ Last(Front(stack)) = stack[Len(stack) - 1] /\ Len(stack) \in Nat
      <3>1. /\ stack \in Seq(Frames) /\ Top = stack[Len(stack)] /\ stack[1] = Code("file") /\ Len(stack) \in Nat
        BY <1>1, <1>2, TopFields DEF TypeOK, StackInv, StackOK
      <3>2. /\ Calling(groups, stack[Len(stack) - 1], Top) /\ Len(stack) - 1 \in Nat \ {0}
            /\ Front(stack) # <<>> /\ Last(Front(stack)) = stack[Len(stack) - 1]
        BY <1>1, Below
      <3>3. stack[Len(stack) - 1].kind = "lance"
        BY <1>1, <1>8, <3>2 DEF Calling
      <3> QED
        BY <3>1, <3>2, <3>3
    <2>12. /\ Front(stack) \in Seq(Frames) /\ Len(Front(stack)) = Len(stack) - 1
           /\ \A i \in 1 .. Len(stack) - 1 : Front(stack)[i] = stack[i]
           /\ Cardinality(Opened(stack)) = Cardinality(Opened(Front(stack)))
      <3>1. /\ Front(stack) \in Seq(Frames) /\ Len(Front(stack)) = Len(stack) - 1
            /\ \A i \in 1 .. Len(stack) - 1 : Front(stack)[i] = stack[i]
            /\ Cardinality(Opened(stack))
                 = Cardinality(Opened(Front(stack))) + (IF Last(stack).kind = "groupe" THEN 1 ELSE 0)
            /\ Cardinality(Opened(Front(stack))) \in Nat
        BY <1>1, <2>1, Popped
      <3> QED
        BY <1>1, <3>1 DEF Top
    <2>2. n \in Nat \ {0} /\ n <= Len(stack)
      <3>1. stack[1].kind = "code"
        BY <2>1 DEF Code
      <3>2. Len(stack) - 1 # 1
        BY <2>1, <3>1
      <3>3. \A l \in Nat : l - 1 \in Nat \ {0} /\ l - 1 # 1 => l - 2 \in Nat \ {0} /\ l - 2 <= l
        OBVIOUS
      <3>4. Len(stack) \in Nat /\ Len(stack) - 1 \in Nat \ {0}
        BY <2>1
      <3> QED
        BY <3>2, <3>3, <3>4
    <2>3. /\ stack' \in Seq(Frames) /\ Len(stack') = n
          /\ \A i \in 1 .. n : stack'[i] = stack[i]
          /\ Cardinality(Opened(stack')) = Cardinality(Opened(Front(stack)))
      <3> DEFINE u == Front(stack)
      <3>1. u \in Seq(Frames) /\ u # <<>> /\ Len(u) = n + 1 /\ Last(u).kind = "lance" /\ stack' = Front(u)
        BY <1>1, <1>8, <2>1, <2>12
      <3>2. \A i \in 1 .. n : u[i] = stack[i]
        BY <2>1, <2>12, <2>2
      <3> HIDE DEF u, n
      <3>3. /\ Front(u) \in Seq(Frames) /\ Len(Front(u)) = Len(u) - 1
            /\ \A i \in 1 .. Len(u) - 1 : Front(u)[i] = u[i]
            /\ Cardinality(Opened(u)) = Cardinality(Opened(Front(u))) + (IF Last(u).kind = "groupe" THEN 1 ELSE 0)
            /\ Cardinality(Opened(Front(u))) \in Nat
        BY <3>1, Popped
      <3>4. Len(u) - 1 = n
        BY <2>2, <3>1
      <3>5. Cardinality(Opened(stack')) = Cardinality(Opened(u))
        BY <3>1, <3>3
      <3> QED
        BY <3>1, <3>2, <3>3, <3>4, <3>5 DEF u
    <2>4. stack' # <<>> /\ stack' \in Seq(Frames')
      BY <1>2, <1>4, <1>5, <2>2, <2>3, TypesGrow, EmptySeq
    <2>5. /\ \A i \in n + 1 .. Len(stack') : FALSE
          /\ \A i \in n .. Len(stack') - 1 : FALSE
      BY <2>2, <2>3
    <2>6. \A i \in n + 1 .. Len(stack) : i = Len(stack) \/ i = Len(stack) - 1
      BY <2>1
    <2> HIDE DEF n
    <2>7. StackInv' /\ TestsInv' /\ QuietInv'
      BY <1>4, <2>2, <2>3, <2>4, <2>5, FramesKept
    <2>8. FailedAbove(n, stack') <=> FailedAbove(n, stack)
      BY <1>1, <2>1, <2>5, <2>6 DEF FailedAbove, IsTest
    <2>13. FailedTest(stack') <=> FailedTest(stack)
      <3>1. stack \in Seq(Frames) /\ stack' \in Seq(Frames) /\ n \in Nat /\ n <= Len(stack) /\ n <= Len(stack')
        BY <1>1, <1>2, <2>1, <2>2, <2>3
      <3>2. \A i \in 1 .. n : stack'[i] = stack[i]
        BY <2>3
      <3> QED
        BY <2>8, <3>1, <3>2, FailedKept
    <2>9. OutcomeInv'
      BY <1>1, <1>2, <2>4, <2>13, OutcomeKept
    <2>10. TypeOK'
      BY <1>1, <1>2, <1>4, <1>5, <1>8, <2>12, <2>3, <2>4 DEF TypeOK, Opened
    <2>11. SettledInv'
      BY <1>1, <1>8 DEF SettledInv
    <2> QED
      BY <1>6, <2>7, <2>9, <2>10, <2>11 DEF IInv
  <1> QED
    BY <1>7, <1>8

\* Calling vérifier_lance keeps the invariant.
LEMMA VerifierLanceStep ==
    ASSUME IInv, VerifierLance
    PROVE  IInv'
PROOF
  <1>1. /\ stack # <<>> /\ Top.kind = "code"
        /\ stack' = Append(Append(stack, Lance), Code("lance"))
        /\ UNCHANGED <<raising, groups, abort, summary, hooks, opened, file, aggregate, status, stop, struck>>
    BY DEF VerifierLance, Running, testVars, fileVars
  <1>2. TypeOK /\ OutcomeInv /\ GroupsInv
    BY DEF IInv
  <1>3. /\ SameHooks(groups, groups') /\ MoreSettled(hooks, hooks') /\ Len(hooks') \in Nat
        /\ Len(hooks) <= Len(hooks') /\ Frames' = Frames /\ Groups' = Groups
    BY <1>1, <1>2, SameGroups, SameTypes, GroupsFields
  <1>4. /\ Lance \in Frames' /\ Code("lance") \in Frames' /\ Lance.kind = "lance"
        /\ Code("lance").kind = "code" /\ ~IsFile(Code("lance")) /\ ~IsHook(Code("lance"))
        /\ Calling(groups', Lance, Code("lance"))
    BY <1>3 DEF Lance, Code, Frames, IsFile, IsHook, Kinds, Calling, IsTest
  <1>5. /\ stack' \in Seq(Frames') /\ stack' # <<>>
        /\ StackInv' /\ TestsInv' /\ QuietInv' /\ SettledInv'
        /\ Cardinality(Opened(stack')) = Len(groups)
        /\ FailedTest(stack') <=> FailedTest(stack)
    BY <1>1, <1>3, <1>4, EnterKept
  <1>6. TypeOK'
    BY <1>1, <1>2, <1>3, <1>5 DEF TypeOK, Opened
  <1>7. GroupsInv' /\ OutcomeInv'
    BY <1>1, <1>2, <1>3, <1>5, GroupsKept, OutcomeKept
  <1> QED
    BY <1>5, <1>6, <1>7 DEF IInv

\* A group that opens, marked or not by the filter, keeps the invariant.
LEMMA GroupeStep ==
    ASSUME IInv, Groupe
    PROVE  IInv'
PROOF
  <1>1. /\ stack # <<>> /\ Top.kind = "code" /\ ~InHook
        /\ stack' = Append(Append(stack, Group), Code("group"))
        /\ groups' = Append(groups, NewGroup) /\ opened' = opened + 1
        /\ UNCHANGED <<raising, abort, summary, hooks, file, aggregate, status, stop, struck>>
    BY DEF Groupe, Running, fileVars
  <1>2. TypeOK /\ OutcomeInv /\ GroupsInv /\ StackInv
    BY DEF IInv
  <1>3. Calm(stack)
    BY <1>1, <1>2, CalmInside
  <1>4. Len(hooks') \in Nat /\ Len(hooks) <= Len(hooks') /\ Frames' = Frames /\ Groups' = Groups
    BY <1>1, <1>2, SameTypes, GroupsFields
  <1>5. /\ Group \in Frames' /\ Code("group") \in Frames' /\ Group.kind = "groupe"
        /\ Code("group").kind = "code" /\ ~IsFile(Code("group")) /\ ~IsHook(Code("group"))
        /\ Calling(groups', Group, Code("group"))
    BY <1>4 DEF Group, Code, Frames, IsFile, IsHook, Kinds, Calling, IsTest
  <1>6. /\ stack' \in Seq(Frames') /\ stack' # <<>>
        /\ StackInv' /\ TestsInv' /\ QuietInv' /\ SettledInv'
        /\ Cardinality(Opened(stack')) = Len(groups) + 1
        /\ FailedTest(stack') <=> FailedTest(stack)
    BY <1>1, <1>3, <1>4, <1>5, EnterKept
  <1>7. NewGroup \in Groups /\ ~NewGroup.before_all_ran
    <2>1. <<>> \in Seq(1 .. Len(hooks))
      BY EmptySeq
    <2> QED
      BY <2>1 DEF NewGroup, Groups
  <1>8. /\ groups' \in Seq(Groups) /\ Len(groups') = Len(groups) + 1 /\ DOMAIN groups' = 1 .. Len(groups) + 1
        /\ \A g \in 1 .. Len(groups) : groups'[g] = groups[g]
        /\ groups'[Len(groups) + 1] = NewGroup
        /\ DOMAIN groups = 1 .. Len(groups) /\ Len(groups) \in Nat
    <2>1. groups \in Seq(Groups) /\ DOMAIN groups = 1 .. Len(groups) /\ Len(groups) \in Nat
      BY <1>2, GroupsFields DEF TypeOK
    <2> QED
      BY <1>1, <1>7, <2>1, Pushed
  <1>9. TypeOK'
    <2>1. Len(groups') = Cardinality(Opened(stack'))
      BY <1>6, <1>8
    <2>2. opened' \in Nat
      BY <1>1, <1>2 DEF TypeOK
    <2> QED
      BY <1>1, <1>2, <1>4, <1>6, <1>8, <2>1, <2>2 DEF TypeOK, Opened
  <1>10. ASSUME NEW g \in DOMAIN groups', groups'[g].before_all_ran
         PROVE  groups'[g].admitted /\ Completes(groups', hooks', g)
    <2>1. g \in DOMAIN groups /\ groups'[g] = groups[g]
      BY <1>7, <1>8, <1>10
    <2>2. groups[g].admitted /\ Completes(groups, hooks, g)
      BY <1>2, <1>10, <2>1 DEF GroupsInv, GroupsOK
    <2> QED
      BY <1>1, <2>1, <2>2 DEF Completes, Settled
  <1>11. GroupsInv' /\ OutcomeInv'
    BY <1>1, <1>2, <1>6, <1>10, OutcomeKept DEF GroupsInv, GroupsOK
  <1> QED
    BY <1>6, <1>9, <1>11 DEF IInv

\* The group on top is taken off.
LEMMA GroupPopped ==
    ASSUME TypeOK, GroupsInv, Len(groups) # 0, groups' = Front(groups), UNCHANGED hooks
    PROVE  groups' \in Seq(Groups) /\ Len(groups') = Len(groups) - 1 /\ GroupsInv'
PROOF
  <1>1. groups \in Seq(Groups) /\ groups # <<>> /\ DOMAIN groups = 1 .. Len(groups) /\ Len(groups) \in Nat
    BY GroupsFields, EmptySeq DEF TypeOK
  <1>2. /\ groups' \in Seq(Groups) /\ Len(groups') = Len(groups) - 1
        /\ DOMAIN groups' = 1 .. Len(groups) - 1
        /\ \A g \in 1 .. Len(groups) - 1 : groups'[g] = groups[g]
    BY <1>1, Popped
  <1>3. ASSUME NEW g \in DOMAIN groups', groups'[g].before_all_ran
        PROVE  groups'[g].admitted /\ Completes(groups', hooks', g)
    <2>1. g \in DOMAIN groups /\ groups'[g] = groups[g]
      BY <1>1, <1>2, <1>3
    <2>2. groups[g].admitted /\ Completes(groups, hooks, g)
      BY <1>3, <2>1 DEF GroupsInv, GroupsOK
    <2> QED
      BY <2>1, <2>2 DEF Completes, Settled
  <1> QED
    BY <1>2, <1>3 DEF GroupsInv, GroupsOK

\* A group that an error leaves is taken off, and the invariant is kept.
LEMMA LeaveGroupStep ==
    ASSUME IInv, LeaveGroup
    PROVE  IInv'
PROOF
  <1>1. /\ raising /\ stack # <<>> /\ Top.kind = "groupe"
        /\ stack' = Front(stack) /\ groups' = Front(groups)
        /\ UNCHANGED <<raising, abort, summary, hooks, opened, file, aggregate, status, stop, struck>>
    BY DEF LeaveGroup, fileVars
  <1>2. TypeOK /\ OutcomeInv /\ GroupsInv /\ StackInv
    BY DEF IInv
  <1>3. Calm(stack)
    BY <1>1, <1>2, CalmInside
  <1>4. /\ Len(hooks') \in Nat /\ Len(hooks) <= Len(hooks') /\ Frames' = Frames /\ Groups' = Groups
        /\ Len(groups) \in Nat
    BY <1>1, <1>2, SameTypes, GroupsFields
  <1>5. /\ stack' \in Seq(Frames') /\ stack' # <<>> /\ StackInv' /\ TestsInv' /\ QuietInv'
        /\ Cardinality(Opened(stack')) = Len(groups) - 1 /\ Cardinality(Opened(stack')) \in Nat
        /\ FailedTest(stack') <=> FailedTest(stack)
    BY <1>1, <1>3, <1>4, PopKept DEF IsFile, IsTest
  <1>6. Len(groups) # 0
    BY <1>4, <1>5
  <1>7. groups' \in Seq(Groups) /\ Len(groups') = Len(groups) - 1 /\ GroupsInv'
    BY <1>1, <1>2, <1>6, GroupPopped
  <1>8. TypeOK'
    BY <1>1, <1>2, <1>4, <1>5, <1>7 DEF TypeOK, Opened
  <1>9. SettledInv' /\ OutcomeInv'
    BY <1>1, <1>2, <1>5, OutcomeKept DEF SettledInv
  <1> QED
    BY <1>5, <1>7, <1>8, <1>9 DEF IInv

\* While groupe runs on top, there is an innermost group.
LEMMA GroupeOnTop ==
    ASSUME TypeOK, stack # <<>>, Top.kind = "groupe"
    PROVE  Len(groups) # 0 /\ Len(groups) \in DOMAIN groups /\ Last(groups) = groups[Len(groups)]
PROOF
  <1>1. stack \in Seq(Frames) /\ Len(groups) = Cardinality(Opened(stack)) /\ Last(stack) = Top
    BY DEF TypeOK, Opened, Top
  <1>2. /\ Cardinality(Opened(stack)) = Cardinality(Opened(Front(stack))) + (IF Last(stack).kind = "groupe" THEN 1 ELSE 0)
        /\ Cardinality(Opened(Front(stack))) \in Nat
    BY <1>1, Popped
  <1>3. Len(groups) # 0
    BY <1>1, <1>2
  <1> QED
    BY <1>3, GroupsFields DEF Last

\* après_tout, and the end of the group, keep the invariant.
LEMMA AfterAllStep ==
    ASSUME IInv, AfterAll
    PROVE  IInv'
PROOF
  <1> DEFINE m == Len(groups)
             ids == groups[m].hooks["after_all"]
             f == [Top EXCEPT !.hook = @ + 1]
             c == Hook("after_all", ids[Top.hook])
  <1>1. /\ ~raising /\ stack # <<>> /\ Top.kind = "groupe"
        /\ UNCHANGED <<raising, abort, summary, hooks, opened, file, aggregate, status, stop, struck>>
    BY DEF AfterAll, At, fileVars
  <1>2. TypeOK /\ OutcomeInv /\ GroupsInv /\ StackInv
    BY DEF IInv
  <1>3. /\ Len(hooks') \in Nat /\ Len(hooks) <= Len(hooks') /\ Frames' = Frames /\ Groups' = Groups
        /\ m \in Nat \ {0} /\ m \in DOMAIN groups /\ Last(groups) = groups[m]
    BY <1>1, <1>2, SameTypes, GroupsFields, GroupeOnTop
  <1>4. \/ /\ groups[m].before_all_ran /\ Top.hook <= Len(ids)
           /\ stack' = Append(Append(Front(stack), f), c) /\ groups' = groups
        \/ stack' = Front(stack) /\ groups' = Front(groups)
    BY <1>3 DEF AfterAll, Calls, Goes
  <1>5. CASE stack' = Front(stack) /\ groups' = Front(groups)
    <2>1. Calm(stack)
      BY <1>1, <1>2, CalmInside
    <2>2. /\ stack' \in Seq(Frames') /\ stack' # <<>> /\ StackInv' /\ TestsInv' /\ QuietInv'
          /\ Cardinality(Opened(stack')) = Len(groups) - 1
          /\ FailedTest(stack') <=> FailedTest(stack)
          /\ Calling(groups, Last(stack'), Top)
      BY <1>1, <1>3, <1>5, <2>1, PopKept DEF IsFile, IsTest
    <2>3. groups' \in Seq(Groups) /\ Len(groups') = Len(groups) - 1 /\ GroupsInv'
      BY <1>1, <1>2, <1>3, <1>5, GroupPopped
    <2>4. TypeOK'
      BY <1>1, <1>2, <1>3, <2>2, <2>3 DEF TypeOK, Opened
    <2>5. SettledInv' /\ OutcomeInv'
      BY <1>1, <1>2, <2>2, OutcomeKept DEF SettledInv, Top, Calling, IsTest
    <2> QED
      BY <2>2, <2>3, <2>4, <2>5 DEF IInv
  <1>6. CASE /\ groups[m].before_all_ran /\ Top.hook <= Len(ids)
             /\ stack' = Append(Append(Front(stack), f), c) /\ groups' = groups
    <2>1. /\ Top = [kind |-> "groupe", at |-> "callback", hook |-> Top.hook] /\ Top.hook \in Nat \ {0}
      BY <1>1, <1>2, TopFields, FrameFields
    <2>2. /\ Top.hook \in DOMAIN ids /\ ids[Top.hook] \in 1 .. Len(hooks) /\ DOMAIN ids = 1 .. Len(ids)
      <3>1. /\ DOMAIN ids = 1 .. Len(ids) /\ Len(ids) \in Nat
            /\ \A k \in DOMAIN ids : ids[k] \in 1 .. Len(hooks)
        BY <1>2, <1>3, GroupsFields DEF Kinds
      <3>2. Top.hook \in Nat \ {0} /\ Top.hook <= Len(ids)
        BY <1>6, <2>1
      <3> HIDE DEF ids, f, c, m
      <3>3. Top.hook \in DOMAIN ids
        BY <3>1, <3>2
      <3> QED
        BY <3>1, <3>3
    <2>3. /\ f = [kind |-> "groupe", at |-> "callback", hook |-> Top.hook + 1]
          /\ f \in Frames' /\ f.kind = Top.kind /\ ~IsTest(f)
      <3>1. f = [kind |-> "groupe", at |-> "callback", hook |-> Top.hook + 1]
        BY <2>1
      <3> QED
        BY <1>1, <1>3, <2>1, <3>1 DEF Frames, IsTest
    <2>4. c \in Frames' /\ c.kind = "code" /\ ~IsFile(c) /\ c.of = "after_all" /\ c.hook = ids[Top.hook]
      <3>1. ids[Top.hook] \in 0 .. Len(hooks)
        BY <2>2
      <3> HIDE DEF ids
      <3> QED
        BY <1>3, <3>1 DEF Hook, Frames, IsFile, Kinds
    <2>5. Calling(groups', f, c)
      BY <2>3, <2>4 DEF Calling, IsTest
    <2>6. Admitted(groups', c)
      <3>1. groups[m].admitted
        BY <1>2, <1>3, <1>6 DEF GroupsInv, GroupsOK
      <3>2. Contains(groups[m].hooks[c.of], c.hook)
        BY <2>2, <2>4 DEF Contains
      <3> QED
        BY <1>3, <1>6, <3>1, <3>2 DEF Admitted
    <2>7. SameHooks(groups, groups') /\ MoreSettled(hooks, hooks')
      BY <1>1, <1>6, SameGroups
    <2> HIDE DEF f, c
    <2>8. /\ stack' \in Seq(Frames') /\ stack' # <<>>
          /\ StackInv' /\ TestsInv' /\ QuietInv' /\ SettledInv'
          /\ Cardinality(Opened(stack')) = Len(groups)
          /\ FailedTest(stack') <=> FailedTest(stack)
      BY <1>1, <1>3, <1>6, <2>3, <2>4, <2>5, <2>6, <2>7, CallKept
    <2>9. TypeOK'
      BY <1>1, <1>2, <1>3, <1>6, <2>8 DEF TypeOK, Opened
    <2>10. GroupsInv' /\ OutcomeInv'
      BY <1>1, <1>2, <1>6, <2>7, <2>8, GroupsKept, OutcomeKept
    <2> QED
      BY <2>8, <2>9, <2>10 DEF IInv
  <1> QED
    BY <1>4, <1>5, <1>6

\* A test that ends, and whose outcome is added up, keeps the invariant.
LEMMA FinishStep ==
    ASSUME IInv, Finish
    PROVE  IInv'
PROOF
  <1>1. /\ ~raising /\ stack # <<>> /\ IsTest(Top) /\ stack' = Front(stack)
        /\ summary' = [executed |-> summary.executed + 1,
                       failed |-> summary.failed + (IF Top.passed THEN 0 ELSE 1)]
        /\ abort' = (abort \/ (stop /\ ~Top.passed))
        /\ UNCHANGED <<raising, groups, hooks, opened, file, aggregate, status, stop, struck>>
    BY DEF Finish, At, fileVars, IsTest
  <1>2. TypeOK /\ OutcomeInv /\ GroupsInv /\ StackInv
    BY DEF IInv
  <1>3. /\ Len(hooks') \in Nat /\ Len(hooks) <= Len(hooks') /\ Frames' = Frames /\ Groups' = Groups
        /\ SameHooks(groups, groups') /\ MoreSettled(hooks, hooks')
    BY <1>1, <1>2, SameTypes, SameGroups, GroupsFields
  <1>4. Top.passed \in BOOLEAN /\ Len(stack) \in DOMAIN stack /\ Top = stack[Len(stack)]
    BY <1>1, <1>2, TopFields, FrameFields DEF IsTest
  <1>5. /\ stack' \in Seq(Frames') /\ stack' # <<>> /\ StackInv' /\ TestsInv' /\ QuietInv'
        /\ Cardinality(Opened(stack')) = Len(groups)
        /\ Top.passed => (FailedTest(stack') <=> FailedTest(stack))
        /\ Calling(groups, Last(stack'), Top)
    BY <1>1, <1>3, PopKept DEF IsFile, IsTest
  <1>6. summary \in Results /\ summary.failed \in Nat /\ summary.executed \in Nat /\ summary.failed <= summary.executed
    BY <1>2 DEF TypeOK, Results
  <1>7. /\ summary' \in Results /\ summary'.failed <= summary'.executed
        /\ summary'.failed = summary.failed + (IF Top.passed THEN 0 ELSE 1)
    BY <1>1, <1>4, <1>6 DEF Results
  <1>8. TypeOK'
    <2>1. abort' \in BOOLEAN
      BY <1>1, <1>2 DEF TypeOK
    <2> QED
      BY <1>1, <1>2, <1>3, <1>5, <1>7, <2>1 DEF TypeOK, Opened
  <1>9. GroupsInv' /\ SettledInv'
    BY <1>1, <1>2, <1>3, <1>5, GroupsKept DEF SettledInv, Top, Calling, IsTest
  <1>10. OutcomeInv'
    <2>1. CASE Top.passed
      <3>1. summary'.failed = summary.failed
        BY <1>6, <1>7, <2>1
      <3>2. Counted' <=> Counted
        BY <1>1, <1>5, <2>1, <3>1 DEF Counted
      <3> QED
        BY <1>1, <1>2, <3>2 DEF OutcomeInv
    <2>2. CASE ~Top.passed
      <3>1. summary'.failed > 0
        BY <1>6, <1>7, <2>2
      <3>2. FailedTest(stack)
        BY <1>1, <1>4, <2>2 DEF FailedTest
      <3>3. Counted' /\ Counted
        BY <1>1, <1>5, <3>1, <3>2 DEF Counted
      <3> QED
        BY <1>1, <1>2, <3>3 DEF OutcomeInv
    <2> QED
      BY <1>4, <2>1, <2>2
  <1> QED
    BY <1>5, <1>8, <1>9, <1>10 DEF IInv

\* The hook that a group gets when one is registered in it.
LEMMA RegisteredHook ==
    ASSUME TypeOK, GroupsInv, NEW kind \in Kinds, Len(groups) # 0, Len(hooks') = Len(hooks) + 1,
           hooks' = Append(hooks, [late |-> Last(groups).before_all_ran, done |-> 0]),
           groups' = [groups EXCEPT ![Len(groups)].hooks[kind] = Append(@, Len(hooks) + 1)]
    PROVE  groups' \in Seq(Groups') /\ Len(groups') = Len(groups) /\ GroupsInv'
PROOF
  <1> DEFINE m == Len(groups)
             x == Len(hooks) + 1
             ids == groups[m].hooks[kind]
             new == [groups[m] EXCEPT !.hooks = [groups[m].hooks EXCEPT ![kind] = Append(ids, x)]]
  <1>1. /\ groups \in Seq(Groups) /\ DOMAIN groups = 1 .. m /\ m \in 1 .. m /\ Len(hooks) \in Nat
        /\ DOMAIN hooks = 1 .. Len(hooks) /\ HooksOf(groups, hooks)
        /\ groups[m] \in Groups /\ ids \in Seq(1 .. Len(hooks)) /\ Last(groups) = groups[m]
    <2>1. groups \in Seq(Groups) /\ Last(groups) = groups[m]
      BY DEF TypeOK, Last
    <2>2. /\ DOMAIN groups = 1 .. m /\ m \in 1 .. m /\ Len(hooks) \in Nat
          /\ DOMAIN hooks = 1 .. Len(hooks) /\ HooksOf(groups, hooks)
      BY GroupsFields
    <2>3. groups[m] \in Groups /\ ids \in Seq(1 .. Len(hooks))
      BY <2>2, GroupsFields
    <2> QED
      BY <2>1, <2>2, <2>3
  <1>2. groups' = [groups EXCEPT ![m] = new]
    BY Zenon
  <1>3. /\ Groups \subseteq Groups' /\ Seq(Groups) \subseteq Seq(Groups')
        /\ Seq(1 .. Len(hooks)) \subseteq Seq(1 .. x)
    <2>1. Len(hooks') \in Nat /\ Len(hooks) <= Len(hooks') /\ 1 .. Len(hooks) \subseteq 1 .. x
      BY <1>1
    <2> QED
      BY <2>1, TypesGrow, SeqMonotonic
  <1>4. /\ Append(ids, x) \in Seq(1 .. x) /\ DOMAIN Append(ids, x) = 1 .. Len(ids) + 1
        /\ DOMAIN ids = 1 .. Len(ids) /\ Len(ids) \in Nat
        /\ \A k \in 1 .. Len(ids) : Append(ids, x)[k] = ids[k]
        /\ Append(ids, x)[Len(ids) + 1] = x
    <2>1. ids \in Seq(1 .. x) /\ x \in 1 .. x
      BY <1>1, <1>3
    <2> HIDE DEF ids, x
    <2> QED
      BY <2>1, Pushed, LenProperties
  <1>5. /\ new \in Groups' /\ new.before_all_ran = groups[m].before_all_ran /\ new.admitted = groups[m].admitted
        /\ new.hooks = [groups[m].hooks EXCEPT ![kind] = Append(ids, x)]
    <2>1. groups[m] \in [hooks : [Kinds -> Seq(1 .. x)], before_all_ran : BOOLEAN, admitted : BOOLEAN]
      BY <1>1, <1>3 DEF Groups
    <2>2. [groups[m].hooks EXCEPT ![kind] = Append(ids, x)] \in [Kinds -> Seq(1 .. x)]
      BY <1>4, <2>1
    <2> HIDE DEF ids, x
    <2>3. \A G \in [hooks : [Kinds -> Seq(1 .. x)], before_all_ran : BOOLEAN, admitted : BOOLEAN] :
             \A H \in [Kinds -> Seq(1 .. x)] :
               /\ [G EXCEPT !.hooks = H] \in [hooks : [Kinds -> Seq(1 .. x)], before_all_ran : BOOLEAN, admitted : BOOLEAN]
               /\ [G EXCEPT !.hooks = H].before_all_ran = G.before_all_ran
               /\ [G EXCEPT !.hooks = H].admitted = G.admitted
               /\ [G EXCEPT !.hooks = H].hooks = H
      OBVIOUS
    <2>4. Groups' = [hooks : [Kinds -> Seq(1 .. x)], before_all_ran : BOOLEAN, admitted : BOOLEAN]
      BY DEF Groups, x
    <2> QED
      BY <2>1, <2>2, <2>3, <2>4
  <1> HIDE DEF new
  <1>6. /\ groups' \in Seq(Groups') /\ Len(groups') = Len(groups) /\ DOMAIN groups' = 1 .. m
        /\ groups'[m] = new /\ \A g \in 1 .. m : g # m => groups'[g] = groups[g]
    <2>1. groups \in Seq(Groups')
      BY <1>1, <1>3
    <2>2. groups' \in Seq(Groups') /\ Len(groups') = Len(groups)
      <3> HIDE DEF m
      <3>1. m \in 1 .. Len(groups)
        BY <1>1 DEF m
      <3>2. ASSUME NEW S, groups \in Seq(S), NEW e \in S
            PROVE  [groups EXCEPT ![m] = e] \in Seq(S) /\ Len([groups EXCEPT ![m] = e]) = Len(groups)
        BY <3>1, <3>2, ExceptSeq
      <3>3. new \in Groups'
        BY <1>5
      <3>4. [groups EXCEPT ![m] = new] \in Seq(Groups') /\ Len([groups EXCEPT ![m] = new]) = Len(groups)
        BY <2>1, <3>2, <3>3
      <3> QED
        BY <1>2, <3>4
    <2> QED
      BY <1>1, <1>2, <2>2
  <1>7. /\ \A h \in 1 .. Len(hooks) : hooks'[h] = hooks[h]
        /\ hooks'[x].late = groups[m].before_all_ran
    <2>1. groups[m].before_all_ran \in BOOLEAN /\ hooks \in Seq([late : BOOLEAN, done : Nat])
      BY <1>1 DEF Groups, TypeOK
    <2> DEFINE rec == [late |-> groups[m].before_all_ran, done |-> 0]
    <2>2. rec \in [late : BOOLEAN, done : Nat] /\ rec.late = groups[m].before_all_ran /\ hooks' = Append(hooks, rec)
      BY <1>1, <2>1
    <2> HIDE DEF rec
    <2>3. /\ \A h \in 1 .. Len(hooks) : Append(hooks, rec)[h] = hooks[h]
          /\ Append(hooks, rec)[Len(hooks) + 1] = rec
      BY <2>1, <2>2, Pushed
    <2> QED
      BY <2>2, <2>3
  <1>8. ASSUME NEW g \in DOMAIN groups', groups'[g].before_all_ran
        PROVE  groups'[g].admitted /\ Completes(groups', hooks', g)
    <2>1. g \in DOMAIN groups /\ groups[g].before_all_ran
      BY <1>1, <1>5, <1>6, <1>8
    <2>2. groups[g].admitted /\ Completes(groups, hooks, g)
      BY <2>1 DEF GroupsInv, GroupsOK
    <2>3. groups'[g].admitted
      BY <1>1, <1>5, <1>6, <2>1, <2>2
    <2>4. ASSUME NEW k \in DOMAIN groups'[g].hooks["before_all"]
          PROVE  Settled(hooks', groups'[g].hooks["before_all"][k])
      <3>1. CASE g # m \/ kind # "before_all"
        <4>1. groups'[g].hooks["before_all"] = groups[g].hooks["before_all"]
          <5>1. CASE g # m
            BY <1>1, <1>6, <2>1, <5>1
          <5>2. CASE g = m /\ kind # "before_all"
            <6>1. groups'[g].hooks = [groups[m].hooks EXCEPT ![kind] = Append(ids, x)]
              BY <1>5, <1>6, <5>2
            <6>2. groups[m].hooks \in [Kinds -> Seq(1 .. Len(hooks))] /\ "before_all" \in Kinds
              BY <1>1 DEF Groups, Kinds
            <6> HIDE DEF ids, x
            <6> QED
              BY <5>2, <6>1, <6>2
          <5> QED
            BY <3>1, <5>1, <5>2
        <4>2. k \in DOMAIN groups[g].hooks["before_all"] /\ groups[g].hooks["before_all"][k] \in 1 .. Len(hooks)
          BY <1>1, <2>1, <2>4, <4>1 DEF HooksOf
        <4> QED
          BY <1>7, <2>2, <4>1, <4>2 DEF Completes, Settled
      <3>2. CASE g = m /\ kind = "before_all"
        <4>1. groups'[g].hooks["before_all"] = Append(ids, x)
          BY <1>1, <1>5, <1>6, <3>2 DEF Groups
        <4>2. CASE k = Len(ids) + 1
          BY <1>4, <1>7, <2>1, <3>2, <4>1, <4>2 DEF Settled
        <4>3. CASE k # Len(ids) + 1
          <5>1. k \in DOMAIN ids
            <6>1. k \in 1 .. Len(ids) + 1
              BY <1>4, <2>4, <4>1
            <6>2. \A l \in Nat : k \in 1 .. l + 1 /\ k # l + 1 => k \in 1 .. l
              OBVIOUS
            <6> QED
              BY <1>4, <4>3, <6>1, <6>2
          <5>2. groups'[g].hooks["before_all"][k] = ids[k]
            BY <1>4, <4>1, <5>1
          <5>3. ids[k] \in 1 .. Len(hooks) /\ Settled(hooks, ids[k])
            BY <1>1, <2>1, <2>2, <3>2, <5>1 DEF HooksOf, Completes
          <5> QED
            BY <1>7, <5>2, <5>3 DEF Settled
        <4> QED
          BY <4>2, <4>3
      <3> QED
        BY <3>1, <3>2
    <2> QED
      BY <2>3, <2>4 DEF Completes
  <1> QED
    BY <1>6, <1>8 DEF GroupsInv, GroupsOK

\* A hook that is registered keeps the invariant: no test is at one.
LEMMA RegisterStep ==
    ASSUME IInv, Register
    PROVE  IInv'
PROOF
  <1>1. /\ ~raising /\ stack # <<>> /\ Top.kind = "code" /\ ~InHook
        /\ UNCHANGED <<stack, abort, summary, opened, file, aggregate, status, stop, struck>>
    BY DEF Register, Running, fileVars
  <1>2. TypeOK /\ OutcomeInv /\ GroupsInv /\ StackInv /\ TestsInv /\ QuietInv
    BY DEF IInv
  <1>3. CASE groups = <<>>
    <2>1. raising' = TRUE /\ UNCHANGED <<groups, hooks>>
      BY <1>3 DEF Register
    <2>2. TypeOK'
      BY <1>1, <1>2, <2>1, SameTypes DEF TypeOK
    <2>3. StackInv' /\ GroupsInv' /\ TestsInv' /\ SettledInv' /\ QuietInv'
      BY <1>1, <1>2, <2>1 DEF StackInv, StackOK, GroupsInv, TestsInv, SettledInv, QuietInv
    <2>4. OutcomeInv'
      BY <1>1, <1>2, OutcomeKept
    <2> QED
      BY <2>2, <2>3, <2>4 DEF IInv
  <1>4. CASE groups # <<>>
    <2>1. PICK kind \in Kinds : groups' = [groups EXCEPT ![Len(groups)].hooks[kind] = Append(@, Len(hooks) + 1)]
      BY <1>4 DEF Register
    <2>2. /\ hooks' = Append(hooks, [late |-> Last(groups).before_all_ran, done |-> 0])
          /\ UNCHANGED raising
      BY <1>4 DEF Register
    <2>3. Calm(stack)
      BY <1>1, <1>2, CalmInside
    <2>4. Len(groups) # 0 /\ Len(groups) \in Nat /\ Len(hooks) \in Nat
      BY <1>2, <1>4, GroupsFields, EmptySeq DEF TypeOK
    <2>5. [late |-> Last(groups).before_all_ran, done |-> 0] \in [late : BOOLEAN, done : Nat]
      <3>1. Last(groups) \in Groups
        BY <1>2, <2>4, GroupsFields DEF Last
      <3> QED
        BY <3>1 DEF Groups
    <2>6. hooks' \in Seq([late : BOOLEAN, done : Nat]) /\ Len(hooks') = Len(hooks) + 1
      BY <1>2, <2>2, <2>5, AppendProperties DEF TypeOK
    <2>7. groups' \in Seq(Groups') /\ Len(groups') = Len(groups) /\ GroupsInv'
      BY <1>2, <2>1, <2>2, <2>4, <2>6, RegisteredHook
    <2>8. stack' \in Seq(Frames')
      BY <1>1, <1>2, <2>4, <2>6, TypesGrow DEF TypeOK
    <2>9. TypeOK'
      BY <1>1, <1>2, <2>2, <2>6, <2>7, <2>8 DEF TypeOK
    <2>10. PICK n \in Nat \ {0} : n = Len(stack) /\ n = Len(stack') /\ stack' = stack
      BY <1>1, <1>2, TopFields
    <2>11. StackInv' /\ TestsInv' /\ QuietInv'
      <3>1. /\ \A i \in n + 1 .. Len(stack') : FALSE
            /\ \A i \in n .. Len(stack') - 1 : FALSE
            /\ n \in Nat /\ n > 0 /\ n <= Len(stack) /\ n <= Len(stack')
        BY <2>10
      <3> QED
        BY <1>1, <2>3, <2>8, <2>10, <3>1, FramesKept
    <2>12. SettledInv' /\ OutcomeInv'
      BY <1>1, <1>2, OutcomeKept DEF SettledInv, Top, IsTest
    <2> QED
      BY <2>7, <2>9, <2>11, <2>12 DEF IInv
  <1> QED
    BY <1>3, <1>4

-----------------------------------------------------------------------------
(* The order of hooks. *)

\* A place is a group and a position in it.
LEMMA Pairs ==
    ASSUME NEW P, P \subseteq Nat \X Nat, NEW p \in P
    PROVE  p = <<p[1], p[2]>> /\ p[1] \in Nat /\ p[2] \in Nat
PROOF
  <1>1. p \in Nat \X Nat
    OBVIOUS
  <1> QED
    BY <1>1

\* The places before the next hook, before the next group, at the end and at the start.
LEMMA InwardsHook ==
    ASSUME NEW P, P \subseteq Nat \X Nat, NEW g \in Nat, NEW k \in Nat,
           <<g, k>> \in P
    PROVE  Before(P, <<g, k + 1>>) = Before(P, <<g, k>>) \cup {<<g, k>>}
PROOF
  <1>1. ASSUME NEW p \in P
        PROVE  Inwards(p, <<g, k + 1>>) <=> Inwards(p, <<g, k>>) \/ p = <<g, k>>
    BY <1>1, Pairs DEF Inwards
  <1> QED
    BY <1>1 DEF Before

\* Inwards, past the last place of a group comes the first of the next.
LEMMA InwardsGroup ==
    ASSUME NEW P, P \subseteq Nat \X Nat, NEW g \in Nat, NEW k \in Nat,
           \A p \in P : p[2] > 0 /\ (p[1] = g => p[2] < k)
    PROVE  Before(P, <<g + 1, 1>>) = Before(P, <<g, k>>)
PROOF
  <1>1. ASSUME NEW p \in P
        PROVE  Inwards(p, <<g + 1, 1>>) <=> Inwards(p, <<g, k>>)
    BY <1>1, Pairs DEF Inwards
  <1> QED
    BY <1>1 DEF Before

\* Inwards, past the last group every place has been passed.
LEMMA InwardsEnd ==
    ASSUME NEW P, P \subseteq Nat \X Nat, NEW g \in Nat, NEW k \in Nat,
           \A p \in P : p[1] < g
    PROVE  Before(P, <<g, k>>) = P
PROOF
  <1>1. ASSUME NEW p \in P
        PROVE  Inwards(p, <<g, k>>)
    BY <1>1, Pairs DEF Inwards
  <1> QED
    BY <1>1 DEF Before

\* Inwards, no place comes before the first.
LEMMA InwardsStart ==
    ASSUME NEW P, P \subseteq Nat \X Nat, NEW g \in Nat, NEW k \in Nat,
           \A p \in P : p[1] > 0 /\ p[2] > 0, g = 1, k = 1
    PROVE  Before(P, <<g, k>>) = {}
PROOF
  <1>1. ASSUME NEW p \in P
        PROVE  ~Inwards(p, <<g, k>>)
    BY <1>1, Pairs DEF Inwards
  <1> QED
    BY <1>1 DEF Before

\* Outwards, a place more has been passed once its hook has been run.
LEMMA OutwardsHook ==
    ASSUME NEW P, P \subseteq Nat \X Nat, NEW g \in Nat, NEW k \in Nat,
           <<g, k>> \in P
    PROVE  Behind(P, <<g, k + 1>>) = Behind(P, <<g, k>>) \cup {<<g, k>>}
PROOF
  <1>1. ASSUME NEW p \in P
        PROVE  Outwards(p, <<g, k + 1>>) <=> Outwards(p, <<g, k>>) \/ p = <<g, k>>
    BY <1>1, Pairs DEF Outwards
  <1> QED
    BY <1>1 DEF Behind

\* Outwards, past the last place of a group comes the first of the one around
\* it.
LEMMA OutwardsGroup ==
    ASSUME NEW P, P \subseteq Nat \X Nat, NEW g \in Nat, NEW k \in Nat,
           g > 0, \A p \in P : p[2] > 0 /\ (p[1] = g => p[2] < k)
    PROVE  Behind(P, <<g - 1, 1>>) = Behind(P, <<g, k>>)
PROOF
  <1>1. ASSUME NEW p \in P
        PROVE  Outwards(p, <<g - 1, 1>>) <=> Outwards(p, <<g, k>>)
    BY <1>1, Pairs DEF Outwards
  <1> QED
    BY <1>1 DEF Behind

\* Outwards, past the outermost group every place has been passed.
LEMMA OutwardsEnd ==
    ASSUME NEW P, P \subseteq Nat \X Nat, NEW g \in Nat, NEW k \in Nat,
           g = 0, \A p \in P : p[1] > 0
    PROVE  Behind(P, <<g, k>>) = P
PROOF
  <1>1. ASSUME NEW p \in P
        PROVE  Outwards(p, <<g, k>>)
    BY <1>1, Pairs DEF Outwards
  <1> QED
    BY <1>1 DEF Behind

\* Outwards, no place comes before the first of the innermost group.
LEMMA OutwardsStart ==
    ASSUME NEW P, P \subseteq Nat \X Nat, NEW g \in Nat, NEW k \in Nat,
           k = 1, \A p \in P : p[1] <= g /\ p[2] > 0
    PROVE  Behind(P, <<g, k>>) = {}
PROOF
  <1>1. ASSUME NEW p \in P
        PROVE  ~Outwards(p, <<g, k>>)
    BY <1>1, Pairs DEF Outwards
  <1> QED
    BY <1>1 DEF Behind

\* What a sequence holds when an element is appended to it.
LEMMA AppendRange ==
    ASSUME NEW S, NEW ran \in Seq(S), NEW x \in S
    PROVE  /\ Append(ran, x) \in Seq(S) /\ Len(ran) \in Nat
           /\ DOMAIN Append(ran, x) = 1 .. Len(ran) + 1 /\ DOMAIN ran = 1 .. Len(ran)
           /\ \A i \in 1 .. Len(ran) : Append(ran, x)[i] = ran[i]
           /\ Append(ran, x)[Len(ran) + 1] = x
           /\ Range(Append(ran, x)) = Range(ran) \cup {x}
PROOF
  <1> DEFINE t == Append(ran, x)
             l == Len(ran)
  <1>1. /\ t \in Seq(S) /\ l \in Nat /\ DOMAIN t = 1 .. l + 1 /\ DOMAIN ran = 1 .. l
        /\ \A i \in 1 .. l : t[i] = ran[i]
        /\ t[l + 1] = x
    BY Pushed, LenProperties
  <1> HIDE DEF t, l
  <1>2. Range(t) = Range(ran) \cup {x}
    <2>1. ASSUME NEW i \in 1 .. l + 1
          PROVE  t[i] \in Range(ran) \cup {x}
      <3>1. CASE i = l + 1
        BY <1>1, <3>1
      <3>2. CASE i \in 1 .. l
        BY <1>1, <3>2 DEF Range
      <3> QED
        BY <1>1, <3>1, <3>2
    <2>2. ASSUME NEW i \in 1 .. l
          PROVE  ran[i] \in Range(t)
      <3>1. i \in DOMAIN t /\ t[i] = ran[i]
        BY <1>1
      <3> QED
        BY <3>1 DEF Range
    <2>3. x \in Range(t)
      <3>1. l + 1 \in DOMAIN t /\ t[l + 1] = x
        BY <1>1
      <3> QED
        BY <3>1 DEF Range
    <2>4. Range(t) \subseteq Range(ran) \cup {x}
      BY <1>1, <2>1 DEF Range
    <2>5. Range(ran) \subseteq Range(t)
      BY <1>1, <2>2 DEF Range
    <2> QED
      BY <2>3, <2>4, <2>5
  <1> QED
    BY <1>1, <1>2 DEF t, l

\* A place is noted after those before it.
LEMMA NotedInwards ==
    ASSUME NEW ran \in Seq(Nat \X Nat), NEW P, P \subseteq Nat \X Nat, NEW x \in P,
           Range(ran) = Before(P, x), InOrder(ran, Inwards)
    PROVE  /\ Append(ran, x) \in Seq(Nat \X Nat) /\ Range(Append(ran, x)) = Range(ran) \cup {x}
           /\ InOrder(Append(ran, x), Inwards)
PROOF
  <1> DEFINE t == Append(ran, x)
             l == Len(ran)
             S == Nat \X Nat
  <1>1. /\ t \in Seq(S) /\ l \in Nat /\ DOMAIN t = 1 .. l + 1 /\ DOMAIN ran = 1 .. l
        /\ \A i \in 1 .. l : t[i] = ran[i]
        /\ t[l + 1] = x /\ Range(t) = Range(ran) \cup {x}
    <2>1. x \in S /\ ran \in Seq(S)
      OBVIOUS
    <2> HIDE DEF S
    <2> QED
      BY <2>1, AppendRange
  <1> HIDE DEF t, l
  <1>2. \A i \in DOMAIN ran : Inwards(ran[i], x)
    BY DEF Range, Before
  <1>3. \A i, j \in DOMAIN ran : i < j => Inwards(ran[i], ran[j])
    BY DEF InOrder
  <1>4. ASSUME NEW i \in DOMAIN t, NEW j \in DOMAIN t, i < j
        PROVE  Inwards(t[i], t[j])
    <2>1. i \in DOMAIN ran /\ t[i] = ran[i]
      BY <1>1, <1>4
    <2>2. CASE j \in DOMAIN ran
      BY <1>1, <1>3, <1>4, <2>1, <2>2
    <2>3. CASE j = l + 1
      BY <1>1, <1>2, <2>1, <2>3
    <2> QED
      BY <1>1, <2>2, <2>3
  <1>5. InOrder(t, Inwards)
    BY <1>4 DEF InOrder
  <1> QED
    BY <1>1, <1>5 DEF t

\* A place noted after those that come before it, outwards, keeps them in
\* order.
LEMMA NotedOutwards ==
    ASSUME NEW ran \in Seq(Nat \X Nat), NEW P, P \subseteq Nat \X Nat, NEW x \in P,
           Range(ran) = Behind(P, x), InOrder(ran, Outwards)
    PROVE  /\ Append(ran, x) \in Seq(Nat \X Nat) /\ Range(Append(ran, x)) = Range(ran) \cup {x}
           /\ InOrder(Append(ran, x), Outwards)
PROOF
  <1> DEFINE t == Append(ran, x)
             l == Len(ran)
             S == Nat \X Nat
  <1>1. /\ t \in Seq(S) /\ l \in Nat /\ DOMAIN t = 1 .. l + 1 /\ DOMAIN ran = 1 .. l
        /\ \A i \in 1 .. l : t[i] = ran[i]
        /\ t[l + 1] = x /\ Range(t) = Range(ran) \cup {x}
    <2>1. x \in S /\ ran \in Seq(S)
      OBVIOUS
    <2> HIDE DEF S
    <2> QED
      BY <2>1, AppendRange
  <1> HIDE DEF t, l
  <1>2. \A i \in DOMAIN ran : Outwards(ran[i], x)
    BY DEF Range, Behind
  <1>3. \A i, j \in DOMAIN ran : i < j => Outwards(ran[i], ran[j])
    BY DEF InOrder
  <1>4. ASSUME NEW i \in DOMAIN t, NEW j \in DOMAIN t, i < j
        PROVE  Outwards(t[i], t[j])
    <2>1. i \in DOMAIN ran /\ t[i] = ran[i]
      BY <1>1, <1>4
    <2>2. CASE j \in DOMAIN ran
      BY <1>1, <1>3, <1>4, <2>1, <2>2
    <2>3. CASE j = l + 1
      BY <1>1, <1>2, <2>1, <2>3
    <2> QED
      BY <1>1, <2>2, <2>3
  <1>5. InOrder(t, Outwards)
    BY <1>4 DEF InOrder
  <1> QED
    BY <1>1, <1>5 DEF t

\* The places of a kind.
LEMMA PlaceFields ==
    ASSUME TypeOK, NEW kind \in Kinds
    PROVE  /\ PlacesOf(groups, kind) \subseteq Nat \X Nat
           /\ \A p \in PlacesOf(groups, kind) :
                 /\ p = <<p[1], p[2]>> /\ p[1] \in 1 .. Len(groups) /\ p[1] \in DOMAIN groups
                 /\ p[2] \in 1 .. Len(groups[p[1]].hooks[kind])
           /\ \A g \in DOMAIN groups : \A k \in DOMAIN groups[g].hooks[kind] : <<g, k>> \in PlacesOf(groups, kind)
           /\ Places(kind) = PlacesOf(groups, kind)
PROOF
  <1>1. /\ DOMAIN groups = 1 .. Len(groups) /\ Len(groups) \in Nat
        /\ \A g \in DOMAIN groups : /\ DOMAIN groups[g].hooks[kind] = 1 .. Len(groups[g].hooks[kind])
                                    /\ Len(groups[g].hooks[kind]) \in Nat
    BY GroupsFields
  <1>2. ASSUME NEW p \in PlacesOf(groups, kind)
        PROVE  /\ p \in Nat \X Nat
               /\ p = <<p[1], p[2]>> /\ p[1] \in 1 .. Len(groups) /\ p[1] \in DOMAIN groups
               /\ p[2] \in 1 .. Len(groups[p[1]].hooks[kind])
    <2>1. PICK g \in DOMAIN groups : p \in {g} \X DOMAIN groups[g].hooks[kind]
      BY <1>2 DEF PlacesOf
    <2>2. p = <<p[1], p[2]>> /\ p[1] = g /\ p[2] \in DOMAIN groups[g].hooks[kind]
      BY <2>1
    <2>3. p[2] \in 1 .. Len(groups[p[1]].hooks[kind]) /\ Len(groups[p[1]].hooks[kind]) \in Nat
      BY <1>1, <2>2
    <2>4. p[1] \in 1 .. Len(groups) /\ p[1] \in DOMAIN groups
      BY <1>1, <2>2
    <2>5. p[1] \in Nat /\ p[2] \in Nat
      BY <1>1, <2>3, <2>4
    <2>6. p \in Nat \X Nat
      BY <2>2, <2>5
    <2> QED
      BY <2>2, <2>3, <2>4, <2>6
  <1>3. ASSUME NEW g \in DOMAIN groups, NEW k \in DOMAIN groups[g].hooks[kind]
        PROVE  <<g, k>> \in PlacesOf(groups, kind)
    BY <1>3 DEF PlacesOf
  <1>4. Places(kind) = PlacesOf(groups, kind)
    BY DEF Places, PlacesOf
  <1> QED
    BY <1>2, <1>3, <1>4

-----------------------------------------------------------------------------
(* test. *)

TestAt(at, g, h, p, r) == [kind |-> "test", at |-> at, group |-> g, hook |-> h, passed |-> p, ran |-> r]

\* Such a test is a frame.
LEMMA TestFrame ==
    ASSUME NEW at \in {"before_all", "before_each", "body", "after_each", "finish"}, NEW g \in Nat,
           NEW h \in Nat \ {0}, NEW p \in BOOLEAN, NEW r \in Seq(Nat \X Nat)
    PROVE  TestAt(at, g, h, p, r) \in Frames
  BY DEF TestAt, Frames

\* A test on top, as far as it has come.
LEMMA TestTop ==
    ASSUME IInv, stack # <<>>, Top.kind = "test"
    PROVE  /\ IsTest(Top) /\ ~IsFile(Top) /\ Top \in Frames
           /\ Top = TestAt(Top.at, Top.group, Top.hook, Top.passed, Top.ran)
           /\ Top.group \in Nat /\ Top.hook \in Nat \ {0} /\ Top.passed \in BOOLEAN /\ Top.ran \in Seq(Nat \X Nat)
           /\ TestOK(groups, hooks, Top)
           /\ ~raising => LastSettled(groups, hooks, Top)
PROOF
  <1>1. TypeOK /\ TestsInv /\ SettledInv
    BY DEF IInv
  <1>2. Top \in Frames /\ Top = stack[Len(stack)] /\ Len(stack) \in DOMAIN stack
    BY <1>1, TopFields
  <1>3. TestOK(groups, hooks, Top)
    BY <1>1, <1>2 DEF TestsInv, TestsOK, IsTest
  <1> QED
    BY <1>1, <1>2, <1>3, FrameFields DEF SettledInv, IsTest, IsFile, TestAt

\* What a test is once it has moved on.
Advances(f, h, r) == [f EXCEPT !.hook = h, !.ran = r]
Enters(f, g, h) == [f EXCEPT !.group = g, !.hook = h]
Turns(f, a) == [f EXCEPT !.at = a]
Fails(f, a, p) == [f EXCEPT !.at = a, !.passed = p]
Resumes(f, a, g, h, r) == [f EXCEPT !.at = a, !.group = g, !.hook = h, !.ran = r]
Recovers(f, a, g, h, r, p) == [f EXCEPT !.at = a, !.group = g, !.hook = h, !.ran = r, !.passed = p]

\* A test that has run a hook and noted it.
LEMMA TestAdvances ==
    ASSUME NEW f, f = TestAt(f.at, f.group, f.hook, f.passed, f.ran), NEW h, NEW r
    PROVE  Advances(f, h, r) = TestAt(f.at, f.group, h, f.passed, r)
PROOF
  <1>1. [f EXCEPT !.hook = h] = TestAt(f.at, f.group, h, f.passed, f.ran)
    BY DEF TestAt
  <1> QED
    <2>1. [TestAt(f.at, f.group, h, f.passed, f.ran) EXCEPT !.ran = r] = TestAt(f.at, f.group, h, f.passed, r)
      BY DEF TestAt
    <2> QED
      BY <1>1, <2>1, Zenon DEF Advances

\* A test that goes on to another group.
LEMMA TestEnters ==
    ASSUME NEW f, f = TestAt(f.at, f.group, f.hook, f.passed, f.ran), NEW g, NEW h
    PROVE  Enters(f, g, h) = TestAt(f.at, g, h, f.passed, f.ran)
PROOF
  <1>1. [f EXCEPT !.group = g] = TestAt(f.at, g, f.hook, f.passed, f.ran)
    BY DEF TestAt
  <1> QED
    <2>1. [TestAt(f.at, g, f.hook, f.passed, f.ran) EXCEPT !.hook = h] = TestAt(f.at, g, h, f.passed, f.ran)
      BY DEF TestAt
    <2> QED
      BY <1>1, <2>1, Zenon DEF Enters

\* A test that goes on to its next stage.
LEMMA TestTurns ==
    ASSUME NEW f, f = TestAt(f.at, f.group, f.hook, f.passed, f.ran), NEW a
    PROVE  Turns(f, a) = TestAt(a, f.group, f.hook, f.passed, f.ran)
  BY DEF TestAt, Turns

\* A test that has caught an error, and goes on to its next stage.
LEMMA TestFails ==
    ASSUME NEW f, f = TestAt(f.at, f.group, f.hook, f.passed, f.ran), NEW a, NEW p
    PROVE  Fails(f, a, p) = TestAt(a, f.group, f.hook, p, f.ran)
PROOF
  <1>1. [f EXCEPT !.at = a] = TestAt(a, f.group, f.hook, f.passed, f.ran)
    BY DEF TestAt
  <1> QED
    <2>1. [TestAt(a, f.group, f.hook, f.passed, f.ran) EXCEPT !.passed = p] = TestAt(a, f.group, f.hook, p, f.ran)
      BY DEF TestAt
    <2> QED
      BY <1>1, <2>1, Zenon DEF Fails

\* A test that goes on to a stage, at the first place of it.
LEMMA TestResumes ==
    ASSUME NEW f, f = TestAt(f.at, f.group, f.hook, f.passed, f.ran), NEW a, NEW g, NEW h, NEW r
    PROVE  Resumes(f, a, g, h, r) = TestAt(a, g, h, f.passed, r)
PROOF
  <1>1. [f EXCEPT !.at = a] = TestAt(a, f.group, f.hook, f.passed, f.ran)
    BY DEF TestAt
  <1>2. [f EXCEPT !.at = a, !.group = g] = TestAt(a, g, f.hook, f.passed, f.ran)
    <2>1. [TestAt(a, f.group, f.hook, f.passed, f.ran) EXCEPT !.group = g] = TestAt(a, g, f.hook, f.passed, f.ran)
      BY DEF TestAt
    <2> QED
      BY <1>1, <2>1, Zenon
  <1>3. [f EXCEPT !.at = a, !.group = g, !.hook = h] = TestAt(a, g, h, f.passed, f.ran)
    <2>1. [TestAt(a, g, f.hook, f.passed, f.ran) EXCEPT !.hook = h] = TestAt(a, g, h, f.passed, f.ran)
      BY DEF TestAt
    <2> QED
      BY <1>2, <2>1, Zenon
  <1> QED
    <2>1. [TestAt(a, g, h, f.passed, f.ran) EXCEPT !.ran = r] = TestAt(a, g, h, f.passed, r)
      BY DEF TestAt
    <2> QED
      BY <1>3, <2>1, Zenon DEF Resumes

\* A test that has caught an error, and goes on to a stage at the first place
\* of it.
LEMMA TestRecovers ==
    ASSUME NEW f, f = TestAt(f.at, f.group, f.hook, f.passed, f.ran), NEW a, NEW g, NEW h, NEW r, NEW p
    PROVE  Recovers(f, a, g, h, r, p) = TestAt(a, g, h, p, r)
PROOF
  <1>1. [f EXCEPT !.at = a] = TestAt(a, f.group, f.hook, f.passed, f.ran)
    BY DEF TestAt
  <1>2. [f EXCEPT !.at = a, !.group = g] = TestAt(a, g, f.hook, f.passed, f.ran)
    <2>1. [TestAt(a, f.group, f.hook, f.passed, f.ran) EXCEPT !.group = g] = TestAt(a, g, f.hook, f.passed, f.ran)
      BY DEF TestAt
    <2> QED
      BY <1>1, <2>1, Zenon
  <1>3. [f EXCEPT !.at = a, !.group = g, !.hook = h] = TestAt(a, g, h, f.passed, f.ran)
    <2>1. [TestAt(a, g, f.hook, f.passed, f.ran) EXCEPT !.hook = h] = TestAt(a, g, h, f.passed, f.ran)
      BY DEF TestAt
    <2> QED
      BY <1>2, <2>1, Zenon
  <1>4. [f EXCEPT !.at = a, !.group = g, !.hook = h, !.ran = r] = TestAt(a, g, h, f.passed, r)
    <2>1. [TestAt(a, g, h, f.passed, f.ran) EXCEPT !.ran = r] = TestAt(a, g, h, f.passed, r)
      BY DEF TestAt
    <2> QED
      BY <1>3, <2>1, Zenon
  <1> QED
    <2>1. [TestAt(a, g, h, f.passed, r) EXCEPT !.passed = p] = TestAt(a, g, h, p, r)
      BY DEF TestAt
    <2> QED
      BY <1>4, <2>1, Zenon DEF Recovers

\* The test on top has moved on to f, or an error has reached it there.
LEMMA MovedStep ==
    ASSUME IInv, stack # <<>>, Top.kind = "test", NEW f \in Frames, IsTest(f),
           stack' = Append(Front(stack), f),
           SameHooks(groups, groups'), groups' \in Seq(Groups), GroupsInv',
           UNCHANGED <<hooks, abort, summary, opened, file, aggregate, status, stop>>,
           raising' \in BOOLEAN, TestOK(groups', hooks, f), LastSettled(groups', hooks, f),
           \/ struck' = struck /\ f.passed = Top.passed
           \/ struck' = TRUE /\ ~f.passed
    PROVE  IInv'
PROOF
  <1>1. TypeOK /\ OutcomeInv /\ IsTest(Top)
    BY DEF IInv, IsTest
  <1>2. /\ Len(hooks') \in Nat /\ Len(hooks) <= Len(hooks') /\ Frames' = Frames /\ Groups' = Groups
        /\ MoreSettled(hooks, hooks') /\ TestOK(groups', hooks', f) /\ LastSettled(groups', hooks', f)
    BY <1>1, SameTypes, SameGroups, GroupsFields
  <1>3. /\ stack' \in Seq(Frames') /\ stack' # <<>>
        /\ StackInv' /\ TestsInv' /\ QuietInv' /\ SettledInv'
        /\ Cardinality(Opened(stack')) = Len(groups)
        /\ f.passed = Top.passed => (FailedTest(stack') <=> FailedTest(stack))
        /\ ~f.passed => FailedTest(stack')
    BY <1>1, <1>2, GoesKept
  <1>4. TypeOK'
    <2>1. Len(groups') = Len(groups) /\ struck' \in BOOLEAN
      BY <1>1 DEF SameHooks, TypeOK
    <2> QED
      BY <1>1, <1>2, <1>3, <2>1 DEF TypeOK, Opened
  <1>5. OutcomeInv'
    <2>1. status = None
      BY <1>1 DEF OutcomeInv
    <2>2. CASE struck' = struck /\ f.passed = Top.passed
      BY <1>1, <1>3, <2>2, OutcomeKept
    <2>3. CASE struck' = TRUE /\ ~f.passed
      BY <1>3, <2>1, <2>3 DEF OutcomeInv, Counted
    <2> QED
      BY <2>2, <2>3
  <1> QED
    BY <1>3, <1>4, <1>5 DEF IInv

\* It has called c.
LEMMA CalledStep ==
    ASSUME IInv, stack # <<>>, Top.kind = "test", NEW f \in Frames, IsTest(f),
           NEW c \in Frames, c.kind = "code", ~IsFile(c),
           stack' = Append(Append(Front(stack), f), c),
           UNCHANGED <<raising, groups, hooks, abort, summary, opened, file, aggregate, status, stop, struck>>,
           TestOK(groups, hooks, f), f.passed = Top.passed, Admitted(groups, c), Calling(groups, f, c)
    PROVE  IInv'
PROOF
  <1>1. TypeOK /\ OutcomeInv /\ GroupsInv /\ f.kind = Top.kind
    BY DEF IInv, IsTest
  <1>2. /\ Len(hooks') \in Nat /\ Len(hooks) <= Len(hooks') /\ Frames' = Frames /\ Groups' = Groups
        /\ SameHooks(groups, groups') /\ MoreSettled(hooks, hooks')
        /\ TestOK(groups', hooks', f) /\ Admitted(groups', c) /\ Calling(groups', f, c)
    BY <1>1, SameTypes, SameGroups, GroupsFields
  <1>3. /\ stack' \in Seq(Frames') /\ stack' # <<>>
        /\ StackInv' /\ TestsInv' /\ QuietInv' /\ SettledInv'
        /\ Cardinality(Opened(stack')) = Len(groups)
        /\ FailedTest(stack') <=> FailedTest(stack)
    BY <1>1, <1>2, CallKept
  <1>4. TypeOK'
    BY <1>1, <1>2, <1>3 DEF TypeOK, Opened
  <1>5. GroupsInv' /\ OutcomeInv'
    BY <1>1, <1>2, <1>3, GroupsKept, OutcomeKept
  <1> QED
    BY <1>3, <1>4, <1>5 DEF IInv

\* Before the first hook of a kind.
LEMMA AfterEachBegins ==
    ASSUME TypeOK, NEW f, f.at = "after_each", f.group = Len(groups), f.hook = 1, f.ran = <<>>
    PROVE  TestOK(groups, hooks, f) /\ LastSettled(groups, hooks, f)
PROOF
  <1> DEFINE P == PlacesOf(groups, "after_each")
  <1>1. /\ P \subseteq Nat \X Nat /\ Len(groups) \in Nat
        /\ \A p \in P : p[1] <= Len(groups) /\ p[2] > 0
    <2>1. Len(groups) \in Nat /\ \A g \in DOMAIN groups : Len(groups[g].hooks["after_each"]) \in Nat
      BY GroupsFields DEF Kinds
    <2>2. /\ P \subseteq Nat \X Nat
          /\ \A p \in P : p[1] \in 1 .. Len(groups) /\ p[1] \in DOMAIN groups
                          /\ p[2] \in 1 .. Len(groups[p[1]].hooks["after_each"])
      BY PlaceFields DEF Kinds
    <2> QED
      BY <2>1, <2>2
  <1> HIDE DEF P
  <1>2. Behind(P, <<Len(groups), 1>>) = {}
    <2>1. 1 \in Nat
      OBVIOUS
    <2> QED
      BY <1>1, <2>1, OutwardsStart
  <1>3. Range(f.ran) = {}
    BY DEF Range
  <1>4. InOrder(f.ran, Outwards)
    BY DEF InOrder
  <1>5. AfterEachOK(groups, f)
    <2>1. <<f.group, f.hook>> = <<Len(groups), 1>> /\ f.group <= Len(groups)
      BY <1>1
    <2>2. Range(f.ran) = Behind(P, <<f.group, f.hook>>)
      BY <1>2, <1>3, <2>1, Zenon
    <2> QED
      BY <1>4, <2>1, <2>2 DEF AfterEachOK, P
  <1> QED
    BY <1>5 DEF TestOK, LastSettled

\* A body that has returned leads to the après_chaque hooks, and the invariant
\* is kept.
LEMMA AfterBodyStep ==
    ASSUME IInv, AfterBody
    PROVE  IInv'
PROOF
  <1> DEFINE f == [Top EXCEPT !.at = "after_each", !.group = Len(groups), !.hook = 1, !.ran = <<>>]
  <1>1. /\ ~raising /\ stack # <<>> /\ Top.kind = "test" /\ stack' = Append(Front(stack), f)
        /\ UNCHANGED <<raising, groups, abort, summary, hooks, opened, file, aggregate, status, stop, struck>>
    BY DEF AfterBody, At, Goes, testVars, fileVars
  <1>2. TypeOK /\ GroupsInv
    BY DEF IInv
  <1>3. f = TestAt("after_each", Len(groups), 1, Top.passed, <<>>)
    <2>1. f = Resumes(Top, "after_each", Len(groups), 1, <<>>)
      BY DEF Resumes
    <2>2. Top = TestAt(Top.at, Top.group, Top.hook, Top.passed, Top.ran)
      BY <1>1, TestTop
    <2> HIDE DEF f
    <2> QED
      BY <2>1, <2>2, TestResumes
  <1> HIDE DEF f
  <1>4. /\ f \in Frames /\ IsTest(f) /\ f.at = "after_each" /\ f.group = Len(groups) /\ f.hook = 1
        /\ f.passed = Top.passed /\ f.ran = <<>>
    <2>1. Top.passed \in BOOLEAN /\ Len(groups) \in Nat /\ 1 \in Nat \ {0} /\ <<>> \in Seq(Nat \X Nat)
      BY <1>1, <1>2, TestTop, GroupsFields, EmptySeq
    <2> QED
      BY <1>3, <2>1 DEF Frames, IsTest, TestAt
  <1>5. TestOK(groups, hooks, f) /\ LastSettled(groups, hooks, f)
    BY <1>2, <1>4, AfterEachBegins
  <1>6. /\ SameHooks(groups, groups') /\ groups' \in Seq(Groups) /\ GroupsInv' /\ raising' \in BOOLEAN
        /\ TestOK(groups', hooks, f) /\ LastSettled(groups', hooks, f)
    BY <1>1, <1>2, <1>5, SameGroups, GroupsKept DEF TypeOK
  <1> QED
    BY <1>1, <1>4, <1>6, MovedStep

\* An error that either try block of a test catches keeps the invariant.
LEMMA CatchStep ==
    ASSUME IInv, Catch
    PROVE  IInv'
PROOF
  <1> DEFINE f == IF Top.at = "after_each" THEN [Top EXCEPT !.at = "finish", !.passed = FALSE]
                  ELSE [Top EXCEPT !.at = "after_each", !.group = Len(groups), !.hook = 1,
                                   !.ran = <<>>, !.passed = FALSE]
  <1>1. /\ stack # <<>> /\ Top.kind = "test" /\ stack' = Append(Front(stack), f)
        /\ raising' = FALSE /\ struck' = TRUE
        /\ UNCHANGED <<groups, abort, summary, hooks, opened, file, aggregate, status, stop>>
    BY DEF Catch, Goes, testVars, fileVars
  <1>2. TypeOK /\ GroupsInv
    BY DEF IInv
  <1>3. FALSE \in BOOLEAN /\ 1 \in Nat \ {0} /\ Len(groups) \in Nat /\ <<>> \in Seq(Nat \X Nat)
    BY <1>2, GroupsFields, EmptySeq
  <1>4. f \in Frames /\ IsTest(f) /\ ~f.passed /\ TestOK(groups, hooks, f) /\ LastSettled(groups, hooks, f)
    <2>1. CASE Top.at = "after_each"
      <3>1. f = TestAt("finish", Top.group, Top.hook, FALSE, Top.ran)
        <4>1. f = Fails(Top, "finish", FALSE)
          BY <2>1 DEF Fails
        <4>2. Top = TestAt(Top.at, Top.group, Top.hook, Top.passed, Top.ran)
          BY <1>1, TestTop
        <4> HIDE DEF f
        <4> QED
          BY <4>1, <4>2, TestFails
      <3> HIDE DEF f
      <3>2. f \in Frames /\ IsTest(f) /\ f.at = "finish" /\ f.passed = FALSE
        BY <1>1, <1>3, <3>1, TestTop DEF Frames, IsTest, TestAt
      <3> QED
        BY <3>2 DEF TestOK, LastSettled
    <2>2. CASE Top.at # "after_each"
      <3>1. f = TestAt("after_each", Len(groups), 1, FALSE, <<>>)
        <4>1. f = Recovers(Top, "after_each", Len(groups), 1, <<>>, FALSE)
          BY <2>2, Zenon DEF Recovers
        <4>2. Top = TestAt(Top.at, Top.group, Top.hook, Top.passed, Top.ran)
          BY <1>1, TestTop
        <4> HIDE DEF f
        <4>3. \A p : Recovers(Top, "after_each", Len(groups), 1, <<>>, p) = TestAt("after_each", Len(groups), 1, p, <<>>)
          BY <4>2, TestRecovers
        <4> QED
          BY <4>1, <4>3, Zenon
      <3> HIDE DEF f
      <3>2. /\ f \in Frames /\ IsTest(f) /\ f.at = "after_each" /\ f.group = Len(groups) /\ f.hook = 1
            /\ f.passed = FALSE /\ f.ran = <<>>
        BY <1>3, <3>1 DEF Frames, IsTest, TestAt
      <3> QED
        BY <1>2, <3>2, AfterEachBegins
    <2> QED
      BY <2>1, <2>2
  <1> HIDE DEF f
  <1>5. /\ SameHooks(groups, groups') /\ groups' \in Seq(Groups) /\ GroupsInv' /\ raising' \in BOOLEAN
        /\ TestOK(groups', hooks, f) /\ LastSettled(groups', hooks, f)
    BY <1>1, <1>2, <1>4, SameGroups, GroupsKept DEF TypeOK
  <1> QED
    BY <1>1, <1>4, <1>5, MovedStep

\* One more hook of a kind, or the last one of a group.
LEMMA PlaceRuns ==
    ASSUME TypeOK, NEW kind \in Kinds, NEW g \in DOMAIN groups, NEW h \in Nat \ {0}
    PROVE  /\ g \in Nat \ {0} /\ g <= Len(groups)
           /\ h <= Len(groups[g].hooks[kind]) =>
                 /\ h \in DOMAIN groups[g].hooks[kind]
                 /\ groups[g].hooks[kind][h] \in 1 .. Len(hooks)
                 /\ <<g, h>> \in PlacesOf(groups, kind)
           /\ ~(h <= Len(groups[g].hooks[kind])) =>
                 \A p \in PlacesOf(groups, kind) : p[2] > 0 /\ (p[1] = g => p[2] < h)
PROOF
  <1>1. /\ DOMAIN groups = 1 .. Len(groups) /\ Len(groups) \in Nat
        /\ \A m \in DOMAIN groups :
              /\ DOMAIN groups[m].hooks[kind] = 1 .. Len(groups[m].hooks[kind])
              /\ Len(groups[m].hooks[kind]) \in Nat
              /\ \A k \in DOMAIN groups[m].hooks[kind] : groups[m].hooks[kind][k] \in 1 .. Len(hooks)
    BY GroupsFields
  <1>2. \A p \in PlacesOf(groups, kind) : p[1] \in DOMAIN groups /\ p[2] \in 1 .. Len(groups[p[1]].hooks[kind])
    BY PlaceFields
  <1>3. \A k \in DOMAIN groups[g].hooks[kind] : <<g, k>> \in PlacesOf(groups, kind)
    BY PlaceFields
  <1>4. h <= Len(groups[g].hooks[kind]) => h \in DOMAIN groups[g].hooks[kind]
    BY <1>1
  <1>5. ASSUME NEW p \in PlacesOf(groups, kind), ~(h <= Len(groups[g].hooks[kind]))
        PROVE  p[2] > 0 /\ (p[1] = g => p[2] < h)
    <2>1. p[1] \in DOMAIN groups /\ p[2] \in 1 .. Len(groups[p[1]].hooks[kind])
          /\ Len(groups[p[1]].hooks[kind]) \in Nat /\ Len(groups[g].hooks[kind]) \in Nat
      BY <1>1, <1>2
    <2> QED
      BY <1>5, <2>1
  <1> QED
    BY <1>1, <1>3, <1>4, <1>5

\* The hook that a test calls.
LEMMA HookCalled ==
    ASSUME TypeOK, NEW kind \in {"before_all", "before_each", "after_each"}, NEW g \in DOMAIN groups, NEW h \in Nat \ {0},
           h \in DOMAIN groups[g].hooks[kind], groups[g].hooks[kind][h] \in 1 .. Len(hooks),
           kind = "before_all" => groups[g].admitted,
           NEW f, IsTest(f), f.at = kind, f.group = g, f.hook = h + 1
    PROVE  LET c == Hook(kind, groups[g].hooks[kind][h])
           IN /\ c \in Frames /\ c.kind = "code" /\ ~IsFile(c)
              /\ Admitted(groups, c) /\ Calling(groups, f, c)
PROOF
  <1> DEFINE id == groups[g].hooks[kind][h]
             c == Hook(kind, id)
  <1>1. id \in 0 .. Len(hooks) /\ Len(hooks) \in Nat
    BY GroupsFields
  <1>2. c = [kind |-> "code", of |-> kind, hook |-> id]
    BY DEF Hook
  <1>3. c \in Frames /\ c.kind = "code" /\ ~IsFile(c) /\ c.of = kind /\ c.hook = id
    <2> HIDE DEF id
    <2> QED
      BY <1>1, <1>2 DEF Frames, Kinds, IsFile
  <1>4. Admitted(groups, c)
    <2>1. Contains(groups[g].hooks[kind], id)
      BY DEF Contains
    <2> HIDE DEF c, id
    <2> QED
      BY <1>3, <2>1 DEF Admitted
  <1>5. Calling(groups, f, c)
    <2>1. f.hook - 1 = h
      OBVIOUS
    <2>2. c.hook = groups[f.group].hooks[f.at][f.hook - 1] /\ f.hook - 1 \in DOMAIN groups[f.group].hooks[f.at]
      BY <1>3, <2>1
    <2> HIDE DEF c
    <2> QED
      BY <1>3, <2>2 DEF Calling, IsTest, Looping
  <1> QED
    BY <1>3, <1>4, <1>5

\* An après_chaque hook called, or a group left behind, keeps the invariant.
LEMMA AfterEachStep ==
    ASSUME IInv, AfterEach
    PROVE  IInv'
PROOF
  <1> DEFINE g == Top.group
             P == PlacesOf(groups, "after_each")
             ids == groups[g].hooks["after_each"]
             place == <<g, Top.hook>>
  <1>1. /\ ~raising /\ stack # <<>> /\ Top.kind = "test" /\ Top.at = "after_each"
        /\ UNCHANGED <<raising, groups, abort, summary, hooks, opened, file, aggregate, status, stop, struck>>
    BY DEF AfterEach, At, testVars, fileVars
  <1>2. TypeOK /\ GroupsInv
    BY DEF IInv
  <1>3. /\ Top = TestAt(Top.at, g, Top.hook, Top.passed, Top.ran)
        /\ g \in Nat /\ Top.hook \in Nat \ {0} /\ Top.passed \in BOOLEAN /\ Top.ran \in Seq(Nat \X Nat)
        /\ AfterEachOK(groups, Top)
    BY <1>1, TestTop DEF TestOK
  <1>4. /\ SameHooks(groups, groups') /\ groups' \in Seq(Groups) /\ GroupsInv' /\ raising' \in BOOLEAN
    BY <1>1, <1>2, SameGroups, GroupsKept DEF TypeOK
  <1>5. DOMAIN groups = 1 .. Len(groups) /\ Len(groups) \in Nat /\ P \subseteq Nat \X Nat
    BY <1>2, GroupsFields, PlaceFields DEF Kinds
  <1>6. /\ g <= Len(groups) /\ Range(Top.ran) = Behind(P, place) /\ InOrder(Top.ran, Outwards)
    BY <1>3 DEF AfterEachOK
  <1>7. \/ g = 0 /\ stack' = Append(Front(stack), [Top EXCEPT !.at = "finish"])
        \/ /\ g # 0 /\ Top.hook <= Len(ids)
           /\ stack' = Append(Append(Front(stack), [Top EXCEPT !.hook = Top.hook + 1, !.ran = Append(Top.ran, place)]),
                              Hook("after_each", ids[Top.hook]))
        \/ /\ g # 0 /\ ~(Top.hook <= Len(ids))
           /\ stack' = Append(Front(stack), [Top EXCEPT !.group = g - 1, !.hook = 1])
    BY DEF AfterEach, RunsHook, HasHook, Calls, Goes
  <1> HIDE DEF P
  <1>8. CASE g = 0 /\ stack' = Append(Front(stack), [Top EXCEPT !.at = "finish"])
    <2> DEFINE f == Turns(Top, "finish")
    <2>1. stack' = Append(Front(stack), f)
      BY <1>8 DEF Turns
    <2> HIDE DEF f
    <2>2. f = TestAt("finish", g, Top.hook, Top.passed, Top.ran)
      BY <1>3, TestTurns DEF f
    <2>3. f \in Frames /\ IsTest(f) /\ f.at = "finish" /\ f.passed = Top.passed
      BY <1>3, <2>2 DEF Frames, IsTest, TestAt
    <2>4. TestOK(groups', hooks, f) /\ LastSettled(groups', hooks, f)
      BY <2>3 DEF TestOK, LastSettled
    <2> QED
      BY <1>1, <1>4, <2>1, <2>3, <2>4, MovedStep
  <1>9. CASE /\ g # 0 /\ Top.hook <= Len(ids)
             /\ stack' = Append(Append(Front(stack), [Top EXCEPT !.hook = Top.hook + 1, !.ran = Append(Top.ran, place)]),
                                Hook("after_each", ids[Top.hook]))
    <2> DEFINE f == Advances(Top, Top.hook + 1, Append(Top.ran, place))
               c == Hook("after_each", ids[Top.hook])
    <2>1. stack' = Append(Append(Front(stack), f), c)
      BY <1>9 DEF Advances
    <2> HIDE DEF f
    <2>2. /\ g \in DOMAIN groups /\ Top.hook \in DOMAIN ids /\ ids[Top.hook] \in 1 .. Len(hooks) /\ place \in P
      <3>1. g \in DOMAIN groups /\ "after_each" \in Kinds
        BY <1>3, <1>5, <1>6, <1>9 DEF Kinds
      <3> QED
        BY <1>2, <1>3, <1>9, <3>1, PlaceRuns DEF P
    <2>3. /\ Append(Top.ran, place) \in Seq(Nat \X Nat) /\ Range(Append(Top.ran, place)) = Range(Top.ran) \cup {place}
          /\ InOrder(Append(Top.ran, place), Outwards)
      BY <1>3, <1>5, <1>6, <2>2, NotedOutwards
    <2>4. f = TestAt("after_each", g, Top.hook + 1, Top.passed, Append(Top.ran, place))
      BY <1>1, <1>3, TestAdvances DEF f
    <2>5. /\ f \in Frames /\ IsTest(f) /\ f.at = "after_each" /\ f.group = g /\ f.hook = Top.hook + 1
          /\ f.passed = Top.passed /\ f.ran = Append(Top.ran, place)
      <3> DEFINE r == Append(Top.ran, place)
      <3>1. r \in Seq(Nat \X Nat) /\ Top.hook + 1 \in Nat \ {0} /\ g \in Nat
        BY <1>3, <2>2, <2>3
      <3> HIDE DEF place, r
      <3>2. f = TestAt("after_each", g, Top.hook + 1, Top.passed, r)
        BY <2>4 DEF r
      <3> HIDE DEF f
      <3>3. f \in Frames
        BY <1>3, <3>1, <3>2, TestFrame
      <3>4. IsTest(f) /\ f.at = "after_each" /\ f.group = g /\ f.hook = Top.hook + 1 /\ f.passed = Top.passed /\ f.ran = r
        BY <3>2 DEF IsTest, TestAt
      <3> QED
        BY <3>3, <3>4 DEF r
    <2>6. AfterEachOK(groups, f)
      <3>1. Behind(P, <<g, Top.hook + 1>>) = Behind(P, place) \cup {place}
        <4> DEFINE k == Top.hook
        <4>1. g \in Nat /\ k \in Nat /\ <<g, k>> \in P /\ place = <<g, k>>
          BY <1>3, <2>2
        <4> HIDE DEF g, k, place
        <4>2. Behind(P, <<g, k + 1>>) = Behind(P, <<g, k>>) \cup {<<g, k>>}
          BY <1>5, <4>1, OutwardsHook
        <4> QED
          BY <4>1, <4>2, Zenon DEF k
      <3>2. Range(f.ran) = Behind(P, <<g, Top.hook + 1>>)
        BY <1>6, <2>3, <2>5, <3>1
      <3>3. Range(f.ran) = Behind(P, <<f.group, f.hook>>)
        BY <2>5, <3>2
      <3>4. InOrder(f.ran, Outwards)
        BY <2>3, <2>5
      <3> QED
        BY <1>6, <2>5, <3>3, <3>4 DEF AfterEachOK, P
    <2>7. TestOK(groups, hooks, f)
      BY <2>5, <2>6 DEF TestOK
    <2>8. c \in Frames /\ c.kind = "code" /\ ~IsFile(c) /\ Admitted(groups, c) /\ Calling(groups, f, c)
      BY <1>2, <1>3, <2>2, <2>5, HookCalled
    <2> HIDE DEF c
    <2> QED
      BY <1>1, <2>1, <2>5, <2>7, <2>8, CalledStep
  <1>10. CASE /\ g # 0 /\ ~(Top.hook <= Len(ids))
              /\ stack' = Append(Front(stack), [Top EXCEPT !.group = g - 1, !.hook = 1])
    <2> DEFINE f == Enters(Top, g - 1, 1)
    <2>1. stack' = Append(Front(stack), f)
      BY <1>10 DEF Enters
    <2> HIDE DEF f
    <2>2. f = TestAt("after_each", g - 1, 1, Top.passed, Top.ran)
      BY <1>1, <1>3, TestEnters DEF f
    <2>3. /\ f \in Frames /\ IsTest(f) /\ f.at = "after_each" /\ f.group = g - 1 /\ f.hook = 1
          /\ f.passed = Top.passed /\ f.ran = Top.ran
      BY <1>3, <1>10, <2>2 DEF Frames, IsTest, TestAt
    <2>4. \A p \in P : p[2] > 0 /\ (p[1] = g => p[2] < Top.hook)
      <3>1. g \in DOMAIN groups /\ "after_each" \in Kinds
        BY <1>3, <1>5, <1>6, <1>10 DEF Kinds
      <3> QED
        BY <1>2, <1>3, <1>10, <3>1, PlaceRuns DEF P
    <2>5. Behind(P, <<g - 1, 1>>) = Behind(P, place)
      <3> DEFINE k == Top.hook
      <3>1. g \in Nat /\ k \in Nat /\ g > 0 /\ place = <<g, k>>
        BY <1>3, <1>10
      <3>2. \A p \in P : p[2] > 0 /\ (p[1] = g => p[2] < k)
        BY <2>4
      <3> HIDE DEF g, k, place
      <3>3. Behind(P, <<g - 1, 1>>) = Behind(P, <<g, k>>)
        BY <1>5, <3>1, <3>2, OutwardsGroup
      <3> QED
        BY <3>1, <3>3, Zenon
    <2>6. AfterEachOK(groups, f)
      <3>1. Range(f.ran) = Behind(P, <<f.group, f.hook>>)
        BY <1>6, <2>3, <2>5
      <3>2. InOrder(f.ran, Outwards) /\ f.group <= Len(groups)
        BY <1>3, <1>5, <1>6, <2>3
      <3> QED
        BY <3>1, <3>2 DEF AfterEachOK, P
    <2>7. TestOK(groups', hooks, f) /\ LastSettled(groups', hooks, f)
      BY <1>1, <2>3, <2>6 DEF TestOK, LastSettled
    <2> QED
      BY <1>1, <1>4, <2>1, <2>3, <2>7, MovedStep
  <1> QED
    BY <1>7, <1>8, <1>9, <1>10

\* An avant_chaque hook called, a group passed or the body begun keeps the
\* invariant.
LEMMA BeforeEachStep ==
    ASSUME IInv, BeforeEach
    PROVE  IInv'
PROOF
  <1> DEFINE g == Top.group
             P == PlacesOf(groups, "before_each")
             ids == groups[g].hooks["before_each"]
             place == <<g, Top.hook>>
  <1>1. /\ ~raising /\ stack # <<>> /\ Top.kind = "test" /\ Top.at = "before_each"
        /\ UNCHANGED <<raising, groups, abort, summary, hooks, opened, file, aggregate, status, stop, struck>>
    BY DEF BeforeEach, At, testVars, fileVars
  <1>2. TypeOK /\ GroupsInv
    BY DEF IInv
  <1>3. /\ Top = TestAt(Top.at, g, Top.hook, Top.passed, Top.ran)
        /\ g \in Nat /\ Top.hook \in Nat \ {0} /\ Top.passed \in BOOLEAN /\ Top.ran \in Seq(Nat \X Nat)
        /\ BeforeEachOK(groups, hooks, Top)
    BY <1>1, TestTop DEF TestOK
  <1>4. /\ SameHooks(groups, groups') /\ groups' \in Seq(Groups) /\ GroupsInv' /\ raising' \in BOOLEAN
    BY <1>1, <1>2, SameGroups, GroupsKept DEF TypeOK
  <1>5. DOMAIN groups = 1 .. Len(groups) /\ Len(groups) \in Nat /\ P \subseteq Nat \X Nat
    BY <1>2, GroupsFields, PlaceFields DEF Kinds
  <1>6. /\ g > 0 /\ \A m \in DOMAIN groups : Completes(groups, hooks, m)
        /\ Range(Top.ran) = Before(P, place) /\ InOrder(Top.ran, Inwards)
    BY <1>3 DEF BeforeEachOK
  <1>7. \/ g > Len(groups) /\ stack' = Append(Append(Front(stack), [Top EXCEPT !.at = "body"]), Code("test"))
        \/ /\ ~(g > Len(groups)) /\ Top.hook <= Len(ids)
           /\ stack' = Append(Append(Front(stack), [Top EXCEPT !.hook = Top.hook + 1, !.ran = Append(Top.ran, place)]),
                              Hook("before_each", ids[Top.hook]))
        \/ /\ ~(g > Len(groups)) /\ ~(Top.hook <= Len(ids))
           /\ stack' = Append(Front(stack), [Top EXCEPT !.group = g + 1, !.hook = 1])
    BY DEF BeforeEach, RunsHook, HasHook, Calls, Goes
  <1> HIDE DEF P
  <1>8. CASE g > Len(groups) /\ stack' = Append(Append(Front(stack), [Top EXCEPT !.at = "body"]), Code("test"))
    <2> DEFINE f == Turns(Top, "body")
               c == Code("test")
    <2>1. stack' = Append(Append(Front(stack), f), c)
      BY <1>8 DEF Turns
    <2> HIDE DEF f
    <2>2. f = TestAt("body", g, Top.hook, Top.passed, Top.ran)
      BY <1>3, TestTurns DEF f
    <2>3. f \in Frames /\ IsTest(f) /\ f.at = "body" /\ f.passed = Top.passed
      BY <1>3, <2>2 DEF Frames, IsTest, TestAt
    <2>4. TestOK(groups, hooks, f)
      BY <2>3 DEF TestOK
    <2>5. c \in Frames /\ c.kind = "code" /\ ~IsFile(c) /\ Admitted(groups, c) /\ Calling(groups, f, c)
      <3>1. c = [kind |-> "code", of |-> "test", hook |-> 0] /\ 0 \in 0 .. Len(hooks)
        BY <1>2, GroupsFields DEF Code
      <3>2. c \in Frames /\ c.kind = "code" /\ c.of = "test"
        BY <3>1 DEF Frames
      <3> HIDE DEF c
      <3> QED
        BY <2>3, <3>2 DEF Calling, Admitted, IsFile, IsTest
    <2> HIDE DEF c
    <2> QED
      BY <1>1, <2>1, <2>3, <2>4, <2>5, CalledStep
  <1>9. CASE /\ ~(g > Len(groups)) /\ Top.hook <= Len(ids)
             /\ stack' = Append(Append(Front(stack), [Top EXCEPT !.hook = Top.hook + 1, !.ran = Append(Top.ran, place)]),
                                Hook("before_each", ids[Top.hook]))
    <2> DEFINE f == Advances(Top, Top.hook + 1, Append(Top.ran, place))
               c == Hook("before_each", ids[Top.hook])
    <2>1. stack' = Append(Append(Front(stack), f), c)
      BY <1>9 DEF Advances
    <2> HIDE DEF f
    <2>2. /\ g \in DOMAIN groups /\ Top.hook \in DOMAIN ids /\ ids[Top.hook] \in 1 .. Len(hooks) /\ place \in P
      <3>1. g \in DOMAIN groups /\ "before_each" \in Kinds
        BY <1>3, <1>5, <1>6, <1>9 DEF Kinds
      <3> QED
        BY <1>2, <1>3, <1>9, <3>1, PlaceRuns DEF P
    <2>3. /\ Append(Top.ran, place) \in Seq(Nat \X Nat) /\ Range(Append(Top.ran, place)) = Range(Top.ran) \cup {place}
          /\ InOrder(Append(Top.ran, place), Inwards)
      BY <1>3, <1>5, <1>6, <2>2, NotedInwards
    <2>4. f = TestAt("before_each", g, Top.hook + 1, Top.passed, Append(Top.ran, place))
      BY <1>1, <1>3, TestAdvances DEF f
    <2>5. /\ f \in Frames /\ IsTest(f) /\ f.at = "before_each" /\ f.group = g /\ f.hook = Top.hook + 1
          /\ f.passed = Top.passed /\ f.ran = Append(Top.ran, place)
      <3> DEFINE r == Append(Top.ran, place)
      <3>1. r \in Seq(Nat \X Nat) /\ Top.hook + 1 \in Nat \ {0} /\ g \in Nat
        BY <1>3, <2>2, <2>3
      <3> HIDE DEF place, r
      <3>2. f = TestAt("before_each", g, Top.hook + 1, Top.passed, r)
        BY <2>4 DEF r
      <3> HIDE DEF f
      <3>3. f \in Frames
        BY <1>3, <3>1, <3>2, TestFrame
      <3>4. IsTest(f) /\ f.at = "before_each" /\ f.group = g /\ f.hook = Top.hook + 1 /\ f.passed = Top.passed /\ f.ran = r
        BY <3>2 DEF IsTest, TestAt
      <3> QED
        BY <3>3, <3>4 DEF r
    <2>6. BeforeEachOK(groups, hooks, f)
      <3>1. Before(P, <<g, Top.hook + 1>>) = Before(P, place) \cup {place}
        <4> DEFINE k == Top.hook
        <4>1. g \in Nat /\ k \in Nat /\ <<g, k>> \in P /\ place = <<g, k>>
          BY <1>3, <2>2
        <4> HIDE DEF g, k, place
        <4>2. Before(P, <<g, k + 1>>) = Before(P, <<g, k>>) \cup {<<g, k>>}
          BY <1>5, <4>1, InwardsHook
        <4> QED
          BY <4>1, <4>2, Zenon DEF k
      <3>2. Range(f.ran) = Before(P, <<g, Top.hook + 1>>)
        BY <1>6, <2>3, <2>5, <3>1
      <3>3. Range(f.ran) = Before(P, <<f.group, f.hook>>)
        BY <2>5, <3>2
      <3>4. InOrder(f.ran, Inwards)
        BY <2>3, <2>5
      <3> QED
        BY <1>6, <2>5, <3>3, <3>4 DEF BeforeEachOK, P
    <2>7. TestOK(groups, hooks, f)
      BY <2>5, <2>6 DEF TestOK
    <2>8. c \in Frames /\ c.kind = "code" /\ ~IsFile(c) /\ Admitted(groups, c) /\ Calling(groups, f, c)
      BY <1>2, <1>3, <2>2, <2>5, HookCalled
    <2> HIDE DEF c
    <2> QED
      BY <1>1, <2>1, <2>5, <2>7, <2>8, CalledStep
  <1>10. CASE /\ ~(g > Len(groups)) /\ ~(Top.hook <= Len(ids))
              /\ stack' = Append(Front(stack), [Top EXCEPT !.group = g + 1, !.hook = 1])
    <2> DEFINE f == Enters(Top, g + 1, 1)
    <2>1. stack' = Append(Front(stack), f)
      BY <1>10 DEF Enters
    <2> HIDE DEF f
    <2>2. f = TestAt("before_each", g + 1, 1, Top.passed, Top.ran)
      BY <1>1, <1>3, TestEnters DEF f
    <2>3. /\ f \in Frames /\ IsTest(f) /\ f.at = "before_each" /\ f.group = g + 1 /\ f.hook = 1
          /\ f.passed = Top.passed /\ f.ran = Top.ran
      BY <1>3, <1>10, <2>2 DEF Frames, IsTest, TestAt
    <2>4. \A p \in P : p[2] > 0 /\ (p[1] = g => p[2] < Top.hook)
      <3>1. g \in DOMAIN groups /\ "before_each" \in Kinds
        BY <1>3, <1>5, <1>6, <1>10 DEF Kinds
      <3> QED
        BY <1>2, <1>3, <1>10, <3>1, PlaceRuns DEF P
    <2>5. Before(P, <<g + 1, 1>>) = Before(P, place)
      <3> DEFINE k == Top.hook
      <3>1. g \in Nat /\ k \in Nat /\ place = <<g, k>>
        BY <1>3, <1>10
      <3>2. \A p \in P : p[2] > 0 /\ (p[1] = g => p[2] < k)
        BY <2>4
      <3> HIDE DEF g, k, place
      <3>3. Before(P, <<g + 1, 1>>) = Before(P, <<g, k>>)
        BY <1>5, <3>1, <3>2, InwardsGroup
      <3> QED
        BY <3>1, <3>3, Zenon
    <2>6. BeforeEachOK(groups, hooks, f)
      <3>1. Range(f.ran) = Before(P, <<f.group, f.hook>>)
        BY <1>6, <2>3, <2>5
      <3>2. InOrder(f.ran, Inwards) /\ f.group > 0
        BY <1>3, <1>5, <1>6, <2>3
      <3> QED
        BY <1>6, <3>1, <3>2 DEF BeforeEachOK, P
    <2>7. TestOK(groups', hooks, f) /\ LastSettled(groups', hooks, f)
      BY <1>1, <2>3, <2>6 DEF TestOK, LastSettled
    <2> QED
      BY <1>1, <1>4, <2>1, <2>3, <2>7, MovedStep
  <1> QED
    BY <1>7, <1>8, <1>9, <1>10

\* Before any hook has been run for a test.
LEMMA BeforeEachBegins ==
    ASSUME TypeOK, NEW f, f.at = "before_each", f.group = 1, f.hook = 1, f.ran = <<>>,
           \A g \in DOMAIN groups : Completes(groups, hooks, g)
    PROVE  TestOK(groups, hooks, f) /\ LastSettled(groups, hooks, f)
PROOF
  <1> DEFINE P == PlacesOf(groups, "before_each")
  <1>1. P \subseteq Nat \X Nat /\ \A p \in P : p[1] > 0 /\ p[2] > 0
    <2>1. Len(groups) \in Nat /\ \A g \in DOMAIN groups : Len(groups[g].hooks["before_each"]) \in Nat
      BY GroupsFields DEF Kinds
    <2>2. /\ P \subseteq Nat \X Nat
          /\ \A p \in P : p[1] \in 1 .. Len(groups) /\ p[1] \in DOMAIN groups
                          /\ p[2] \in 1 .. Len(groups[p[1]].hooks["before_each"])
      BY PlaceFields DEF Kinds
    <2> QED
      BY <2>1, <2>2
  <1> HIDE DEF P
  <1>2. Before(P, <<1, 1>>) = {}
    <2>1. 1 \in Nat
      OBVIOUS
    <2> QED
      BY <1>1, <2>1, InwardsStart
  <1>3. Range(f.ran) = {}
    BY DEF Range
  <1>4. InOrder(f.ran, Inwards)
    BY DEF InOrder
  <1>5. BeforeEachOK(groups, hooks, f)
    <2>1. <<f.group, f.hook>> = <<1, 1>> /\ f.group > 0
      OBVIOUS
    <2>2. Range(f.ran) = Before(P, <<f.group, f.hook>>)
      BY <1>2, <1>3, <2>1, Zenon
    <2> QED
      BY <1>4, <2>1, <2>2 DEF BeforeEachOK, P
  <1> QED
    BY <1>5 DEF TestOK, LastSettled

\* The group that the test has come to: the hooks before the next have completed.
LEMMA HooksSoFar ==
    ASSUME IInv, ~raising, stack # <<>>, Top.kind = "test", Top.at = "before_all", Top.group \in DOMAIN groups,
           NEW k \in DOMAIN groups[Top.group].hooks["before_all"], k < Top.hook
    PROVE  Settled(hooks, groups[Top.group].hooks["before_all"][k])
PROOF
  <1>1. BeforeAllOK(groups, hooks, Top) /\ LastSettled(groups, hooks, Top) /\ Top.hook \in Nat
    BY TestTop DEF TestOK
  <1>2. k \in Nat
    BY GroupsFields DEF IInv, Kinds
  <1>3. CASE k < Top.hook - 1
    BY <1>1, <1>3 DEF BeforeAllOK
  <1>4. CASE k = Top.hook - 1
    BY <1>1, <1>4 DEF LastSettled
  <1> QED
    BY <1>1, <1>2, <1>3, <1>4

\* A group is marked.
LEMMA GroupMarked ==
    ASSUME TypeOK, GroupsInv, NEW g \in DOMAIN groups, groups[g].admitted, Completes(groups, hooks, g),
           groups' = [groups EXCEPT ![g].before_all_ran = TRUE], hooks' = hooks
    PROVE  groups' \in Seq(Groups) /\ SameHooks(groups, groups') /\ GroupsInv'
PROOF
  <1> DEFINE new == [groups[g] EXCEPT !.before_all_ran = TRUE]
  <1>1. groups \in Seq(Groups) /\ DOMAIN groups = 1 .. Len(groups) /\ groups[g] \in Groups /\ HooksOf(groups, hooks)
    BY GroupsFields DEF TypeOK
  <1>2. new \in Groups /\ new.hooks = groups[g].hooks /\ new.admitted = groups[g].admitted
    BY <1>1 DEF Groups
  <1>3. groups' = [groups EXCEPT ![g] = new]
    BY Zenon
  <1> HIDE DEF new
  <1>4. groups' \in Seq(Groups) /\ Len(groups') = Len(groups)
    <2>1. ASSUME NEW S, NEW s \in Seq(S), NEW e \in S, NEW i \in 1 .. Len(s)
          PROVE  [s EXCEPT ![i] = e] \in Seq(S) /\ Len([s EXCEPT ![i] = e]) = Len(s)
      BY <2>1, ExceptSeq
    <2>2. g \in 1 .. Len(groups)
      BY <1>1
    <2>3. [groups EXCEPT ![g] = new] \in Seq(Groups) /\ Len([groups EXCEPT ![g] = new]) = Len(groups)
      BY <1>1, <1>2, <2>1, <2>2
    <2> QED
      BY <1>3, <2>3
  <1>5. /\ DOMAIN groups' = DOMAIN groups
        /\ groups'[g] = new /\ \A m \in DOMAIN groups : m # g => groups'[m] = groups[m]
    BY <1>1, <1>3
  <1>6. SameHooks(groups, groups')
    BY <1>2, <1>4, <1>5 DEF SameHooks
  <1>7. ASSUME NEW m \in DOMAIN groups', groups'[m].before_all_ran
        PROVE  groups'[m].admitted /\ Completes(groups', hooks', m)
    <2>1. m \in DOMAIN groups /\ groups[m].admitted /\ Completes(groups, hooks, m)
      BY <1>5, <1>7 DEF GroupsInv, GroupsOK
    <2>2. Completes(groups', hooks', m)
      BY <1>1, <1>6, <2>1, SameGroups, CompletesGrows
    <2> QED
      BY <1>6, <2>1, <2>2 DEF SameHooks
  <1> QED
    BY <1>4, <1>6, <1>7 DEF GroupsInv, GroupsOK

\* An avant_tout hook called, or a group marked, keeps the invariant.
LEMMA BeforeAllStep ==
    ASSUME IInv, BeforeAll
    PROVE  IInv'
PROOF
  <1> DEFINE g == Top.group
             ids == groups[g].hooks["before_all"]
             place == <<g, Top.hook>>
  <1>1. /\ ~raising /\ stack # <<>> /\ Top.kind = "test" /\ Top.at = "before_all"
        /\ UNCHANGED <<raising, abort, summary, hooks, opened, file, aggregate, status, stop, struck>>
    BY DEF BeforeAll, At, fileVars
  <1>2. TypeOK /\ GroupsInv
    BY DEF IInv
  <1>3. /\ Top = TestAt(Top.at, g, Top.hook, Top.passed, Top.ran)
        /\ g \in Nat /\ Top.hook \in Nat \ {0} /\ Top.passed \in BOOLEAN /\ Top.ran \in Seq(Nat \X Nat)
        /\ g > 0 /\ BeforeAllOK(groups, hooks, Top)
    BY <1>1, TestTop DEF TestOK
  <1>4. DOMAIN groups = 1 .. Len(groups) /\ Len(groups) \in Nat /\ raising' \in BOOLEAN
    BY <1>1, <1>2, GroupsFields DEF TypeOK
  <1>5. \/ /\ g > Len(groups) /\ groups' = groups
           /\ stack' = Append(Front(stack), [Top EXCEPT !.at = "before_each", !.group = 1, !.hook = 1, !.ran = <<>>])
        \/ /\ ~(g > Len(groups)) /\ Top.hook <= Len(ids) /\ groups' = groups
           /\ stack' = Append(Append(Front(stack), [Top EXCEPT !.hook = Top.hook + 1, !.ran = Append(Top.ran, place)]),
                              Hook("before_all", ids[Top.hook]))
        \/ /\ ~(g > Len(groups)) /\ (groups[g].before_all_ran \/ ~(Top.hook <= Len(ids)))
           /\ stack' = Append(Front(stack), [Top EXCEPT !.group = g + 1, !.hook = 1])
           /\ groups' = [groups EXCEPT ![g].before_all_ran = TRUE]
    BY DEF BeforeAll, RunsHook, HasHook, Calls, Goes
  <1>6. groups' = groups => /\ SameHooks(groups, groups') /\ groups' \in Seq(Groups) /\ GroupsInv'
    BY <1>1, <1>2, SameGroups, GroupsKept DEF TypeOK
  <1>7. CASE /\ g > Len(groups) /\ groups' = groups
             /\ stack' = Append(Front(stack), [Top EXCEPT !.at = "before_each", !.group = 1, !.hook = 1, !.ran = <<>>])
    <2> DEFINE f == Resumes(Top, "before_each", 1, 1, <<>>)
    <2>1. stack' = Append(Front(stack), f)
      BY <1>7 DEF Resumes
    <2> HIDE DEF f
    <2>2. f = TestAt("before_each", 1, 1, Top.passed, <<>>)
      BY <1>3, TestResumes DEF f
    <2>3. /\ f \in Frames /\ IsTest(f) /\ f.at = "before_each" /\ f.group = 1 /\ f.hook = 1
          /\ f.passed = Top.passed /\ f.ran = <<>>
      <3>1. <<>> \in Seq(Nat \X Nat) /\ 1 \in Nat \ {0}
        BY EmptySeq
      <3> QED
        BY <1>3, <2>2, <3>1 DEF Frames, IsTest, TestAt
    <2>4. \A m \in DOMAIN groups : Completes(groups, hooks, m)
      BY <1>3, <1>4, <1>7 DEF BeforeAllOK
    <2>5. TestOK(groups', hooks, f) /\ LastSettled(groups', hooks, f)
      BY <1>2, <1>7, <2>3, <2>4, BeforeEachBegins
    <2> QED
      BY <1>1, <1>4, <1>6, <1>7, <2>1, <2>3, <2>5, MovedStep
  <1>8. CASE /\ ~(g > Len(groups)) /\ Top.hook <= Len(ids) /\ groups' = groups
             /\ stack' = Append(Append(Front(stack), [Top EXCEPT !.hook = Top.hook + 1, !.ran = Append(Top.ran, place)]),
                                Hook("before_all", ids[Top.hook]))
    <2> DEFINE f == Advances(Top, Top.hook + 1, Append(Top.ran, place))
               c == Hook("before_all", ids[Top.hook])
    <2>1. stack' = Append(Append(Front(stack), f), c)
      BY <1>8 DEF Advances
    <2> HIDE DEF f
    <2>2. /\ g \in DOMAIN groups /\ Top.hook \in DOMAIN ids /\ ids[Top.hook] \in 1 .. Len(hooks)
      <3>1. g \in DOMAIN groups /\ "before_all" \in Kinds
        BY <1>3, <1>4, <1>8 DEF Kinds
      <3> QED
        BY <1>2, <1>3, <1>8, <3>1, PlaceRuns
    <2>3. Append(Top.ran, place) \in Seq(Nat \X Nat)
      <3>1. place \in Nat \X Nat
        BY <1>3
      <3> QED
        BY <1>3, <3>1, AppendProperties
    <2>4. f = TestAt("before_all", g, Top.hook + 1, Top.passed, Append(Top.ran, place))
      BY <1>1, <1>3, TestAdvances DEF f
    <2>5. /\ f \in Frames /\ IsTest(f) /\ f.at = "before_all" /\ f.group = g /\ f.hook = Top.hook + 1
          /\ f.passed = Top.passed
      <3> DEFINE r == Append(Top.ran, place)
      <3>1. r \in Seq(Nat \X Nat) /\ Top.hook + 1 \in Nat \ {0}
        BY <1>3, <2>3
      <3> HIDE DEF place, r
      <3>2. f = TestAt("before_all", g, Top.hook + 1, Top.passed, r)
        BY <2>4 DEF r
      <3> HIDE DEF f
      <3>3. f \in Frames
        BY <1>3, <3>1, <3>2, TestFrame
      <3> QED
        BY <3>2, <3>3 DEF IsTest, TestAt
    <2>6. BeforeAllOK(groups, hooks, f) /\ groups[g].admitted
      <3>1. ASSUME NEW k \in DOMAIN ids, k < f.hook - 1
            PROVE  Settled(hooks, ids[k])
        <4>1. k < Top.hook
          BY <1>3, <2>5, <3>1
        <4> QED
          BY <1>1, <2>2, <4>1, HooksSoFar
      <3> QED
        BY <1>3, <2>2, <2>5, <3>1 DEF BeforeAllOK
    <2>7. TestOK(groups, hooks, f)
      BY <1>3, <2>5, <2>6 DEF TestOK
    <2>8. c \in Frames /\ c.kind = "code" /\ ~IsFile(c) /\ Admitted(groups, c) /\ Calling(groups, f, c)
      BY <1>2, <1>3, <2>2, <2>5, <2>6, HookCalled
    <2> HIDE DEF c
    <2> QED
      BY <1>1, <1>8, <2>1, <2>5, <2>7, <2>8, CalledStep
  <1>9. CASE /\ ~(g > Len(groups)) /\ (groups[g].before_all_ran \/ ~(Top.hook <= Len(ids)))
             /\ stack' = Append(Front(stack), [Top EXCEPT !.group = g + 1, !.hook = 1])
             /\ groups' = [groups EXCEPT ![g].before_all_ran = TRUE]
    <2> DEFINE f == Enters(Top, g + 1, 1)
    <2>1. stack' = Append(Front(stack), f)
      BY <1>9 DEF Enters
    <2> HIDE DEF f
    <2>2. f = TestAt("before_all", g + 1, 1, Top.passed, Top.ran)
      BY <1>1, <1>3, TestEnters DEF f
    <2>3. /\ f \in Frames /\ IsTest(f) /\ f.at = "before_all" /\ f.group = g + 1 /\ f.hook = 1
          /\ f.passed = Top.passed
      BY <1>3, <2>2 DEF Frames, IsTest, TestAt
    <2>4. g \in DOMAIN groups /\ groups[g].admitted
      BY <1>3, <1>4, <1>9 DEF BeforeAllOK
    <2>5. Completes(groups, hooks, g)
      <3>1. CASE groups[g].before_all_ran
        BY <1>2, <2>4, <3>1 DEF GroupsInv, GroupsOK
      <3>2. CASE ~(Top.hook <= Len(ids))
        <4>1. ASSUME NEW k \in DOMAIN ids
              PROVE  Settled(hooks, ids[k])
          <5>1. k \in 1 .. Len(ids) /\ Len(ids) \in Nat
            BY <1>2, <2>4, GroupsFields DEF Kinds
          <5>2. k < Top.hook
            BY <1>3, <3>2, <5>1
          <5> QED
            BY <1>1, <2>4, <5>2, HooksSoFar
        <4> QED
          BY <4>1 DEF Completes
      <3> QED
        BY <1>9, <3>1, <3>2
    <2>6. groups' \in Seq(Groups) /\ SameHooks(groups, groups') /\ GroupsInv'
      BY <1>1, <1>2, <1>9, <2>4, <2>5, GroupMarked
    <2>7. BeforeAllOK(groups', hooks, f)
      <3>1. \A m \in DOMAIN groups' : groups'[m].admitted
        BY <1>3, <2>6 DEF SameHooks, BeforeAllOK
      <3>2. ASSUME NEW m \in DOMAIN groups', m < f.group
            PROVE  Completes(groups', hooks, m)
        <4>1. m \in DOMAIN groups
          BY <2>6 DEF SameHooks
        <4>2. Completes(groups, hooks, m)
          <5>1. CASE m = g
            BY <2>5, <5>1
          <5>2. CASE m < g
            BY <1>3, <4>1, <5>2 DEF BeforeAllOK
          <5> QED
            BY <1>3, <1>4, <2>3, <3>2, <4>1, <5>1, <5>2
        <4>3. HooksOf(groups, hooks) /\ MoreSettled(hooks, hooks)
          BY <1>2, GroupsFields DEF MoreSettled
        <4> QED
          BY <2>6, <4>1, <4>2, <4>3, CompletesGrows
      <3>3. ASSUME f.group \in DOMAIN groups', NEW k \in DOMAIN groups'[f.group].hooks["before_all"], k < f.hook - 1
            PROVE  FALSE
        <4>1. f.group \in DOMAIN groups /\ k \in DOMAIN groups[f.group].hooks["before_all"]
          BY <2>6, <3>3 DEF SameHooks
        <4>2. k \in 1 .. Len(groups[f.group].hooks["before_all"])
          BY <1>2, <4>1, GroupsFields DEF Kinds
        <4> QED
          BY <2>3, <3>3, <4>2
      <3> QED
        BY <3>1, <3>2, <3>3 DEF BeforeAllOK
    <2>8. LastSettled(groups', hooks, f)
      <3>1. ASSUME f.group \in DOMAIN groups', f.hook - 1 \in DOMAIN groups'[f.group].hooks["before_all"]
            PROVE  FALSE
        <4>1. f.group \in DOMAIN groups /\ 0 \in DOMAIN groups[f.group].hooks["before_all"]
          BY <2>3, <2>6, <3>1 DEF SameHooks
        <4>2. 0 \in 1 .. Len(groups[f.group].hooks["before_all"])
          BY <1>2, <4>1, GroupsFields DEF Kinds
        <4> QED
          BY <4>2
      <3> QED
        BY <3>1 DEF LastSettled
    <2>9. TestOK(groups', hooks, f)
      BY <1>3, <2>3, <2>7 DEF TestOK
    <2> QED
      BY <1>1, <1>4, <2>1, <2>3, <2>6, <2>8, <2>9, MovedStep
  <1> QED
    BY <1>5, <1>7, <1>8, <1>9


\* Every group that is open lets a test through.
LEMMA GroupsAdmitted ==
    ASSUME TypeOK, GroupsInv, groups' = [g \in DOMAIN groups |-> [groups[g] EXCEPT !.admitted = TRUE]],
           hooks' = hooks
    PROVE  /\ groups' \in Seq(Groups) /\ Len(groups') = Len(groups) /\ SameHooks(groups, groups') /\ GroupsInv'
           /\ \A g \in DOMAIN groups' : groups'[g].admitted
PROOF
  <1>1. /\ DOMAIN groups = 1 .. Len(groups) /\ Len(groups) \in Nat /\ DOMAIN groups' = DOMAIN groups
        /\ \A g \in DOMAIN groups : groups[g] \in Groups
    BY GroupsFields
  <1>2. ASSUME NEW g \in DOMAIN groups
        PROVE  /\ groups'[g] \in Groups /\ groups'[g].hooks = groups[g].hooks /\ groups'[g].admitted
               /\ groups'[g].before_all_ran = groups[g].before_all_ran
    <2>1. groups'[g] = [groups[g] EXCEPT !.admitted = TRUE] /\ groups[g] \in Groups
      BY <1>1
    <2> QED
      BY <2>1 DEF Groups
  <1>3. groups' \in Seq(Groups) /\ Len(groups') = Len(groups)
    <2>1. groups' = [g \in 1 .. Len(groups) |-> groups'[g]] /\ groups' \in [1 .. Len(groups) -> Groups]
      BY <1>1, <1>2
    <2>2. groups' \in Seq(Groups)
      BY <1>1, <2>1, SeqDef
    <2>3. Len(groups') \in Nat /\ DOMAIN groups' = 1 .. Len(groups')
      BY <2>2, LenProperties
    <2> QED
      BY <1>1, <2>2, <2>3
  <1>4. SameHooks(groups, groups')
    BY <1>1, <1>2, <1>3 DEF SameHooks
  <1>5. GroupsInv'
    BY <1>2, <1>4, GroupsKept, SameGroups
  <1> QED
    BY <1>1, <1>2, <1>3, <1>4, <1>5

\* A test that starts keeps the invariant.
LEMMA TestStep ==
    ASSUME IInv, Test
    PROVE  IInv'
PROOF
  <1>1. /\ ~raising /\ stack # <<>> /\ Top.kind = "code" /\ stack' = Append(stack, Case)
        /\ groups' = [g \in DOMAIN groups |-> [groups[g] EXCEPT !.admitted = TRUE]]
        /\ UNCHANGED <<raising, abort, summary, hooks, opened, file, aggregate, status, stop, struck>>
    BY DEF Test, Running, fileVars
  <1>2. TypeOK /\ OutcomeInv /\ GroupsInv
    BY DEF IInv
  <1>3. /\ groups' \in Seq(Groups) /\ Len(groups') = Len(groups) /\ SameHooks(groups, groups') /\ GroupsInv'
        /\ \A g \in DOMAIN groups' : groups'[g].admitted
        /\ Frames' = Frames /\ Groups' = Groups /\ MoreSettled(hooks, hooks')
    BY <1>1, <1>2, GroupsAdmitted, SameTypes, SameGroups
  <1>4. /\ DOMAIN groups' = 1 .. Len(groups') /\ Len(groups') \in Nat
        /\ stack \in Seq(Frames) /\ Len(stack) \in Nat \ {0} /\ Top = stack[Len(stack)]
        /\ Len(groups) = Cardinality(Opened(stack))
    BY <1>1, <1>2, <1>3, LenProperties, TopFields DEF TypeOK, Opened
  <1>5. /\ Case.kind = "test" /\ Case.at = "before_all" /\ Case.group = 1 /\ Case.hook = 1 /\ Case.passed
        /\ Case \in Frames
    <2>1. <<>> \in Seq(Nat \X Nat)
      BY EmptySeq
    <2> QED
      BY <2>1 DEF Case, Frames
  <1>6. TestOK(groups', hooks', Case) /\ LastSettled(groups', hooks', Case)
    <2>1. \A g \in DOMAIN groups' : ~(g < Case.group)
      BY <1>4, <1>5
    <2>2. ASSUME Case.group \in DOMAIN groups'
          PROVE  \A k \in DOMAIN groups'[Case.group].hooks["before_all"] :
                    ~(k < Case.hook - 1) /\ k # Case.hook - 1
      <3>1. groups'[Case.group] \in Groups
        BY <1>3, <1>4, <2>2, ElementOfSeq
      <3>2. groups'[Case.group].hooks["before_all"] \in Seq(1 .. Len(hooks))
        BY <3>1 DEF Groups, Kinds
      <3>3. DOMAIN groups'[Case.group].hooks["before_all"] \subseteq Nat \ {0}
        BY <3>2, LenProperties
      <3> QED
        BY <1>5, <3>3
    <2>3. BeforeAllOK(groups', hooks', Case)
      BY <1>3, <2>1, <2>2 DEF BeforeAllOK
    <2>4. LastSettled(groups', hooks', Case)
      BY <2>2 DEF LastSettled
    <2> QED
      BY <1>5, <2>3, <2>4 DEF TestOK
  <1>7. /\ stack' \in Seq(Frames) /\ Len(stack') = Len(stack) + 1 /\ stack' # <<>>
        /\ \A i \in 1 .. Len(stack) : stack'[i] = stack[i]
        /\ stack'[Len(stack) + 1] = Case /\ Last(stack') = Case
        /\ Cardinality(Opened(stack')) = Cardinality(Opened(stack)) + (IF Case.kind = "groupe" THEN 1 ELSE 0)
    BY <1>1, <1>4, <1>5, Pushed
  <1>8. Len(groups') = Cardinality(Opened(stack'))
    <2>1. Cardinality(Opened(stack)) \in Nat
      BY <1>3, <1>4
    <2> QED
      BY <1>3, <1>4, <1>5, <1>7, <2>1
  <1>9. TypeOK'
    BY <1>1, <1>2, <1>3, <1>7, <1>8 DEF TypeOK, Opened
  <1>10. /\ ~IsFile(Case) /\ Case.kind # "groupe" /\ Admitted(groups', Case)
         /\ Calling(groups', stack[Len(stack)], Case)
    BY <1>1, <1>4, <1>5 DEF IsFile, Admitted, Calling, IsTest
  <1>11. /\ \A i \in Len(stack) + 1 .. Len(stack') : i = Len(stack) + 1
         /\ \A i \in Len(stack) .. Len(stack') - 1 : i = Len(stack)
         /\ stack'[Len(stack)] = stack[Len(stack)]
    BY <1>4, <1>7
  <1>12. StackInv' /\ TestsInv' /\ QuietInv'
    <2>1. /\ \A i \in Len(stack) + 1 .. Len(stack') :
               /\ ~IsFile(stack'[i])
               /\ stack'[i].kind = "groupe" => \A j \in 1 .. i - 1 : ~IsHook(stack'[j])
               /\ IsTest(stack'[i]) => TestOK(groups', hooks', stack'[i])
               /\ Admitted(groups', stack'[i])
          /\ \A i \in Len(stack) .. Len(stack') - 1 : i > 0 => Calling(groups', stack'[i], stack'[i + 1])
      BY <1>6, <1>7, <1>10, <1>11
    <2>2. /\ Len(stack) \in Nat /\ Len(stack) <= Len(stack) /\ Len(stack) <= Len(stack')
          /\ (Len(stack) > 0 \/ stack' = <<>>) /\ (raising' => stack' # <<>>)
      BY <1>4, <1>7
    <2> QED
      BY <1>3, <1>7, <2>1, <2>2, FramesKept
  <1>13. SettledInv'
    BY <1>6, <1>7 DEF SettledInv, Top
  <1>14. FailedTest(stack') <=> FailedTest(stack)
    <2>1. \A i \in Len(stack) + 1 .. Len(stack) : FALSE
      BY <1>4
    <2>2. FailedAbove(Len(stack), stack') <=> FailedAbove(Len(stack), stack)
      BY <1>5, <1>7, <1>11, <2>1 DEF FailedAbove
    <2>3. Len(stack) \in Nat /\ Len(stack) <= Len(stack) /\ Len(stack) <= Len(stack')
      BY <1>4, <1>7
    <2> QED
      BY <1>4, <1>7, <2>2, <2>3, FailedKept
  <1>15. OutcomeInv'
    BY <1>1, <1>2, <1>7, <1>14, OutcomeKept
  <1> QED
    BY <1>3, <1>9, <1>12, <1>13, <1>15 DEF IInv


-----------------------------------------------------------------------------
(* run_tester_command. *)

\* Nothing but the file is under way, in no group.
LEMMA FileOnTop ==
    ASSUME IInv, stack # <<>>, IsFile(Top)
    PROVE  /\ status = None /\ groups = <<>> /\ ~FailedTest(stack)
           /\ \A i \in DOMAIN stack : IsFile(stack[i])
PROOF
  <1>1. TypeOK /\ StackInv /\ OutcomeInv
    BY DEF IInv
  <1>2. Top = stack[Len(stack)] /\ DOMAIN stack = 1 .. Len(stack) /\ Len(stack) \in DOMAIN stack
    BY <1>1, TopFields
  <1>3. Len(stack) = 1
    BY <1>1, <1>2 DEF StackInv, StackOK
  <1>4. \A i \in DOMAIN stack : i = 1 /\ IsFile(stack[i])
    BY <1>2, <1>3
  <1>5. Opened(stack) = {}
    BY <1>4 DEF Opened, IsFile
  <1>6. groups = <<>>
    <2>1. groups \in Seq(Groups) /\ Len(groups) = 0
      BY <1>1, <1>5, FS_EmptySet DEF TypeOK, Opened
    <2> QED
      BY <2>1, EmptySeq
  <1>7. ~FailedTest(stack)
    BY <1>4 DEF FailedTest, IsFile, IsTest
  <1> QED
    BY <1>1, <1>4, <1>6, <1>7 DEF OutcomeInv

\* No file is being run.
LEMMA Idle ==
    ASSUME stack = <<>>, ~raising, groups = <<>>
    PROVE  StackInv /\ GroupsInv /\ TestsInv /\ SettledInv /\ QuietInv /\ Opened(stack) = {}
  BY DEF StackInv, StackOK, GroupsInv, GroupsOK, TestsInv, TestsOK, SettledInv, QuietInv, Opened

\* A file that has run to its end keeps the invariant: its failures are
\* counted.
LEMMA EndFileStep ==
    ASSUME IInv, EndFile
    PROVE  IInv'
PROOF
  <1>1. /\ ~raising /\ stack # <<>> /\ IsFile(Top) /\ stack' = <<>>
        /\ aggregate' = [executed |-> aggregate.executed + summary.executed,
                         failed |-> aggregate.failed + summary.failed]
        /\ UNCHANGED <<raising, groups, abort, summary, hooks, opened, file, status, stop, struck>>
    BY DEF EndFile, Running, IsFile, testVars
  <1>2. TypeOK /\ OutcomeInv /\ status = None /\ groups = <<>> /\ ~FailedTest(stack)
    BY <1>1, FileOnTop DEF IInv
  <1>3. Frames' = Frames /\ Groups' = Groups
    BY <1>1, <1>2, SameTypes
  <1>4. StackInv' /\ GroupsInv' /\ TestsInv' /\ SettledInv' /\ QuietInv' /\ Opened(stack') = {}
    BY <1>1, <1>2 DEF StackInv, StackOK, GroupsInv, GroupsOK, TestsInv, TestsOK, SettledInv, QuietInv, Opened
  <1>5. /\ aggregate' \in Results /\ aggregate'.failed <= aggregate'.executed
        /\ aggregate'.failed > 0 <=> aggregate.failed > 0 \/ summary.failed > 0
    BY <1>1, <1>2 DEF TypeOK, Results
  <1>6. TypeOK'
    <2>1. Len(groups') = Cardinality(Opened(stack')) /\ stack' \in Seq(Frames)
      BY <1>1, <1>2, <1>4, FS_EmptySet, EmptySeq
    <2> QED
      BY <1>1, <1>2, <1>3, <1>5, <2>1 DEF TypeOK, Opened
  <1>7. Counted' <=> Counted
    BY <1>1, <1>2, <1>5 DEF Counted
  <1>8. OutcomeInv'
    BY <1>1, <1>2, <1>7 DEF OutcomeInv
  <1> QED
    BY <1>4, <1>6, <1>8 DEF IInv

\* An error that leaves a file keeps the invariant: the run fails.
LEMMA FailFileStep ==
    ASSUME IInv, FailFile
    PROVE  IInv'
PROOF
  <1>1. /\ stack # <<>> /\ IsFile(Top) /\ stack' = <<>> /\ raising' = FALSE /\ struck' = TRUE /\ status' = 1
        /\ UNCHANGED <<groups, abort, summary, hooks, opened, file, aggregate, stop>>
    BY DEF FailFile, IsFile, testVars
  <1>2. TypeOK /\ groups = <<>>
    BY <1>1, FileOnTop DEF IInv
  <1>3. Frames' = Frames /\ Groups' = Groups
    BY <1>1, <1>2, SameTypes
  <1>4. StackInv' /\ GroupsInv' /\ TestsInv' /\ SettledInv' /\ QuietInv' /\ Opened(stack') = {}
    BY <1>1, <1>2 DEF StackInv, StackOK, GroupsInv, GroupsOK, TestsInv, TestsOK, SettledInv, QuietInv, Opened
  <1>5. TypeOK'
    <2>1. Len(groups') = Cardinality(Opened(stack')) /\ stack' \in Seq(Frames)
      BY <1>1, <1>2, <1>4, FS_EmptySet, EmptySeq
    <2> QED
      BY <1>1, <1>2, <1>3, <2>1 DEF TypeOK, Opened
  <1>6. OutcomeInv'
    BY <1>1 DEF OutcomeInv, None
  <1> QED
    BY <1>4, <1>5, <1>6 DEF IInv

\* The next file starts with no group, no hook and no result, and keeps the
\* invariant.
LEMMA StartFileStep ==
    ASSUME IInv, StartFile
    PROVE  IInv'
PROOF
  <1>1. /\ stack = <<>> /\ status = None /\ file < MaxFiles /\ file' = file + 1
        /\ stack' = <<Code("file")>> /\ groups' = <<>> /\ abort' = FALSE
        /\ summary' = NoResults /\ hooks' = <<>> /\ opened' = 0
        /\ UNCHANGED <<raising, aggregate, status, stop, struck>>
    BY DEF StartFile
  <1>2. TypeOK /\ StackInv /\ OutcomeInv
    BY DEF IInv
  <1>3. ~raising
    BY <1>1, <1>2 DEF StackInv, StackOK
  <1>4. /\ stack' # <<>> /\ Len(stack') = 1 /\ DOMAIN stack' = {1} /\ stack'[1] = Code("file")
        /\ Last(stack') = Code("file") /\ Code("file").kind = "code" /\ Code("file").of = "file"
    BY <1>1 DEF Last, Code
  <1>5. StackInv' /\ GroupsInv' /\ TestsInv' /\ SettledInv' /\ QuietInv' /\ Opened(stack') = {}
    <2>1. GroupsInv'
      BY <1>1 DEF GroupsInv, GroupsOK
    <2>2. StackInv'
      BY <1>4 DEF StackInv, StackOK, IsHook, Kinds
    <2>3. TestsInv' /\ QuietInv' /\ Opened(stack') = {}
      BY <1>4 DEF TestsInv, TestsOK, QuietInv, Opened, IsTest, Admitted
    <2>4. SettledInv'
      BY <1>4 DEF SettledInv, IsTest, Top
    <2> QED
      BY <2>1, <2>2, <2>3, <2>4
  <1>6. TypeOK'
    <2>1. Len(groups') = Cardinality(Opened(stack'))
      BY <1>1, <1>5, FS_EmptySet
    <2>2. Len(hooks') = 0
      BY <1>1
    <2>3. Code("file") \in Frames'
      BY <2>2 DEF Frames, Code
    <2>4. stack' \in Seq(Frames')
      BY <1>1, <2>3
    <2>5. summary' \in Results /\ summary'.failed <= summary'.executed
      BY <1>1 DEF NoResults, Results
    <2>6. file' \in 0 .. MaxFiles
      BY <1>1, <1>2 DEF TypeOK
    <2>7. groups' \in Seq(Groups') /\ hooks' \in Seq([late : BOOLEAN, done : Nat])
      BY <1>1, EmptySeq
    <2> QED
      BY <1>1, <1>2, <2>1, <2>4, <2>5, <2>6, <2>7 DEF TypeOK, Opened
  <1>7. OutcomeInv'
    <2>1. ~FailedTest(stack') /\ ~(summary'.failed > 0)
      BY <1>1, <1>4 DEF FailedTest, IsTest, NoResults
    <2>2. Counted' <=> Counted
      BY <1>1, <1>4, <2>1 DEF Counted
    <2> QED
      BY <1>1, <1>2, <2>2 DEF OutcomeInv
  <1> QED
    BY <1>5, <1>6, <1>7 DEF IInv

\* The status the run ends with says whether anything failed.
LEMMA ConcludeStep ==
    ASSUME IInv, Conclude
    PROVE  IInv'
PROOF
  <1>1. /\ stack = <<>> /\ status = None /\ status' = IF aggregate.failed = 0 THEN 0 ELSE 1
        /\ UNCHANGED <<stack, raising, groups, abort, summary, hooks, opened, file, aggregate, stop, struck>>
    BY DEF Conclude, testVars
  <1>2. TypeOK /\ OutcomeInv
    BY DEF IInv
  <1>3. TypeOK'
    BY <1>1, <1>2, SameTypes DEF TypeOK
  <1>4. StackInv' /\ GroupsInv' /\ TestsInv' /\ SettledInv' /\ QuietInv'
    BY <1>1 DEF IInv, StackInv, GroupsInv, TestsInv, SettledInv, Top, QuietInv
  <1>5. OutcomeInv'
    <2>1. struck <=> aggregate.failed > 0
      BY <1>1, <1>2 DEF OutcomeInv, Counted
    <2>2. aggregate.failed \in Nat
      BY <1>2 DEF TypeOK, Results
    <2> QED
      BY <1>1, <2>1, <2>2 DEF OutcomeInv, None
  <1> QED
    BY <1>3, <1>4, <1>5 DEF IInv

-----------------------------------------------------------------------------
(* The theorems. *)

\* What an interpreter of a test file starts from has every part of the invariant.
LEMMA InitInvariant ==
    ASSUME Init
    PROVE  IInv
PROOF
  <1>1. TypeOK
    <2>1. /\ stack \in Seq(Frames) /\ groups \in Seq(Groups) /\ hooks \in Seq([late : BOOLEAN, done : Nat])
          /\ Opened(stack) = {}
      BY EmptySeq DEF Init, Opened
    <2>2. Len(groups) = Cardinality(Opened(stack))
      BY <2>1, FS_EmptySet DEF Init
    <2>3. NoResults \in Results /\ NoResults.failed <= NoResults.executed
      BY DEF NoResults, Results
    <2>4. file \in 0 .. MaxFiles
      BY DEF Init
    <2> QED
      BY <2>1, <2>2, <2>3, <2>4 DEF Init, TypeOK, Opened, None
  <1>2. StackInv /\ GroupsInv /\ TestsInv /\ SettledInv /\ QuietInv
    BY Idle DEF Init
  <1>3. OutcomeInv
    BY DEF Init, OutcomeInv, Counted, NoResults, None
  <1> QED
    BY <1>1, <1>2, <1>3 DEF IInv

\* Every step keeps the invariant.
LEMMA StepInvariant ==
    ASSUME IInv, [Next]_vars
    PROVE  IInv'
PROOF
  <1>1. CASE Next
    BY <1>1, RegisterStep, GroupeStep, TestStep, VerifierLanceStep, FailStep, ReturnStep, UnwindStep,
       BeforeAllStep, BeforeEachStep, AfterBodyStep, AfterEachStep, CatchStep, FinishStep,
       AfterAllStep, LeaveGroupStep, StartFileStep, EndFileStep, FailFileStep, ConcludeStep DEF Next
  <1>2. CASE UNCHANGED vars
    <2>1. UNCHANGED <<stack, raising, groups, abort, summary, hooks, opened, file, aggregate, status, stop, struck>>
      BY <1>2 DEF vars, testVars, fileVars
    <2>2. TypeOK'
      BY <2>1, SameTypes DEF IInv, TypeOK
    <2>3. StackInv' /\ GroupsInv' /\ TestsInv' /\ SettledInv' /\ QuietInv'
      BY <2>1 DEF IInv, StackInv, GroupsInv, TestsInv, SettledInv, Top, QuietInv
    <2>4. OutcomeInv'
      BY <2>1 DEF IInv, OutcomeInv, Counted
    <2> QED
      BY <2>2, <2>3, <2>4 DEF IInv
  <1> QED
    BY <1>1, <1>2


\* lumiere tester keeps the invariant, whatever the programs do.
THEOREM InductiveInvariant == Spec => []IInv
PROOF
  <1>1. Init => IInv
    BY InitInvariant
  <1>2. IInv /\ [Next]_vars => IInv'
    BY StepInvariant
  <1> QED
    BY <1>1, <1>2, PTL DEF Spec

\* groupe: the variables keep their types, and the open groups are those whose callback is
\* under way, whether they were left by a return, an error or an abort.
THEOREM TypeCorrect == Spec => []TypeOK
PROOF
  <1>1. IInv => TypeOK
    BY DEF IInv
  <1> QED
    BY <1>1, InductiveInvariant, PTL

\* test, groupe: a hook avant_tout or après_tout runs only in a group with a test that the
\* filter has let through.
THEOREM QuietWithoutTests == Spec => []FilteredGroupsStayQuiet
PROOF
  <1>1. IInv => FilteredGroupsStayQuiet
    BY DEF IInv, QuietInv, Admitted, FilteredGroupsStayQuiet
  <1> QED
    BY <1>1, InductiveInvariant, PTL

\* run_tester_command: the exit status tells whether an error has reached a test or left
\* a file.
THEOREM StatusTellsTheOutcome == Spec => []FailuresAreReported
PROOF
  <1>1. IInv => FailuresAreReported
    BY DEF IInv, OutcomeInv, FailuresAreReported
  <1> QED
    BY <1>1, InductiveInvariant, PTL

\* The place a test has come to is after every avant_chaque.
LEMMA BodyBegins ==
    ASSUME IInv, At("test", "before_each"), Top.group > Len(groups)
    PROVE  /\ Range(Top.ran) = Places("before_each") /\ InOrder(Top.ran, Inwards)
           /\ \A g \in DOMAIN groups : Completed(g)
PROOF
  <1>1. /\ BeforeEachOK(groups, hooks, Top) /\ TypeOK
        /\ Top.group \in Nat /\ Top.hook \in Nat /\ Len(groups) \in Nat
    BY TestTop, GroupsFields DEF At, TestOK, IInv
  <1> DEFINE P == PlacesOf(groups, "before_each")
  <1>2. /\ P \subseteq Nat \X Nat /\ Places("before_each") = P
        /\ \A p \in P : p[1] \in 1 .. Len(groups)
    BY <1>1, PlaceFields DEF Kinds
  <1>3. Range(Top.ran) = Before(P, <<Top.group, Top.hook>>) /\ InOrder(Top.ran, Inwards)
    BY <1>1 DEF BeforeEachOK
  <1>4. \A g \in DOMAIN groups : Completed(g)
    BY <1>1 DEF BeforeEachOK, Completes, Completed, Settled
  <1> HIDE DEF P
  <1>5. \A p \in P : p[1] < Top.group
    BY <1>1, <1>2
  <1>6. Before(P, <<Top.group, Top.hook>>) = P
    BY <1>1, <1>2, <1>5, InwardsEnd
  <1> QED
    BY <1>2, <1>3, <1>4, <1>6

\* The place a test has come to is after every après_chaque.
LEMMA TestEnds ==
    ASSUME IInv, At("test", "after_each"), Top.group = 0
    PROVE  Range(Top.ran) = Places("after_each") /\ InOrder(Top.ran, Outwards)
PROOF
  <1>1. /\ AfterEachOK(groups, Top) /\ TypeOK
        /\ Top.group \in Nat /\ Top.hook \in Nat /\ Len(groups) \in Nat
    BY TestTop, GroupsFields DEF At, TestOK, IInv
  <1> DEFINE P == PlacesOf(groups, "after_each")
  <1>2. /\ P \subseteq Nat \X Nat /\ Places("after_each") = P
        /\ \A p \in P : p[1] \in 1 .. Len(groups)
    BY <1>1, PlaceFields DEF Kinds
  <1>3. Range(Top.ran) = Behind(P, <<Top.group, Top.hook>>) /\ InOrder(Top.ran, Outwards)
    BY <1>1 DEF AfterEachOK
  <1> HIDE DEF P
  <1>4. \A p \in P : p[1] > 0
    BY <1>1, <1>2
  <1>5. Behind(P, <<Top.group, Top.hook>>) = P
    BY <1>1, <1>2, <1>4, OutwardsEnd
  <1> QED
    BY <1>2, <1>3, <1>5

\* While a test is between its hooks, it is the only one to take a step.
LEMMA TestMoves ==
    ASSUME Next, NEW point, At("test", point)
    PROVE  BeforeAll \/ BeforeEach \/ AfterBody \/ AfterEach \/ Finish
  BY DEF Next, At, Register, Groupe, Test, VerifierLance, Fail, Return, Unwind, Catch, AfterAll, LeaveGroup,
     StartFile, EndFile, FailFile, Conclude, Running

\* What a step puts on top.
LEMMA OnTop ==
    ASSUME TypeOK, stack # <<>>, NEW f, NEW c
    PROVE  /\ Last(Append(Front(stack), f)) = f
           /\ Last(Append(Append(Front(stack), f), c)) = c
PROOF
  <1> DEFINE S == Frames \cup {f, c}
             s == Front(stack)
  <1>1. s \in Seq(S)
    <2>1. s \in Seq(Frames) /\ Frames \subseteq S
      BY TopFields
    <2> QED
      BY <2>1, SeqMonotonic
  <1> HIDE DEF s
  <1>2. f \in S /\ c \in S
    OBVIOUS
  <1> HIDE DEF S
  <1>3. Append(s, f) \in Seq(S) /\ Last(Append(s, f)) = f
    BY <1>1, <1>2, Pushed
  <1> DEFINE u == Append(s, f)
  <1>4. u \in Seq(S) /\ c \in S
    BY <1>2, <1>3
  <1> HIDE DEF u
  <1>5. Last(Append(u, c)) = c
    BY <1>4, Pushed
  <1> QED
    BY <1>3, <1>5 DEF s, u

\* A body begins only when no group is left to enter.
LEMMA BodyIsDue ==
    ASSUME IInv, Next, Begins
    PROVE  Top.group > Len(groups) /\ At("test", "before_each")
PROOF
  <1>1. BeforeEach
    BY TestMoves DEF Begins, At, BeforeAll, AfterBody, AfterEach, Finish
  <1>2. /\ Last(stack').kind = "code" /\ Last(stack').of = "test" /\ stack # <<>>
        /\ Top.kind = "test" /\ TypeOK /\ At("test", "before_each")
    BY DEF Begins, At, IInv
  <1>3. Top = TestAt(Top.at, Top.group, Top.hook, Top.passed, Top.ran)
    BY <1>2, TestTop
  <1>4. ASSUME NEW f, NEW h, stack' = Append(Append(Front(stack), f), Hook("before_each", h))
        PROVE  FALSE
    <2>1. Last(stack') = Hook("before_each", h)
      BY <1>2, <1>4, OnTop
    <2>2. Hook("before_each", h).of = "before_each"
      BY DEF Hook
    <2> QED
      BY <1>2, <2>1, <2>2
  <1>5. ASSUME stack' = Append(Front(stack), Enters(Top, Top.group + 1, 1))
        PROVE  FALSE
    <2>1. Last(stack') = Enters(Top, Top.group + 1, 1)
      BY <1>2, <1>5, OnTop
    <2>2. Enters(Top, Top.group + 1, 1).kind = "test"
      BY <1>3, TestEnters DEF TestAt
    <2> QED
      BY <1>2, <2>1, <2>2
  <1>6. Enters(Top, Top.group + 1, 1) = [Top EXCEPT !.group = Top.group + 1, !.hook = 1]
    BY DEF Enters
  <1>7. Top.group > Len(groups)
    BY <1>1, <1>4, <1>5, <1>6 DEF BeforeEach, RunsHook, Calls, Goes
  <1> QED
    BY <1>2, <1>7

\* A test ends, without an error, only when no group is left to leave.
LEMMA EndIsDue ==
    ASSUME IInv, Next, Ends
    PROVE  Top.group = 0 /\ At("test", "after_each")
PROOF
  <1>1. AfterEach
    BY TestMoves DEF Ends, At, BeforeAll, BeforeEach, AfterBody, Finish
  <1>2. /\ Last(stack').kind = "test" /\ Last(stack').at = "finish" /\ stack # <<>>
        /\ Top.kind = "test" /\ Top.at = "after_each" /\ TypeOK /\ At("test", "after_each")
    BY DEF Ends, At, IInv
  <1>3. Top = TestAt(Top.at, Top.group, Top.hook, Top.passed, Top.ran)
    BY <1>2, TestTop
  <1>4. ASSUME NEW f, NEW h, stack' = Append(Append(Front(stack), f), Hook("after_each", h))
        PROVE  FALSE
    <2>1. Last(stack').kind = "code"
      BY <1>2, <1>4, OnTop DEF Hook
    <2> QED
      BY <1>2, <2>1
  <1>5. ASSUME stack' = Append(Front(stack), Enters(Top, Top.group - 1, 1))
        PROVE  FALSE
    <2>1. Last(stack').at = "after_each"
      BY <1>2, <1>3, <1>5, OnTop, TestEnters DEF TestAt
    <2> QED
      BY <1>2, <2>1
  <1>6. Enters(Top, Top.group - 1, 1) = [Top EXCEPT !.group = Top.group - 1, !.hook = 1]
    BY DEF Enters
  <1>7. Top.group = 0
    BY <1>1, <1>4, <1>5, <1>6 DEF AfterEach, RunsHook, Calls, Goes
  <1> QED
    BY <1>2, <1>7

\* test: the hooks have been run, in their order, when the body begins and when the test ends.
THEOREM HooksRunInOrder == Spec => HooksSurround
PROOF
  <1>1. IInv /\ [Next]_vars => [Surrounded]_vars
    <2>1. ASSUME IInv, Next
          PROVE  Surrounded
      <3>1. Begins => /\ Range(Top.ran) = Places("before_each") /\ InOrder(Top.ran, Inwards)
                      /\ \A g \in DOMAIN groups : Completed(g)
        BY <2>1, BodyIsDue, BodyBegins
      <3>2. Ends => Range(Top.ran) = Places("after_each") /\ InOrder(Top.ran, Outwards)
        BY <2>1, EndIsDue, TestEnds
      <3> QED
        BY <3>1, <3>2 DEF Surrounded
    <2> QED
      BY <2>1
  <1> QED
    BY <1>1, InductiveInvariant, PTL DEF Spec, HooksSurround
=============================================================================
