---------------------------- MODULE LumiNetProofs ----------------------------
(***************************************************************************)
(* Proofs about a program that uses LumiNet, for any number of             *)
(* descriptors, connections and calls, and callbacks nested to any depth.  *)
(***************************************************************************)
EXTENDS LumiNet, FiniteSetTheorems, SequenceTheorems, WellFoundedInduction, TLAPS

USE BoundsAssumption

-----------------------------------------------------------------------------
(* Who owns a descriptor. *)

\* écouter is called by the program itself, and a callback by a native.
Shape(s) ==
    /\ s # <<>> => s[1] = Program
    /\ \A i \in DOMAIN s : s[i].kind = "listen" => i = 2
    /\ \A i \in DOMAIN s : i > 1 /\ ~IsNative(s[i]) => IsNative(s[i - 1])
Listens(s) == Len(s) > 1 /\ s[2].kind = "listen"
Same(s, t) == (Listens(t) <=> Listens(s)) /\ (Listens(s) => t[2] = s[2])

\* A connection that is open is so on one descriptor.
Distinct(t, n) ==
    /\ \A fd \in Fds : t[fd] <= n
    /\ \A one, other \in Fds : t[one] = t[other] /\ t[one] > 0 => one = other

\* The descriptor of the request that écouter is about.
Request(s) == IF Listens(s) THEN s[2].client ELSE None

\* The server's descriptor, the program's, the CanalClient's and the request's are
\* those that are open, and no two are the same.
Owned(t, a, b, c, d) ==
    /\ {a, b, c, d} \subseteq Fds \cup {None}
    /\ \A fd \in Fds : t[fd] # None <=> fd \in {a, b, c, d}
    /\ a # None => a \notin {b, c, d} /\ t[a] = Listening
    /\ b # None => b \notin {c, d} /\ t[b] > 0
    /\ c # None => c # d /\ t[c] > 0
    /\ d # None => t[d] > 0

Serving == {"chain", "middleware", "answer"}
Listening2(f) ==
    /\ f.client # None <=> f.at \in {"request"} \cup Serving
    /\ f.at \in Serving => f.writer \in DOMAIN writers
    /\ ~server.stopped => f.fd = server.fd

\* What écouter keeps of its locals while one of them changes.
Locals(f, g) ==
    /\ g \in Listeners /\ g.fd = f.fd /\ g.writer = f.writer /\ g.taken = f.taken /\ g.client = f.client

\* It has gone on with the same locals, or with others.
Moves(from, to) ==
    /\ Listens(stack) /\ stack[2].at = from
    /\ Listens(stack') /\ stack'[2].at = to /\ Locals(stack[2], stack'[2])
Turns(point, fd, all) ==
    /\ Listens(stack) /\ Listens(stack')
    /\ stack'[2].at = point /\ stack'[2].client = fd /\ stack'[2].taken = all

ShapeInv == Shape(stack)
DistinctInv == Distinct(table, conns)
OwnedInv == Owned(table, server.fd, client.fd, canal.fd, Request(stack))
ListenInv == Listens(stack) => Listening2(stack[2])
IInv == TypeOK /\ ShapeInv /\ DistinctInv /\ OwnedInv /\ ListenInv

-----------------------------------------------------------------------------
(* Who answers on a connection.  Responses that are kept after écouter has failed
   are left out: with them the property does not hold. *)

\* The connection of the request that écouter is about.
About(f) == IF f.client = None THEN 0 ELSE table[f.client]

\* Before its response is sent nobody has answered, and its writer tells.
Current(f) ==
    /\ f.at = "request" => answers[About(f)] = <<>>
    /\ f.at \in Serving => LET w == writers[f.writer]
                           IN /\ w.fd = f.client /\ w.conn = About(f)
                              /\ IF w.sent THEN Len(answers[About(f)]) = 1 ELSE answers[About(f)] = <<>>

\* Those that écouter has taken before have been answered and are closed, but for
\* the last one when it has become a CanalClient.
TakenBefore(f) ==
    \A c \in f.taken :
       /\ c \in 1 .. conns
       /\ c # About(f) => Len(answers[c]) = 1
       /\ \A fd \in Fds : table[fd] = c => fd = f.client \/ (f.at \in {"upgraded", "looped"} /\ fd = canal.fd)

\* Of the responses kept, one that is not sent is that of the request being served.
WritersInv ==
    \A w \in DOMAIN writers :
       /\ writers[w].conn \in 1 .. conns
       /\ ~server.failed /\ ~writers[w].sent =>
             Listens(stack) /\ stack[2].at \in Serving /\ stack[2].writer = w
AnswersInv ==
    \A c \in 1 .. conns :
       /\ Len(answers[c]) <= 1
       /\ \A k \in DOMAIN answers[c] :
             answers[c][k] # 0 => answers[c][k] \in DOMAIN writers /\ writers[answers[c][k]].conn = c
CurrentInv == Listens(stack) => Current(stack[2]) /\ TakenBefore(stack[2])
AInv == IInv /\ CurrentInv /\ WritersInv /\ AnswersInv

-----------------------------------------------------------------------------
(* Descriptors. *)

\* A set of numbers up to n that is not empty has a least one.
LEMMA HasLeast ==
    ASSUME NEW n \in Nat, NEW T, T \subseteq 1 .. n, T # {}
    PROVE  \E x \in T : \A y \in T : x <= y
PROOF
  <1> DEFINE F == {1 .. x : x \in T}
  <1>1. IsFiniteSet(1 .. n)
    BY FS_Interval
  <1>2. F \subseteq FiniteSubsetsOf(1 .. n)
    <2>1. \A x \in T : 1 .. x \subseteq 1 .. n
      OBVIOUS
    <2>2. F \subseteq SUBSET (1 .. n)
      BY <2>1
    <2> QED
      BY <1>1, <2>2, FS_Subset DEF FiniteSubsetsOf
  <1>3. IsWellFoundedOn(StrictSubsetOrdering(1 .. n), FiniteSubsetsOf(1 .. n))
    BY FS_StrictSubsetOrderingWellFounded
  <1>4. F # {}
    OBVIOUS
  <1> HIDE DEF F
  <1>5. PICK s \in F : \A t \in F : ~(<<t, s>> \in StrictSubsetOrdering(1 .. n))
    BY <1>2, <1>3, <1>4, WFMin
  <1>6. PICK x \in T : s = 1 .. x
    BY DEF F
  <1>7. ASSUME NEW y \in T, y < x
        PROVE  FALSE
    <2>1. 1 .. y \in F /\ 1 .. y \subseteq 1 .. x /\ x \in 1 .. x /\ x \notin 1 .. y /\ 1 .. x \subseteq 1 .. n
      BY <1>7 DEF F
    <2>2. <<1 .. y, s>> \in StrictSubsetOrdering(1 .. n)
      BY <1>6, <2>1 DEF StrictSubsetOrdering
    <2> QED
      BY <1>5, <2>1, <2>2
  <1> QED
    BY <1>7

\* A descriptor is opened at the lowest number that is not in use.
LEMMA LowestIsUnused ==
    ASSUME Unused # {}
    PROVE  Lowest \in Fds /\ table[Lowest] = None
PROOF
  <1>1. Unused \subseteq 1 .. MaxFds /\ MaxFds \in Nat
    BY DEF Unused, Fds
  <1>2. \E fd \in Unused : \A other \in Unused : fd <= other
    BY <1>1, HasLeast
  <1>3. Lowest \in Unused
    BY <1>2 DEF Lowest
  <1> QED
    BY <1>3 DEF Unused, Open

\* An owner closes its descriptor: whichever it is, the others stay as they were.
LEMMA OwnedCloses ==
    ASSUME NEW t \in [Fds -> Kinds], NEW a, NEW b, NEW c, NEW d, Owned(t, a, b, c, d), NEW x, NEW u,
           u = (IF x = None THEN t ELSE [t EXCEPT ![x] = None])
    PROVE  /\ u \in [Fds -> Kinds]
           /\ x = a => Owned(u, None, b, c, d)
           /\ x = b => Owned(u, a, None, c, d)
           /\ x = c => Owned(u, a, b, None, d)
           /\ x = d => Owned(u, a, b, c, None)
PROOF
  <1>1. None \notin Fds /\ None = 0 /\ None \in Kinds
    BY DEF Fds, None, Kinds
  <1>2. u \in [Fds -> Kinds] /\ \A fd \in Fds : u[fd] = IF fd = x THEN None ELSE t[fd]
    BY <1>1
  <1> QED
    BY <1>1, <1>2 DEF Owned

\* A descriptor that was free gets an owner.
LEMMA OwnedOpens ==
    ASSUME NEW t \in [Fds -> Kinds], NEW a, NEW b, NEW c, NEW d, Owned(t, a, b, c, d), NEW x \in Fds,
           t[x] = None, NEW kind \in Kinds, NEW u, u = [t EXCEPT ![x] = kind]
    PROVE  /\ u \in [Fds -> Kinds]
           /\ a = None /\ kind = Listening => Owned(u, x, b, c, d)
           /\ b = None /\ kind > 0 => Owned(u, a, x, c, d)
           /\ d = None /\ kind > 0 => Owned(u, a, b, c, x)
PROOF
  <1>1. None \notin Fds /\ None = 0 /\ Listening = -1
    BY DEF Fds, None, Listening
  <1>2. u \in [Fds -> Kinds] /\ \A fd \in Fds : u[fd] = IF fd = x THEN kind ELSE t[fd]
    OBVIOUS
  <1> QED
    BY <1>1, <1>2 DEF Owned

\* A request's descriptor becomes the CanalClient's.
LEMMA OwnedPasses ==
    ASSUME NEW t, NEW a, NEW b, NEW c, NEW d, Owned(t, a, b, c, d), c = None
    PROVE  Owned(t, a, b, d, None)
  BY DEF Owned

\* Closing a descriptor leaves each connection on one descriptor.
LEMMA DistinctCloses ==
    ASSUME NEW t \in [Fds -> Kinds], NEW n \in Nat, Distinct(t, n), NEW x, NEW u,
           u = (IF x = None THEN t ELSE [t EXCEPT ![x] = None])
    PROVE  Distinct(u, n)
PROOF
  <1>1. \A fd \in Fds : u[fd] = t[fd] \/ u[fd] = None
    OBVIOUS
  <1> QED
    BY <1>1 DEF Distinct, None

\* So does opening one, for a listening socket or for the next connection.
LEMMA DistinctOpens ==
    ASSUME NEW t \in [Fds -> Kinds], NEW n \in Nat, Distinct(t, n), NEW x \in Fds, NEW kind, NEW m,
           NEW u, u = [t EXCEPT ![x] = kind],
           (kind = Listening /\ m = n) \/ (kind = n + 1 /\ m = n + 1)
    PROVE  Distinct(u, m)
PROOF
  <1>1. \A fd \in Fds : u[fd] = (IF fd = x THEN kind ELSE t[fd]) /\ t[fd] \in Int
    BY DEF Kinds, None, Listening
  <1> QED
    BY <1>1 DEF Distinct, Listening

-----------------------------------------------------------------------------
(* The stack. *)

\* What the stack is once a function has been called.
LEMMA Pushed ==
    ASSUME NEW S, NEW s \in Seq(S), NEW f \in S
    PROVE  LET t == Append(s, f)
           IN /\ t \in Seq(S) /\ Len(t) = Len(s) + 1 /\ Len(s) \in Nat /\ t # <<>>
              /\ DOMAIN t = 1 .. Len(s) + 1 /\ DOMAIN s = 1 .. Len(s)
              /\ \A i \in 1 .. Len(s) : t[i] = s[i]
              /\ t[Len(s) + 1] = f
              /\ Last(t) = f
PROOF
  <1> DEFINE t == Append(s, f)
  <1>1. /\ t \in Seq(S) /\ Len(t) = Len(s) + 1 /\ Len(s) \in Nat /\ DOMAIN t = 1 .. Len(s) + 1
        /\ \A i \in 1 .. Len(s) : t[i] = s[i]
        /\ t[Len(s) + 1] = f /\ DOMAIN s = 1 .. Len(s)
    BY AppendProperties, LenProperties
  <1> HIDE DEF t
  <1> QED
    BY <1>1 DEF t, Last

\* What the stack is once the function on top of it has ended.
LEMMA Popped ==
    ASSUME NEW S, NEW s \in Seq(S), s # <<>>
    PROVE  \E n \in Nat :
              /\ Len(s) = n + 1 /\ DOMAIN s = 1 .. n + 1 /\ Last(s) = s[n + 1] /\ Last(s) \in S
              /\ Front(s) \in Seq(S) /\ Len(Front(s)) = n /\ DOMAIN Front(s) = 1 .. n
              /\ \A i \in 1 .. n : Front(s)[i] = s[i]
PROOF
  <1>1. PICK n \in Nat : Len(s) = n + 1
    <2>1. Len(s) \in Nat /\ Len(s) # 0
      BY LenProperties, EmptySeq
    <2>2. Len(s) - 1 \in Nat /\ Len(s) = (Len(s) - 1) + 1
      BY <2>1
    <2> QED
      BY <2>2
  <1>2. DOMAIN s = 1 .. n + 1 /\ \A i \in 1 .. n + 1 : s[i] \in S
    BY <1>1, LenProperties, ElementOfSeq
  <1>3. Front(s) = SubSeq(s, 1, n)
    <2>1. Len(s) - 1 = n
      BY <1>1
    <2> QED
      BY <2>1 DEF Front
  <1>4. /\ SubSeq(s, 1, n) \in Seq(S)
        /\ Len(SubSeq(s, 1, n)) = IF 1 <= n THEN n - 1 + 1 ELSE 0
        /\ \A i \in 1 .. n - 1 + 1 : SubSeq(s, 1, n)[i] = s[1 + i - 1]
    <2>1. \A i \in 1 .. n : s[i] \in S
      BY <1>2
    <2> QED
      BY <1>1, <2>1, SubSeqProperties
  <1> DEFINE t == Front(s)
  <1>5. t \in Seq(S) /\ Len(t) = n /\ \A i \in 1 .. n : t[i] = s[i]
    BY <1>3, <1>4
  <1> HIDE DEF t
  <1>6. DOMAIN t = 1 .. n
    BY <1>5, LenProperties
  <1>7. Last(s) = s[n + 1] /\ Last(s) \in S
    BY <1>1, <1>2 DEF Last
  <1> QED
    BY <1>1, <1>2, <1>5, <1>6, <1>7 DEF t

\* A native is called, or a callback by a native.
LEMMA PushKeeps ==
    ASSUME NEW s \in Seq(Frames), Shape(s), s # <<>>, NEW f \in Frames,
           IsNative(f) \/ IsNative(Last(s)), f.kind = "listen" => Len(s) = 1
    PROVE  LET t == Append(s, f)
           IN /\ t \in Seq(Frames) /\ Shape(t) /\ t # <<>> /\ Last(t) = f
              /\ f.kind # "listen" => Same(s, t)
              /\ f.kind = "listen" => Listens(t) /\ t[2] = f
PROOF
  <1> DEFINE t == Append(s, f)
  <1>1. /\ t \in Seq(Frames) /\ Len(t) = Len(s) + 1 /\ Len(s) \in Nat \ {0} /\ t # <<>>
        /\ DOMAIN t = 1 .. Len(s) + 1 /\ DOMAIN s = 1 .. Len(s)
        /\ \A i \in 1 .. Len(s) : t[i] = s[i]
        /\ t[Len(s) + 1] = f /\ Last(t) = f
    BY Pushed, EmptySeq
  <1>2. Last(s) = s[Len(s)]
    BY <1>1 DEF Last
  <1> HIDE DEF t
  <1>3. Shape(t)
    BY <1>1, <1>2 DEF Shape
  <1>4. f.kind # "listen" => Same(s, t)
    BY <1>1 DEF Same, Listens
  <1>5. f.kind = "listen" => Listens(t) /\ t[2] = f
    BY <1>1 DEF Listens
  <1> QED
    BY <1>1, <1>3, <1>4, <1>5 DEF t

\* A function that ends leaves a stack of the same shape; only the end of
\* écouter takes écouter off.
LEMMA PopKeeps ==
    ASSUME NEW s \in Seq(Frames), Shape(s), s # <<>>
    PROVE  LET t == Front(s)
           IN /\ t \in Seq(Frames) /\ Shape(t)
              /\ Last(s).kind # "listen" => Same(s, t)
              /\ Last(s).kind = "listen" => ~Listens(t) /\ Listens(s) /\ s[2] = Last(s)
PROOF
  <1> DEFINE t == Front(s)
  <1>1. PICK n \in Nat :
              /\ Len(s) = n + 1 /\ DOMAIN s = 1 .. n + 1 /\ Last(s) = s[n + 1]
              /\ t \in Seq(Frames) /\ Len(t) = n /\ DOMAIN t = 1 .. n
              /\ \A i \in 1 .. n : t[i] = s[i]
    BY Popped
  <1> HIDE DEF t
  <1>2. Shape(t)
    <2>1. t # <<>> => n > 0
      BY <1>1, EmptySeq
    <2> QED
      BY <1>1, <2>1 DEF Shape
  <1>3. Last(s).kind # "listen" => Same(s, t)
    BY <1>1 DEF Same, Listens
  <1>4. Last(s).kind = "listen" => ~Listens(t) /\ Listens(s) /\ s[2] = Last(s)
    BY <1>1 DEF Listens, Shape
  <1> QED
    BY <1>1, <1>2, <1>3, <1>4 DEF t

\* The frame on top moves on.
LEMMA GoesKeeps ==
    ASSUME NEW s \in Seq(Frames), Shape(s), s # <<>>, NEW f \in Frames, f.kind = Last(s).kind, IsNative(f)
    PROVE  LET t == Append(Front(s), f)
           IN /\ t \in Seq(Frames) /\ Shape(t) /\ t # <<>> /\ Last(t) = f
              /\ f.kind # "listen" => Same(s, t)
              /\ f.kind = "listen" => Listens(t) /\ t[2] = f /\ Listens(s) /\ s[2] = Last(s)
PROOF
  <1> DEFINE u == Front(s)
             t == Append(u, f)
  <1>1. PICK n \in Nat :
              /\ Len(s) = n + 1 /\ DOMAIN s = 1 .. n + 1 /\ Last(s) = s[n + 1]
              /\ u \in Seq(Frames) /\ Len(u) = n /\ \A i \in 1 .. n : u[i] = s[i]
    BY Popped
  <1> HIDE DEF u
  <1>2. /\ t \in Seq(Frames) /\ Len(t) = n + 1 /\ t # <<>> /\ DOMAIN t = 1 .. n + 1
        /\ \A i \in 1 .. n : t[i] = s[i]
        /\ t[n + 1] = f /\ Last(t) = f
    BY <1>1, Pushed
  <1> HIDE DEF t
  <1>3. n > 0
    BY <1>1 DEF Shape, IsNative, Program
  <1>4. Shape(t)
    BY <1>1, <1>2, <1>3 DEF Shape, IsNative
  <1>5. f.kind # "listen" => Same(s, t)
    BY <1>1, <1>2 DEF Same, Listens
  <1>6. f.kind = "listen" => Listens(t) /\ t[2] = f /\ Listens(s) /\ s[2] = Last(s)
    BY <1>1, <1>2, <1>3 DEF Listens, Shape
  <1> QED
    BY <1>2, <1>4, <1>5, <1>6 DEF t, u

\* It moves on and calls a callback.
LEMMA CallKeeps ==
    ASSUME NEW s \in Seq(Frames), Shape(s), s # <<>>, NEW f \in Frames, f.kind = Last(s).kind, IsNative(f),
           NEW c \in Frames, c.kind # "listen"
    PROVE  LET t == Append(Append(Front(s), f), c)
           IN /\ t \in Seq(Frames) /\ Shape(t) /\ t # <<>> /\ Last(t) = c
              /\ f.kind # "listen" => Same(s, t)
              /\ f.kind = "listen" => Listens(t) /\ t[2] = f /\ Listens(s) /\ s[2] = Last(s)
PROOF
  <1> DEFINE u == Append(Front(s), f)
             t == Append(u, c)
  <1>1. /\ u \in Seq(Frames) /\ Shape(u) /\ u # <<>> /\ Last(u) = f
        /\ f.kind # "listen" => Same(s, u)
        /\ f.kind = "listen" => Listens(u) /\ u[2] = f /\ Listens(s) /\ s[2] = Last(s)
    BY GoesKeeps
  <1> HIDE DEF u
  <1>2. t \in Seq(Frames) /\ Shape(t) /\ t # <<>> /\ Last(t) = c /\ Same(u, t)
    BY <1>1, PushKeeps
  <1> HIDE DEF t
  <1> QED
    BY <1>1, <1>2 DEF t, u, Same

-----------------------------------------------------------------------------
(* Frames. *)

\* The four kinds of functions, and the two that are natives with locals of
\* their own.
LEMMA FrameKinds ==
    /\ \A f \in Frames : IsNative(f) => f \in Listeners \/ f \in Loops
    /\ \A f \in Frames : f.kind = "listen" => f \in Listeners
    /\ \A f \in Frames : f.kind = "canal" => f \in Loops
    /\ \A f \in Frames : f.kind \in {"program", "callback", "listen", "canal"}
    /\ \A f \in Listeners : f \in Frames /\ f.kind = "listen" /\ IsNative(f)
    /\ \A f \in Loops : f \in Frames /\ f.kind = "canal" /\ IsNative(f)
    /\ \A hook \in Hooks : Callback(hook) \in Frames /\ Callback(hook).kind = "callback"
  BY DEF Frames, Listeners, Loops, IsNative, Program, Callback

\* The locals of a CanalClient's loop.
LEMMA LoopFields ==
    ASSUME NEW f \in Loops
    PROVE  /\ f.by \in {"attendre", "server", "http"}
           /\ f.at \in {"open", "read", "deliver", "dispatch", "failing", "failed", "closed", "done"}
           /\ f.buffer \in Seq(Nat) /\ f.opcode \in {"none", "text", "binary"}
  BY DEF Loops

\* The loop at another point.
LEMMA LoopMoves ==
    ASSUME NEW f \in Loops,
           NEW point \in {"open", "read", "deliver", "dispatch", "failing", "failed", "closed", "done"}
    PROVE  [f EXCEPT !.at = point] \in Loops
  BY DEF Loops

\* The loop with more of a message in its buffer.
LEMMA LoopBuffers ==
    ASSUME NEW f \in Loops, NEW b \in Seq(Nat)
    PROVE  [f EXCEPT !.buffer = b] \in Loops
  BY DEF Loops

\* The loop with the kind of the message that it has begun.
LEMMA LoopOpcodes ==
    ASSUME NEW f \in Loops, NEW o \in {"none", "text", "binary"}
    PROVE  [f EXCEPT !.opcode = o] \in Loops
  BY DEF Loops

\* The locals of écouter.
LEMMA ListenerFields ==
    ASSUME NEW f \in Listeners
    PROVE  /\ f.at \in {"accept", "connected", "request", "upgraded", "looped", "chain", "middleware", "answer"}
           /\ f.fd \in Fds /\ f.client \in Fds \cup {None} /\ f.taken \subseteq Nat /\ f.writer \in Nat
           /\ f.index \in Nat /\ f.proceeded \in BOOLEAN /\ f.routed \in BOOLEAN
  BY DEF Listeners

\* écouter at another point.
LEMMA ListenerMoves ==
    ASSUME NEW f \in Listeners,
           NEW point \in {"accept", "connected", "request", "upgraded", "looped", "chain", "middleware", "answer"}
    PROVE  Locals(f, [f EXCEPT !.at = point]) /\ [f EXCEPT !.at = point].at = point
  BY DEF Listeners, Locals

\* écouter with the client it has accepted, or without.
LEMMA ListenerTakes ==
    ASSUME NEW f \in Listeners, NEW fd \in Fds \cup {None}
    PROVE  LET g == [f EXCEPT !.client = fd]
           IN g \in Listeners /\ g.client = fd /\ g.at = f.at /\ g.fd = f.fd /\ g.taken = f.taken
  BY DEF Listeners

\* écouter with the connections that it has taken so far.
LEMMA ListenerCounts ==
    ASSUME NEW f \in Listeners, NEW all \in SUBSET Nat
    PROVE  LET g == [f EXCEPT !.taken = all]
           IN g \in Listeners /\ g.taken = all /\ g.at = f.at /\ g.fd = f.fd /\ g.client = f.client
  BY DEF Listeners

\* écouter with the response of the request it serves.
LEMMA ListenerWrites ==
    ASSUME NEW f \in Listeners, NEW w \in Nat
    PROVE  LET g == [f EXCEPT !.writer = w]
           IN g \in Listeners /\ g.writer = w /\ g.at = f.at /\ g.fd = f.fd /\ g.client = f.client /\ g.taken = f.taken
  BY DEF Listeners

\* écouter further along the middlewares and the routes.
LEMMA ListenerChains ==
    ASSUME NEW f \in Listeners, NEW i \in Nat
    PROVE  /\ Locals(f, [f EXCEPT !.index = i]) /\ [f EXCEPT !.index = i].at = f.at
           /\ \A p \in BOOLEAN : Locals(f, [f EXCEPT !.proceeded = p]) /\ [f EXCEPT !.proceeded = p].at = f.at
           /\ \A r \in BOOLEAN : Locals(f, [f EXCEPT !.routed = r]) /\ [f EXCEPT !.routed = r].at = f.at
  BY DEF Listeners, Locals

-----------------------------------------------------------------------------
(* The state that a step starts from, and steps that close and open nothing. *)

\* The function on top of the stack, by its kind.
LEMMA TopFields ==
    ASSUME IInv, stack # <<>>
    PROVE  /\ stack \in Seq(Frames) /\ Shape(stack) /\ Top \in Frames /\ Top = Last(stack)
           /\ Top.kind = "listen" => Top \in Listeners /\ Listens(stack) /\ stack[2] = Top /\ IsNative(Top)
           /\ Top.kind = "canal" => Top \in Loops /\ IsNative(Top)
PROOF
  <1>1. stack \in Seq(Frames) /\ Shape(stack) /\ Top \in Frames /\ Top = Last(stack)
    BY Popped DEF IInv, TypeOK, ShapeInv, Top
  <1> QED
    BY <1>1, FrameKinds, PopKeeps

\* The second frame is the same, or one that writes on the same descriptors.
LEMMA QuietStep ==
    ASSUME IInv, TypeOK', Shape(stack'), UNCHANGED <<table, conns>>, DOMAIN writers' = DOMAIN writers,
           server'.fd = server.fd, server'.stopped = server.stopped, client'.fd = client.fd, canal'.fd = canal.fd,
           Same(stack, stack')
    PROVE  IInv'
PROOF
  <1>1. DistinctInv'
    BY DEF IInv, DistinctInv
  <1>2. Request(stack') = Request(stack)
    BY DEF Same, Request
  <1>3. OwnedInv'
    BY <1>2 DEF IInv, OwnedInv
  <1>4. ListenInv'
    BY DEF IInv, ListenInv, Same, Listening2
  <1> QED
    BY <1>1, <1>3, <1>4 DEF IInv, ShapeInv

\* écouter goes on while the same descriptors are open: the invariant is kept.
LEMMA ListenStep ==
    ASSUME IInv, TypeOK', Shape(stack'), UNCHANGED <<table, conns>>, DOMAIN writers' = DOMAIN writers,
           server'.fd = server.fd, server'.stopped = server.stopped, client'.fd = client.fd, canal'.fd = canal.fd,
           NEW f, Listens(stack), Listens(stack'), stack'[2] = f, Locals(stack[2], f),
           f.at \in {"request"} \cup Serving <=> stack[2].at \in {"request"} \cup Serving,
           f.at \in Serving => stack[2].at \in Serving
    PROVE  IInv'
PROOF
  <1>1. DistinctInv'
    BY DEF IInv, DistinctInv
  <1>2. Request(stack') = Request(stack)
    BY DEF Request, Locals
  <1>3. OwnedInv'
    BY <1>2 DEF IInv, OwnedInv
  <1>4. Listening2(stack[2])
    BY DEF IInv, ListenInv
  <1>5. ListenInv'
    BY <1>4 DEF ListenInv, Listening2, Locals
  <1> QED
    BY <1>1, <1>3, <1>5 DEF IInv, ShapeInv

-----------------------------------------------------------------------------
(* The program and its callbacks. *)

\* A step that leaves the stack leaves écouter where it was.
LEMMA SameStack ==
    ASSUME stack' = stack
    PROVE  Same(stack, stack')
  BY DEF Same

\* The end of any function but écouter leaves écouter where it was.
LEMMA PopStep ==
    ASSUME IInv, stack # <<>>, Top.kind # "listen", stack' = Front(stack)
    PROVE  stack' \in Seq(Frames) /\ Shape(stack') /\ Same(stack, stack')
  BY TopFields, PopKeeps

\* A callback that returns, or that raises, closes and opens nothing.
LEMMA ThreadStep ==
    ASSUME IInv, ThreadSteps \/ Fail, UNCHANGED <<canalVars, protocol, serverVars>>
    PROVE  IInv' /\ Same(stack, stack')
PROOF
  <1>1. /\ \/ stack # <<>> /\ Top.kind # "listen" /\ stack' = Front(stack)
           \/ stack' = stack
        /\ raising' \in {"nothing", "network", "runtime"}
        /\ UNCHANGED <<calls, table, conns, broken, canal, peer, heard, server, writers, answers, client>>
    BY DEF ThreadSteps, Return, UnwindProgram, Fail, Running, IsNative, socketVars, canalVars, serverVars,
       IInv, TypeOK, SocketsTypeOK
  <1>2. stack' \in Seq(Frames) /\ Shape(stack') /\ Same(stack, stack')
    BY <1>1, PopStep, SameStack DEF IInv, TypeOK, ShapeInv
  <1>3. TypeOK'
    BY <1>1, <1>2 DEF IInv, TypeOK, SocketsTypeOK
  <1> QED
    BY <1>1, <1>2, <1>3, QuietStep

-----------------------------------------------------------------------------
(* The CanalClient. *)

\* What comes of a send.
LEMMA Sends ==
    ASSUME IInv, NEW fd \in Fds \cup {None}, NEW sent \in SendOutcomes(fd)
    PROVE  /\ sent \in BOOLEAN
           /\ Broken(fd, sent) \subseteq 1 .. conns
           /\ sent => fd \in Fds /\ table[fd] # None /\ table[fd] # Listening
PROOF
  <1>1. table \in [Fds -> Kinds] /\ broken \subseteq 1 .. conns /\ Distinct(table, conns)
    BY DEF IInv, TypeOK, SocketsTypeOK, DistinctInv
  <1>2. sent \in BOOLEAN /\ (sent => fd \in Fds /\ table[fd] # None /\ table[fd] # Listening)
    BY Zenon DEF SendOutcomes
  <1>3. Broken(fd, sent) \subseteq 1 .. conns
    <2>1. CASE sent \/ fd = None
      BY <1>1, <2>1 DEF Broken
    <2>2. CASE ~sent /\ fd \in Fds
      <3>1. table[fd] \in Kinds /\ table[fd] <= conns
        BY <1>1, <2>2 DEF Distinct
      <3>2. table[fd] \notin {None, Listening} => table[fd] \in 1 .. conns
        BY <3>1 DEF Kinds, None, Listening
      <3> QED
        BY <1>1, <2>2, <3>2 DEF Broken
    <2> QED
      BY <2>1, <2>2
  <1> QED
    BY <1>2, <1>3

\* The descriptors of the CanalClient, of the server and of the program, and
\* who owns which.
LEMMA ClientFields ==
    ASSUME IInv
    PROVE  /\ canal.fd \in Fds \cup {None} /\ canal.closed \in BOOLEAN /\ canal.hooks \in HookSets
           /\ server.fd \in Fds \cup {None} /\ client.fd \in Fds \cup {None}
           /\ table \in [Fds -> Kinds] /\ conns \in Nat /\ Distinct(table, conns)
           /\ Owned(table, server.fd, client.fd, canal.fd, Request(stack))
  BY DEF IInv, TypeOK, SocketsTypeOK, DistinctInv, OwnedInv

\* One of the four closes its descriptor.
LEMMA Closes ==
    ASSUME IInv, NEW fd
    PROVE  /\ Closing(fd) \in [Fds -> Kinds] /\ Distinct(Closing(fd), conns)
           /\ fd = server.fd => Owned(Closing(fd), None, client.fd, canal.fd, Request(stack))
           /\ fd = client.fd => Owned(Closing(fd), server.fd, None, canal.fd, Request(stack))
           /\ fd = canal.fd => Owned(Closing(fd), server.fd, client.fd, None, Request(stack))
           /\ fd = Request(stack) => Owned(Closing(fd), server.fd, client.fd, canal.fd, None)
PROOF
  <1>1. /\ table \in [Fds -> Kinds] /\ conns \in Nat /\ Distinct(table, conns)
        /\ Owned(table, server.fd, client.fd, canal.fd, Request(stack))
    BY ClientFields
  <1> DEFINE u == Closing(fd)
             d == Request(stack)
  <1>2. u = (IF fd = None THEN table ELSE [table EXCEPT ![fd] = None])
    BY DEF Closing
  <1> HIDE DEF u, d
  <1>3. Owned(table, server.fd, client.fd, canal.fd, d)
    BY <1>1 DEF d
  <1>4. u \in [Fds -> Kinds] /\ Distinct(u, conns)
    <2>1. u \in [Fds -> Kinds]
      BY <1>1, <1>2, <1>3, OwnedCloses, Zenon
    <2>2. Distinct(u, conns)
      BY <1>1, <1>2, DistinctCloses, Zenon
    <2> QED
      BY <2>1, <2>2
  <1>5. /\ fd = server.fd => Owned(u, None, client.fd, canal.fd, d)
        /\ fd = client.fd => Owned(u, server.fd, None, canal.fd, d)
        /\ fd = canal.fd => Owned(u, server.fd, client.fd, None, d)
        /\ fd = d => Owned(u, server.fd, client.fd, canal.fd, None)
    BY <1>1, <1>2, <1>3, OwnedCloses, Zenon
  <1> QED
    BY <1>4, <1>5 DEF u, d

\* envoyer and envoyer_octets open and close nothing.
LEMMA EnvoyerStep ==
    ASSUME IInv, Envoyer, UNCHANGED <<protocol, serverVars>>
    PROVE  IInv' /\ Same(stack, stack')
PROOF
  <1>1. PICK sent \in SendOutcomes(canal.fd) : broken' = Broken(canal.fd, sent)
    BY DEF Envoyer
  <1>2. /\ calls < MaxCalls /\ calls' = calls + 1
        /\ UNCHANGED <<stack, raising, table, conns, canal, peer, heard, server, writers, answers, client>>
    BY DEF Envoyer, MayCall, Counted, canalVars, serverVars
  <1>3. broken' \subseteq 1 .. conns
    BY <1>1, ClientFields, Sends
  <1>4. TypeOK'
    BY <1>2, <1>3 DEF IInv, TypeOK, SocketsTypeOK
  <1> QED
    BY <1>2, <1>4, QuietStep, SameStack DEF IInv, ShapeInv

\* fermer closes the CanalClient's descriptor, which nobody else owns.
LEMMA FermerStep ==
    ASSUME IInv, Fermer, UNCHANGED <<protocol, serverVars>>
    PROVE  IInv' /\ Same(stack, stack')
PROOF
  <1>1. PICK sent \in SendOutcomes(canal.fd) :
           /\ broken' = Broken(canal.fd, sent)
           /\ table' = IF sent THEN Closing(canal.fd) ELSE table
           /\ canal' = IF sent THEN [canal EXCEPT !.closed = TRUE, !.fd = None] ELSE canal
    BY DEF Fermer
  <1>2. /\ calls < MaxCalls /\ calls' = calls + 1
        /\ UNCHANGED <<stack, raising, conns, peer, heard, server, writers, answers, client>>
    BY DEF Fermer, MayCall, Counted, serverVars
  <1>3. sent \in BOOLEAN /\ broken' \subseteq 1 .. conns
    BY <1>1, ClientFields, Sends
  <1>4. CASE ~sent
    <2>1. table' = table /\ canal' = canal
      BY <1>1, <1>4
    <2>2. TypeOK'
      BY <1>2, <1>3, <2>1 DEF IInv, TypeOK, SocketsTypeOK
    <2> QED
      BY <1>2, <2>1, <2>2, QuietStep, SameStack DEF IInv, ShapeInv
  <1>5. CASE sent
    <2>1. table' = Closing(canal.fd)
      BY <1>1, <1>5
    <2>2. /\ canal' \in [fd : Fds \cup {None}, closed : BOOLEAN, opened : BOOLEAN, hooks : HookSets]
          /\ canal'.fd = None
      BY <1>1, <1>5 DEF IInv, TypeOK
    <2>3. table' \in [Fds -> Kinds] /\ Owned(table', server.fd, client.fd, None, Request(stack)) /\ Distinct(table', conns)
      BY <2>1, Closes
    <2>4. TypeOK'
      BY <1>2, <1>3, <2>2, <2>3 DEF IInv, TypeOK, SocketsTypeOK
    <2>5. DistinctInv' /\ OwnedInv'
      BY <1>2, <2>2, <2>3 DEF DistinctInv, OwnedInv
    <2>6. ListenInv' /\ ShapeInv'
      BY <1>2 DEF IInv, ListenInv, ShapeInv, Listening2
    <2> QED
      BY <1>2, <2>4, <2>5, <2>6, SameStack DEF IInv
  <1> QED
    BY <1>2, <1>3, <1>4, <1>5, SameStack

-----------------------------------------------------------------------------
(* run_canal_loop. *)

Clients == [fd : Fds \cup {None}, closed : BOOLEAN, opened : BOOLEAN, hooks : HookSets]
Peers == [count : Nat, last : Nat, inside : {"none", "text", "binary"}, message : Seq(Nat),
          messages : Seq(Messages), ended : BOOLEAN]
Ears == [client : Seq(Messages), over : BOOLEAN, early : BOOLEAN, failed : BOOLEAN]

\* The types of the CanalClient, of its peer and of what its hooks have heard.
LEMMA LoopTypes ==
    ASSUME IInv
    PROVE  canal \in Clients /\ peer \in Peers /\ heard \in Ears
  BY DEF IInv, TypeOK, Clients, Peers, Ears

\* The loop on top of the stack goes on, and écouter below it stays where it
\* was.
LEMMA LoopGoes ==
    ASSUME IInv, stack # <<>>, Top.kind = "canal", NEW loop \in Loops, stack' = Goes(loop)
    PROVE  stack' \in Seq(Frames) /\ Shape(stack') /\ Same(stack, stack')
PROOF
  <1>1. loop \in Frames /\ loop.kind = "canal" /\ IsNative(loop)
    BY FrameKinds
  <1>2. stack \in Seq(Frames) /\ Shape(stack) /\ Last(stack).kind = "canal"
    BY TopFields
  <1> QED
    BY <1>1, <1>2, GoesKeeps DEF Goes

\* So it is when the loop calls a hook.
LEMMA LoopNotifies ==
    ASSUME IInv, stack # <<>>, Top.kind = "canal", NEW loop \in Loops, NEW hook \in Hooks, Notify(loop, hook)
    PROVE  stack' \in Seq(Frames) /\ Shape(stack') /\ Same(stack, stack')
PROOF
  <1>1. /\ loop \in Frames /\ loop.kind = "canal" /\ IsNative(loop)
        /\ Callback(hook) \in Frames /\ Callback(hook).kind # "listen"
    BY FrameKinds
  <1>2. stack \in Seq(Frames) /\ Shape(stack) /\ Last(stack).kind = "canal"
    BY TopFields
  <1>3. CASE stack' = Calls(loop, hook)
    BY <1>1, <1>2, <1>3, CallKeeps DEF Calls, Goes
  <1>4. CASE stack' = Goes(loop)
    BY <1>4, LoopGoes
  <1> QED
    BY <1>3, <1>4 DEF Notify

\* A step of a loop, of which the descriptors take no notice.
LEMMA LoopStep ==
    ASSUME IInv, UNCHANGED <<table, conns, server, client, writers, answers>>,
           stack' \in Seq(Frames), Shape(stack'), Same(stack, stack'),
           canal' \in Clients, canal'.fd = canal.fd, peer' \in Peers, heard' \in Ears,
           raising' \in {"nothing", "network", "runtime"}, calls' \in 0 .. MaxCalls, broken' \subseteq 1 .. conns
    PROVE  IInv' /\ Same(stack, stack')
PROOF
  <1>1. TypeOK'
    BY DEF IInv, TypeOK, SocketsTypeOK, Clients, Peers, Ears
  <1> QED
    BY <1>1, QuietStep

\* The types of what raises, of the calls made and of the connections broken.
LEMMA Quiet ==
    ASSUME IInv
    PROVE  raising \in {"nothing", "network", "runtime"} /\ calls \in 0 .. MaxCalls /\ broken \subseteq 1 .. conns
  BY DEF IInv, TypeOK, SocketsTypeOK

\* attendre starts a loop, or is refused, and opens and closes nothing.
LEMMA AttendreStep ==
    ASSUME IInv, Attendre, UNCHANGED <<protocol, serverVars>>
    PROVE  IInv' /\ Same(stack, stack')
PROOF
  <1>1. /\ stack # <<>> /\ stack' = Append(stack, Loop("attendre"))
        /\ calls < MaxCalls /\ calls' = calls + 1
        /\ UNCHANGED <<raising, table, conns, broken, canal, peer, heard, server, writers, answers, client>>
    BY DEF Attendre, MayCall, Running, Counted, socketVars, canalVars, serverVars
  <1>2. Loop("attendre") \in Loops
    <2>1. <<>> \in Seq(Nat)
      BY EmptySeq
    <2> QED
      BY <2>1 DEF Loop, Loops
  <1>3. stack' \in Seq(Frames) /\ Shape(stack') /\ Same(stack, stack')
    <2>1. Loop("attendre") \in Frames /\ IsNative(Loop("attendre")) /\ Loop("attendre").kind # "listen"
      BY <1>2, FrameKinds
    <2> QED
      BY <1>1, <2>1, TopFields, PushKeeps
  <1> QED
    BY <1>1, <1>3, LoopStep, LoopTypes, Quiet

\* What the other end may send.
LEMMA FramesSent ==
    ASSUME IInv, NEW frame \in NextFrames
    PROVE  /\ Sent(frame) \in Peers
           /\ frame.payload \in Seq(Nat)
           /\ frame.op \notin {"ping", "pong", "continuation"} => frame.op \in {"text", "binary"}
PROOF
  <1>1. peer \in Peers
    BY LoopTypes
  <1>2. /\ frame.op \in {"ping", "pong", "continuation", "text", "binary"}
        /\ frame.payload \in Seq(Nat)
        /\ frame.op = "continuation" => peer.inside # "none"
    <2>1. <<>> \in Seq(Nat) /\ <<peer.count + 1>> \in Seq(Nat)
      BY <1>1 DEF Peers
    <2>2. \/ frame \in [op : {"text", "binary"}, fin : BOOLEAN, payload : {<<>>, <<peer.count + 1>>}]
          \/ /\ frame \in [op : {"continuation"}, fin : BOOLEAN, payload : {<<>>, <<peer.count + 1>>}]
             /\ peer.inside # "none"
          \/ frame \in [op : {"ping", "pong"}, fin : {TRUE}, payload : {<<>>}]
      BY DEF NextFrames
    <2> QED
      BY <2>1, <2>2
  <1> DEFINE op == IF frame.op = "continuation" THEN peer.inside ELSE frame.op
             whole == peer.message \o frame.payload
  <1>3. whole \in Seq(Nat) /\ peer.count + 1 \in Nat
    BY <1>1, <1>2, ConcatProperties DEF Peers
  <1>4. frame.op \in {"ping", "pong"} \/ op \in {"none", "text", "binary"}
    BY <1>1, <1>2 DEF Peers
  <1>5. frame.op \notin {"ping", "pong"} => Append(peer.messages, [op |-> op, payload |-> whole]) \in Seq(Messages)
    <2>1. frame.op \notin {"ping", "pong"} => [op |-> op, payload |-> whole] \in Messages
      BY <1>3, <1>4 DEF Messages
    <2>2. peer.messages \in Seq(Messages)
      BY <1>1 DEF Peers
    <2> HIDE DEF op, whole
    <2> QED
      BY <2>1, <2>2, AppendProperties
  <1>6. Sent(frame) \in Peers
    <2> HIDE DEF op, whole
    <2>1. CASE frame.op \in {"ping", "pong"}
      <3>1. [peer EXCEPT !.count = @ + 1] \in Peers
        BY <1>1, <1>3 DEF Peers
      <3> QED
        BY <2>1, <3>1 DEF Sent
    <2>2. CASE frame.op \notin {"ping", "pong"} /\ ~frame.fin
      <3>1. [peer EXCEPT !.count = @ + 1, !.inside = op, !.message = whole] \in Peers
        BY <1>1, <1>3, <1>4, <2>2 DEF Peers
      <3> QED
        BY <2>2, <3>1 DEF Sent, op, whole
    <2>3. CASE frame.op \notin {"ping", "pong"} /\ frame.fin
      <3>1. <<>> \in Seq(Nat)
        BY EmptySeq
      <3>2. [peer EXCEPT !.count = @ + 1, !.inside = "none", !.message = <<>>,
                         !.messages = Append(@, [op |-> op, payload |-> whole])] \in Peers
        BY <1>1, <1>3, <1>5, <2>3, <3>1 DEF Peers
      <3> QED
        BY <2>3, <3>2 DEF Sent, op, whole
    <2> QED
      BY <2>1, <2>2, <2>3
  <1> QED
    BY <1>2, <1>6


\* The hooks by their names.
LEMMA HookNames ==
    /\ "open" \in Hooks /\ "message" \in Hooks /\ "close" \in Hooks /\ "error" \in Hooks
    /\ "server message" \in Hooks /\ "server close" \in Hooks /\ "server error" \in Hooks
    /\ "connection" \in Hooks /\ "client" \in Hooks /\ "middleware" \in Hooks /\ "handler" \in Hooks
  BY DEF Hooks, ClientHooks, ServerHooks

\* A loop goes on to a point of its code, and may call a hook.
LEMMA LoopMoved ==
    ASSUME IInv, NEW hook \in Hooks, NEW from, At("canal", from),
           NEW point \in {"open", "read", "deliver", "dispatch", "failing", "failed", "closed", "done"},
           Notify([Top EXCEPT !.at = point], hook) \/ stack' = Goes([Top EXCEPT !.at = point])
    PROVE  stack' \in Seq(Frames) /\ Shape(stack') /\ Same(stack, stack')
PROOF
  <1>1. stack # <<>> /\ Top.kind = "canal" /\ Top \in Loops
    BY TopFields DEF At
  <1>2. [Top EXCEPT !.at = point] \in Loops
    BY <1>1, LoopMoves
  <1> QED
    BY <1>1, <1>2, LoopGoes, LoopNotifies

\* quand_ouvert is called, or not: nothing is opened or closed.
LEMMA OpenNotifiedStep ==
    ASSUME IInv, OpenNotified, UNCHANGED <<protocol, serverVars>>
    PROVE  IInv' /\ Same(stack, stack')
PROOF
  <1>1. stack' \in Seq(Frames) /\ Shape(stack') /\ Same(stack, stack')
    BY LoopMoved, HookNames DEF OpenNotified
  <1>2. /\ canal' = [canal EXCEPT !.opened = TRUE]
        /\ UNCHANGED <<raising, calls, table, conns, broken, peer, heard, server, writers, answers, client>>
    BY DEF OpenNotified, socketVars, serverVars
  <1>3. canal' \in Clients /\ canal'.fd = canal.fd
    BY <1>2, LoopTypes DEF Clients
  <1> QED
    BY <1>1, <1>2, <1>3, LoopStep, LoopTypes, Quiet

\* A peer that has ended its stream is one still.
LEMMA PeerEnds ==
    ASSUME IInv
    PROVE  [peer EXCEPT !.ended = TRUE] \in Peers
  BY LoopTypes DEF Peers

\* The end of the stream between two frames ends the loop; it opens and closes
\* nothing.
LEMMA ReceiveEndStep ==
    ASSUME IInv, ReceiveEnd, UNCHANGED <<protocol, serverVars>>
    PROVE  IInv' /\ Same(stack, stack')
PROOF
  <1>1. /\ canal' = [canal EXCEPT !.closed = TRUE] /\ peer' = [peer EXCEPT !.ended = TRUE]
        /\ UNCHANGED <<stack, raising, calls, table, conns, broken, heard, server, writers, answers, client>>
    BY DEF ReceiveEnd, socketVars, serverVars
  <1>2. canal' \in Clients /\ canal'.fd = canal.fd /\ peer' \in Peers
    BY <1>1, LoopTypes, PeerEnds DEF Clients
  <1>3. stack' \in Seq(Frames) /\ Shape(stack') /\ Same(stack, stack')
    BY <1>1, SameStack DEF IInv, TypeOK, ShapeInv
  <1> QED
    BY <1>1, <1>2, <1>3, LoopStep, LoopTypes, Quiet

\* The end inside a frame, or an error, is told to a hook; nothing is opened
\* or closed.
LEMMA ReceiveCutStep ==
    ASSUME IInv, ReceiveCut, UNCHANGED <<protocol, serverVars>>
    PROVE  IInv' /\ Same(stack, stack')
PROOF
  <1>1. stack' \in Seq(Frames) /\ Shape(stack') /\ Same(stack, stack')
    BY LoopMoved, HookNames DEF ReceiveCut
  <1>2. /\ peer' = [peer EXCEPT !.ended = TRUE]
        /\ UNCHANGED <<raising, calls, table, conns, broken, canal, heard, server, writers, answers, client>>
    BY DEF ReceiveCut, socketVars, serverVars
  <1> QED
    BY <1>1, <1>2, PeerEnds, LoopStep, LoopTypes, Quiet

\* A close frame is answered and ends the loop; it opens and closes nothing.
LEMMA ReceiveCloseStep ==
    ASSUME IInv, ReceiveClose, UNCHANGED <<protocol, serverVars>>
    PROVE  IInv' /\ Same(stack, stack')
PROOF
  <1>1. PICK sent \in SendOutcomes(canal.fd) :
           /\ broken' = Broken(canal.fd, sent)
           /\ canal' = [canal EXCEPT !.closed = sent]
           /\ raising' = IF sent THEN "nothing" ELSE "network"
    BY DEF ReceiveClose
  <1>2. /\ peer' = [peer EXCEPT !.ended = TRUE]
        /\ UNCHANGED <<stack, calls, table, conns, heard, server, writers, answers, client>>
    BY DEF ReceiveClose, serverVars
  <1>3. sent \in BOOLEAN /\ broken' \subseteq 1 .. conns
    BY <1>1, ClientFields, Sends
  <1>4. canal' \in Clients /\ canal'.fd = canal.fd /\ peer' \in Peers
    BY <1>1, <1>2, <1>3, LoopTypes, PeerEnds DEF Clients
  <1>5. stack' \in Seq(Frames) /\ Shape(stack') /\ Same(stack, stack')
    BY <1>2, SameStack DEF IInv, TypeOK, ShapeInv
  <1>6. raising' \in {"nothing", "network", "runtime"}
    BY <1>1
  <1> QED
    BY <1>2, <1>3, <1>4, <1>5, <1>6, LoopStep, LoopTypes, Quiet

\* A ping or a pong opens and closes nothing.
LEMMA ReceiveControlStep ==
    ASSUME IInv, ReceiveControl, UNCHANGED <<protocol, serverVars>>
    PROVE  IInv' /\ Same(stack, stack')
PROOF
  <1>1. PICK frame \in NextFrames :
           /\ peer' = Sent(frame)
           /\ IF frame.op = "pong" THEN UNCHANGED <<raising, broken>>
              ELSE \E sent \in SendOutcomes(canal.fd) :
                      /\ broken' = Broken(canal.fd, sent)
                      /\ raising' = IF sent THEN "nothing" ELSE "network"
    BY DEF ReceiveControl
  <1>2. UNCHANGED <<stack, calls, table, conns, canal, heard, server, writers, answers, client>>
    BY DEF ReceiveControl, serverVars
  <1>3. broken' \subseteq 1 .. conns /\ raising' \in {"nothing", "network", "runtime"}
    <2>1. CASE frame.op = "pong"
      BY <1>1, <2>1, Quiet
    <2>2. CASE frame.op # "pong"
      <3>1. PICK sent \in SendOutcomes(canal.fd) :
                    /\ broken' = Broken(canal.fd, sent)
                    /\ raising' = IF sent THEN "nothing" ELSE "network"
        BY <1>1, <2>2
      <3> QED
        BY <3>1, ClientFields, Sends
    <2> QED
      BY <2>1, <2>2
  <1>4. peer' \in Peers
    BY <1>1, FramesSent
  <1>5. stack' \in Seq(Frames) /\ Shape(stack') /\ Same(stack, stack')
    BY <1>2, SameStack DEF IInv, TypeOK, ShapeInv
  <1> QED
    BY <1>2, <1>3, <1>4, <1>5, LoopStep, LoopTypes, Quiet

\* A data frame opens and closes nothing.
LEMMA ReceiveDataStep ==
    ASSUME IInv, ReceiveData, UNCHANGED <<protocol, serverVars>>
    PROVE  IInv' /\ Same(stack, stack')
PROOF
  <1>1. PICK frame \in NextFrames :
          /\ frame.op \notin {"ping", "pong"}
          /\ peer' = Sent(frame)
          /\ LET loop == Gathered(Top, frame)
             IN IF Len(loop.buffer) > MaxUnits
                THEN Notify([loop EXCEPT !.at = "failing"], "error")
                ELSE stack' = Goes(IF ~frame.fin THEN loop
                                   ELSE IF loop.buffer = <<>> THEN [loop EXCEPT !.opcode = "none"]
                                   ELSE IF loop.opcode = "none" THEN loop
                                   ELSE [loop EXCEPT !.at = "deliver"])
    BY DEF ReceiveData
  <1>2. UNCHANGED <<raising, calls, table, conns, broken, canal, heard, server, writers, answers, client>>
    BY DEF ReceiveData, socketVars, serverVars
  <1>3. Top \in Loops /\ stack # <<>> /\ Top.kind = "canal"
    BY TopFields DEF ReceiveData, At
  <1>4. frame.payload \in Seq(Nat) /\ (frame.op # "continuation" => frame.op \in {"text", "binary"})
    BY <1>1, FramesSent
  <1> DEFINE loop == Gathered(Top, frame)
  <1>5. loop \in Loops
    <2>1. CASE frame.op = "continuation"
      <3>1. Top.buffer \o frame.payload \in Seq(Nat)
        BY <1>3, <1>4, LoopFields, ConcatProperties
      <3>2. [Top EXCEPT !.buffer = Top.buffer \o frame.payload] \in Loops
        BY <1>3, <3>1, LoopBuffers
      <3> QED
        BY <2>1, <3>2 DEF Gathered
    <2>2. CASE frame.op # "continuation"
      <3>1. [Top EXCEPT !.buffer = frame.payload] \in Loops
        BY <1>3, <1>4, LoopBuffers
      <3>2. [[Top EXCEPT !.buffer = frame.payload] EXCEPT !.opcode = frame.op] \in Loops
        BY <1>4, <2>2, <3>1, LoopOpcodes
      <3> QED
        BY <2>2, <3>2 DEF Gathered
    <2> QED
      BY <2>1, <2>2
  <1> HIDE DEF loop
  <1>6. [loop EXCEPT !.at = "failing"] \in Loops /\ [loop EXCEPT !.at = "deliver"] \in Loops
        /\ [loop EXCEPT !.opcode = "none"] \in Loops
    BY <1>5, LoopMoves, LoopOpcodes
  <1>7. \/ Notify([loop EXCEPT !.at = "failing"], "error")
        \/ stack' = Goes(loop) \/ stack' = Goes([loop EXCEPT !.opcode = "none"])
        \/ stack' = Goes([loop EXCEPT !.at = "deliver"])
    BY <1>1 DEF loop
  <1>8. stack' \in Seq(Frames) /\ Shape(stack') /\ Same(stack, stack')
    BY <1>3, <1>5, <1>6, <1>7, LoopGoes, LoopNotifies, HookNames
  <1>9. peer' \in Peers
    BY <1>1, FramesSent
  <1> QED
    BY <1>2, <1>8, <1>9, LoopStep, LoopTypes, Quiet

\* quand_message of the client is called: nothing is opened or closed.
LEMMA DeliverStep ==
    ASSUME IInv, Deliver, UNCHANGED <<protocol, serverVars>>
    PROVE  IInv' /\ Same(stack, stack')
PROOF
  <1>1. stack' \in Seq(Frames) /\ Shape(stack') /\ Same(stack, stack')
    BY LoopMoved, HookNames DEF Deliver
  <1>2. /\ heard' = IF HasHook(Top, "message")
                    THEN [heard EXCEPT !.client = Append(@, Message(Top)), !.early = @ \/ heard.over]
                    ELSE heard
        /\ UNCHANGED <<raising, calls, table, conns, broken, canal, peer, server, writers, answers, client>>
    BY DEF Deliver, socketVars, serverVars
  <1>3. heard' \in Ears
    <2>1. Top \in Loops
      BY TopFields DEF Deliver, At
    <2>2. Message(Top) \in Messages
      BY <2>1, LoopFields DEF Message, Messages
    <2>3. Append(heard.client, Message(Top)) \in Seq(Messages)
      BY <2>2, LoopTypes, AppendProperties DEF Ears
    <2>4. (heard.early \/ heard.over) \in BOOLEAN
      OBVIOUS
    <2> QED
      BY <1>2, <2>3, <2>4, LoopTypes DEF Ears
  <1> QED
    BY <1>1, <1>2, <1>3, LoopStep, LoopTypes, Quiet

\* quand_message of the server is called: nothing is opened or closed.
LEMMA DispatchStep ==
    ASSUME IInv, Dispatch, UNCHANGED <<protocol, serverVars>>
    PROVE  IInv' /\ Same(stack, stack')
PROOF
  <1>1. /\ Notify([Top EXCEPT !.at = "read", !.buffer = <<>>], "server message")
        /\ UNCHANGED <<raising, calls, table, conns, broken, canal, peer, heard, server, writers, answers, client>>
    BY DEF Dispatch, socketVars, canalVars, serverVars
  <1>2. Top \in Loops /\ stack # <<>> /\ Top.kind = "canal"
    BY TopFields DEF Dispatch, At
  <1>3. [[Top EXCEPT !.at = "read"] EXCEPT !.buffer = <<>>] \in Loops
    <2>1. [Top EXCEPT !.at = "read"] \in Loops /\ <<>> \in Seq(Nat)
      BY <1>2, LoopMoves, EmptySeq
    <2> QED
      BY <2>1, LoopBuffers
  <1>4. stack' \in Seq(Frames) /\ Shape(stack') /\ Same(stack, stack')
    BY <1>1, <1>2, <1>3, LoopNotifies, HookNames
  <1> QED
    BY <1>1, <1>4, LoopStep, LoopTypes, Quiet

\* quand_fermé is called, or not: nothing is opened or closed.
LEMMA LoopEndsStep ==
    ASSUME IInv, LoopEnds, UNCHANGED <<protocol, serverVars>>
    PROVE  IInv' /\ Same(stack, stack')
PROOF
  <1>1. stack' \in Seq(Frames) /\ Shape(stack') /\ Same(stack, stack')
    BY LoopMoved, HookNames DEF LoopEnds
  <1>2. /\ heard' = [heard EXCEPT !.over = @ \/ HasHook(Top, "close")]
        /\ UNCHANGED <<raising, calls, table, conns, broken, canal, peer, server, writers, answers, client>>
    BY DEF LoopEnds, socketVars, serverVars
  <1>3. heard' \in Ears
    <2>1. (heard.over \/ HasHook(Top, "close")) \in BOOLEAN
      OBVIOUS
    <2> QED
      BY <1>2, <2>1, LoopTypes DEF Ears
  <1> QED
    BY <1>1, <1>2, <1>3, LoopStep, LoopTypes, Quiet

\* The others move one loop on, or leave it.
LEMMA LoopPassesStep ==
    ASSUME IInv, FailServer \/ Disconnect \/ Rethrow \/ LoopReturns, UNCHANGED <<protocol, serverVars>>
    PROVE  IInv' /\ Same(stack, stack')
PROOF
  <1>1. UNCHANGED <<calls, table, conns, broken, canal, peer, heard, server, writers, answers, client>>
    BY DEF FailServer, Disconnect, Rethrow, LoopReturns, socketVars, canalVars, serverVars
  <1>2. raising' \in {"nothing", "network", "runtime"}
    BY Quiet DEF FailServer, Disconnect, Rethrow, LoopReturns
  <1>3. CASE FailServer \/ Disconnect
    <2>1. stack' \in Seq(Frames) /\ Shape(stack') /\ Same(stack, stack')
      BY <1>3, LoopMoved, HookNames DEF FailServer, Disconnect
    <2> QED
      BY <1>1, <1>2, <2>1, LoopStep, LoopTypes, Quiet
  <1>4. CASE Rethrow
    <2>1. stack' \in Seq(Frames) /\ Shape(stack') /\ Same(stack, stack')
      BY <1>4, SameStack DEF Rethrow, IInv, TypeOK, ShapeInv
    <2> QED
      BY <1>1, <1>2, <2>1, LoopStep, LoopTypes, Quiet
  <1>5. CASE LoopReturns
    <2>1. stack' \in Seq(Frames) /\ Shape(stack') /\ Same(stack, stack')
      BY <1>5, PopStep DEF LoopReturns, At
    <2> QED
      BY <1>1, <1>2, <2>1, LoopStep, LoopTypes, Quiet
  <1> QED
    BY <1>3, <1>4, <1>5

\* An exception leaves the loop, not écouter, and opens and closes nothing.
LEMMA UnwindLoopStep ==
    ASSUME IInv, UnwindLoop, UNCHANGED <<protocol, serverVars>>
    PROVE  IInv' /\ Same(stack, stack')
PROOF
  <1>1. /\ stack # <<>> /\ Top.kind = "canal" /\ stack' = Front(stack)
        /\ raising' = IF Top.by = "attendre" THEN AfterMethod ELSE raising
        /\ heard' = [heard EXCEPT !.failed = TRUE]
        /\ UNCHANGED <<calls, table, conns, broken, canal, peer, server, writers, answers, client>>
    BY DEF UnwindLoop, socketVars, serverVars
  <1>2. stack' \in Seq(Frames) /\ Shape(stack') /\ Same(stack, stack')
    BY <1>1, PopStep
  <1>3. heard' \in Ears
    BY <1>1, LoopTypes DEF Ears
  <1>4. raising' \in {"nothing", "network", "runtime"}
    BY <1>1, Quiet DEF AfterMethod
  <1> QED
    BY <1>1, <1>2, <1>3, <1>4, LoopStep, LoopTypes, Quiet

\* Every step of a CanalClient keeps the invariant, and écouter where it was.
LEMMA CanalStep ==
    ASSUME IInv, CanalOnly, UNCHANGED <<protocol, serverVars>>
    PROVE  IInv' /\ Same(stack, stack')
  BY EnvoyerStep, FermerStep, AttendreStep, OpenNotifiedStep, ReceiveEndStep, ReceiveCutStep, ReceiveCloseStep,
     ReceiveControlStep, ReceiveDataStep, DeliverStep, DispatchStep, LoopEndsStep, LoopPassesStep, UnwindLoopStep
  DEF CanalOnly, CanalCalls, CanalReceives, CanalSteps

-----------------------------------------------------------------------------
(* Requests and responses. *)

Servers == [fd : Fds \cup {None}, stopped : BOOLEAN, failed : BOOLEAN]
Connections == [fd : Fds \cup {None}, closed : BOOLEAN]
Writers == [fd : Fds, sent : BOOLEAN, conn : Kinds]

\* The types of the server, of the program's connection, of the responses and
\* of the answers.
LEMMA ServerTypes ==
    ASSUME IInv
    PROVE  /\ server \in Servers /\ client \in Connections /\ writers \in Seq(Writers)
           /\ answers \in Seq(Seq(Nat)) /\ Len(answers) = conns
           /\ DOMAIN answers = 1 .. conns /\ DOMAIN writers = 1 .. Len(writers) /\ Len(writers) \in Nat
           /\ conns \in 0 .. MaxConns /\ conns \in Nat /\ MaxConns \in Nat
  BY LenProperties DEF IInv, TypeOK, SocketsTypeOK, Servers, Connections, Writers

\* The types are kept by a step that keeps each of them.
LEMMA TypesKept ==
    ASSUME IInv, stack' \in Seq(Frames), canal' \in Clients, peer' \in Peers, heard' \in Ears,
           server' \in Servers, client' \in Connections, writers' \in Seq(Writers),
           answers' \in Seq(Seq(Nat)), Len(answers') = conns', conns' \in 0 .. MaxConns,
           table' \in [Fds -> Kinds], broken' \subseteq 1 .. conns',
           raising' \in {"nothing", "network", "runtime"}, calls' \in 0 .. MaxCalls
    PROVE  TypeOK'
  BY DEF TypeOK, SocketsTypeOK, Clients, Peers, Ears, Servers, Connections, Writers

\* One more answer on the connection of a descriptor.
LEMMA AnsweredTypes ==
    ASSUME IInv, NEW fd \in Fds \cup {None}, NEW by \in Nat
    PROVE  /\ Answered(fd, by) \in Seq(Seq(Nat)) /\ Len(Answered(fd, by)) = conns
           /\ fd \in Fds /\ table[fd] > 0 =>
                 /\ table[fd] \in 1 .. conns
                 /\ \A c \in 1 .. conns :
                       Answered(fd, by)[c] = IF c = table[fd] THEN Append(answers[c], by) ELSE answers[c]
           /\ ~(fd \in Fds /\ table[fd] > 0) => Answered(fd, by) = answers
PROOF
  <1>1. /\ answers \in Seq(Seq(Nat)) /\ Len(answers) = conns /\ DOMAIN answers = 1 .. conns /\ conns \in Nat
        /\ table \in [Fds -> Kinds] /\ Distinct(table, conns)
    BY ServerTypes, ClientFields
  <1>2. CASE fd \in Fds /\ table[fd] > 0
    <2>1. table[fd] \in 1 .. conns /\ table[fd] # None /\ table[fd] # Listening /\ fd # None
      BY <1>1, <1>2 DEF Distinct, Kinds, None, Listening, Fds
    <2> DEFINE c == table[fd]
    <2>2. c \in 1 .. conns /\ answers[c] \in Seq(Nat)
      BY <1>1, <2>1, ElementOfSeq
    <2>3. Answered(fd, by) = [answers EXCEPT ![c] = Append(answers[c], by)]
      BY <2>1 DEF Answered
    <2> HIDE DEF c
    <2> DEFINE more == Append(answers[c], by)
    <2>4. more \in Seq(Nat)
      BY <2>2, AppendProperties
    <2> HIDE DEF more
    <2>5. /\ [answers EXCEPT ![c] = more] \in Seq(Seq(Nat)) /\ Len([answers EXCEPT ![c] = more]) = conns
          /\ \A i \in 1 .. conns : [answers EXCEPT ![c] = more][i] = IF i = c THEN more ELSE answers[i]
      BY <1>1, <2>2, <2>4, ExceptSeq
    <2> QED
      BY <1>2, <2>1, <2>3, <2>5 DEF c, more
  <1>3. CASE ~(fd \in Fds /\ table[fd] > 0)
    <2>1. fd = None \/ table[fd] \in {None, Listening}
      BY <1>1, <1>3 DEF Kinds, None, Listening
    <2> QED
      BY <1>1, <1>3, <2>1 DEF Answered
  <1> QED
    BY <1>2, <1>3

\* Writer by has sent its response, or not.
LEMMA WriterSends ==
    ASSUME IInv, NEW by \in DOMAIN writers, NEW sent \in BOOLEAN
    PROVE  LET after == [writers EXCEPT ![by].sent = sent]
           IN /\ after \in Seq(Writers) /\ Len(after) = Len(writers) /\ DOMAIN after = DOMAIN writers
              /\ \A w \in DOMAIN writers : /\ after[w].fd = writers[w].fd /\ after[w].conn = writers[w].conn
                                           /\ after[w].sent = IF w = by THEN sent ELSE writers[w].sent
PROOF
  <1>1. writers \in Seq(Writers) /\ DOMAIN writers = 1 .. Len(writers) /\ by \in 1 .. Len(writers)
    BY ServerTypes
  <1>2. \A w \in DOMAIN writers : writers[w] \in Writers
    BY <1>1, ElementOfSeq
  <1> DEFINE one == [writers[by] EXCEPT !.sent = sent]
  <1>3. one \in Writers /\ one.fd = writers[by].fd /\ one.conn = writers[by].conn /\ one.sent = sent
    BY <1>2 DEF Writers
  <1> HIDE DEF one
  <1> DEFINE after == [writers EXCEPT ![by] = one]
  <1>4. /\ after \in Seq(Writers) /\ Len(after) = Len(writers)
        /\ \A w \in 1 .. Len(writers) : after[w] = IF w = by THEN one ELSE writers[w]
    BY <1>1, <1>3, ExceptSeq
  <1>5. DOMAIN after = DOMAIN writers
    BY <1>1
  <1>6. \A w \in DOMAIN writers : /\ after[w].fd = writers[w].fd /\ after[w].conn = writers[w].conn
                                  /\ after[w].sent = IF w = by THEN sent ELSE writers[w].sent
    BY <1>1, <1>3, <1>4
  <1> QED
    BY <1>4, <1>5, <1>6 DEF one

\* A native sends a response.
LEMMA ResponseTypes ==
    ASSUME IInv, NEW fd \in Fds \cup {None}, NEW by \in 0 .. Len(writers), SendsResponse(fd, by)
    PROVE  /\ broken' \subseteq 1 .. conns /\ raising' \in {"nothing", "network", "runtime"}
           /\ answers' \in Seq(Seq(Nat)) /\ Len(answers') = conns
           /\ writers' \in Seq(Writers) /\ DOMAIN writers' = DOMAIN writers
PROOF
  <1>1. PICK sent \in SendOutcomes(fd) :
           /\ broken' = Broken(fd, sent)
           /\ answers' = IF sent THEN Answered(fd, by) ELSE answers
           /\ writers' = IF sent /\ by # 0 THEN [writers EXCEPT ![by].sent = TRUE] ELSE writers
           /\ raising' = IF sent THEN "nothing" ELSE "network"
    BY DEF SendsResponse
  <1>2. broken' \subseteq 1 .. conns /\ sent \in BOOLEAN
    BY <1>1, Sends
  <1>3. by \in Nat /\ (by # 0 => by \in DOMAIN writers)
    BY ServerTypes
  <1>4. answers' \in Seq(Seq(Nat)) /\ Len(answers') = conns
    BY <1>1, <1>2, <1>3, AnsweredTypes, ServerTypes
  <1>5. writers' \in Seq(Writers) /\ DOMAIN writers' = DOMAIN writers
    <2>1. CASE sent /\ by # 0
      <3>1. [writers EXCEPT ![by].sent = TRUE] \in Seq(Writers) /\ DOMAIN [writers EXCEPT ![by].sent = TRUE] = DOMAIN writers
        BY <1>3, <2>1, WriterSends
      <3> QED
        BY <1>1, <2>1, <3>1
    <2>2. CASE ~(sent /\ by # 0)
      BY <1>1, <2>2, ServerTypes
    <2> QED
      BY <2>1, <2>2
  <1> QED
    BY <1>1, <1>2, <1>4, <1>5


-----------------------------------------------------------------------------
(* écouter. *)

\* écouter, on top, goes on or calls a function: it stays the second of the
\* stack.
LEMMA ListenGoes ==
    ASSUME IInv, stack # <<>>, Top.kind = "listen", NEW f \in Listeners,
           stack' = Goes(f) \/ \E c \in Frames : c.kind # "listen" /\ stack' = Append(Goes(f), c)
    PROVE  stack' \in Seq(Frames) /\ Shape(stack') /\ Listens(stack') /\ stack'[2] = f
PROOF
  <1>1. f \in Frames /\ f.kind = "listen" /\ IsNative(f)
    BY FrameKinds
  <1>2. stack \in Seq(Frames) /\ Shape(stack) /\ Last(stack).kind = "listen"
    BY TopFields
  <1>3. CASE stack' = Goes(f)
    BY <1>1, <1>2, <1>3, GoesKeeps DEF Goes
  <1>4. ASSUME NEW c \in Frames, c.kind # "listen", stack' = Append(Goes(f), c)
        PROVE  stack' \in Seq(Frames) /\ Shape(stack') /\ Listens(stack') /\ stack'[2] = f
    BY <1>1, <1>2, <1>4, CallKeeps DEF Goes
  <1> QED
    BY <1>3, <1>4

\* A callback that écouter calls is above it.
LEMMA ListenCalls ==
    ASSUME NEW f, NEW hook \in Hooks, stack' = Calls(f, hook)
    PROVE  \E c \in Frames : c.kind # "listen" /\ stack' = Append(Goes(f), c)
PROOF
  <1>1. Callback(hook) \in Frames /\ Callback(hook).kind # "listen"
    BY FrameKinds
  <1> QED
    BY <1>1 DEF Calls

\* écouter goes on with the same locals, and may call something.
LEMMA ListenMoves ==
    ASSUME IInv, stack # <<>>, Top.kind = "listen", NEW f, Locals(Top, f),
           stack' = Goes(f) \/ \E c \in Frames : c.kind # "listen" /\ stack' = Append(Goes(f), c),
           f.at \in {"request"} \cup Serving <=> Top.at \in {"request"} \cup Serving,
           f.at \in Serving => Top.at \in Serving,
           UNCHANGED <<calls, table, conns, canal, peer, heard, server, client>>,
           broken' \subseteq 1 .. conns, raising' \in {"nothing", "network", "runtime"},
           answers' \in Seq(Seq(Nat)), Len(answers') = conns,
           writers' \in Seq(Writers), DOMAIN writers' = DOMAIN writers
    PROVE  IInv' /\ Moves(Top.at, f.at)
PROOF
  <1>1. stack' \in Seq(Frames) /\ Shape(stack') /\ Listens(stack') /\ stack'[2] = f
    BY ListenGoes DEF Locals
  <1>2. TypeOK'
    BY <1>1, TypesKept, LoopTypes, ServerTypes, ClientFields, Quiet
  <1>3. Listens(stack) /\ stack[2] = Top
    BY TopFields
  <1> QED
    BY <1>1, <1>2, <1>3, ListenStep DEF Moves

\* What a step that touches the stack alone leaves as it was.
LEMMA Untouched ==
    ASSUME IInv, UNCHANGED <<raising, calls, socketVars, canalVars, protocol, serverVars>>
    PROVE  /\ UNCHANGED <<calls, table, conns, canal, peer, heard, server, client>>
           /\ broken' \subseteq 1 .. conns /\ raising' \in {"nothing", "network", "runtime"}
           /\ answers' \in Seq(Seq(Nat)) /\ Len(answers') = conns
           /\ writers' \in Seq(Writers) /\ DOMAIN writers' = DOMAIN writers
PROOF
  <1>1. UNCHANGED <<raising, calls, table, conns, broken, canal, peer, heard, server, writers, answers, client>>
    BY DEF socketVars, canalVars, serverVars
  <1> QED
    BY <1>1, ServerTypes, Quiet

\* The callback of a TCP connection has returned: écouter accepts the next.
LEMMA AfterConnectionStep ==
    ASSUME IInv, AfterConnection
    PROVE  IInv' /\ Moves("connected", "accept")
PROOF
  <1>1. stack # <<>> /\ Top \in Listeners /\ Top.kind = "listen" /\ Top.at = "connected"
    BY TopFields DEF AfterConnection, At
  <1> DEFINE f == [Top EXCEPT !.at = "accept"]
  <1>2. Locals(Top, f) /\ f.at = "accept"
    BY <1>1, ListenerMoves
  <1>3. stack' = Goes(f) /\ UNCHANGED <<raising, calls, socketVars, canalVars, protocol, serverVars>>
    BY DEF AfterConnection
  <1> HIDE DEF f
  <1> QED
    BY <1>1, <1>2, <1>3, Untouched, ListenMoves DEF Serving

\* A response that is sent ends the chain.
LEMMA ChainEndsStep ==
    ASSUME IInv, ChainEnds
    PROVE  IInv' /\ Moves("chain", "answer")
PROOF
  <1>1. stack # <<>> /\ Top \in Listeners /\ Top.kind = "listen" /\ Top.at = "chain"
    BY TopFields DEF ChainEnds, At
  <1> DEFINE f == [Top EXCEPT !.at = "answer"]
  <1>2. Locals(Top, f) /\ f.at = "answer"
    BY <1>1, ListenerMoves
  <1>3. stack' = Goes(f) /\ UNCHANGED <<raising, calls, socketVars, canalVars, protocol, serverVars>>
    BY DEF ChainEnds
  <1> HIDE DEF f
  <1> QED
    BY <1>1, <1>2, <1>3, Untouched, ListenMoves DEF Serving

\* The next middleware is called.
LEMMA CallMiddlewareStep ==
    ASSUME IInv, CallMiddleware
    PROVE  IInv' /\ Moves("chain", "middleware")
PROOF
  <1>1. stack # <<>> /\ Top \in Listeners /\ Top.kind = "listen" /\ Top.at = "chain"
    BY TopFields DEF CallMiddleware, At
  <1> DEFINE g == [Top EXCEPT !.at = "middleware"]
             f == [Top EXCEPT !.at = "middleware", !.proceeded = FALSE]
  <1>2. Locals(Top, g) /\ g.at = "middleware"
    BY <1>1, ListenerMoves
  <1>3. f = [g EXCEPT !.proceeded = FALSE]
    OBVIOUS
  <1>4. Locals(g, f) /\ f.at = g.at
    <2> HIDE DEF g, f
    <2> QED
      BY <1>2, <1>3, ListenerChains DEF Locals
  <1>5. stack' = Calls(f, "middleware") /\ UNCHANGED <<raising, calls, socketVars, canalVars, protocol, serverVars>>
    BY DEF CallMiddleware
  <1> HIDE DEF g, f
  <1>6. Locals(Top, f) /\ f.at = "middleware"
    BY <1>2, <1>4 DEF Locals
  <1>7. \E c \in Frames : c.kind # "listen" /\ stack' = Append(Goes(f), c)
    BY <1>5, ListenCalls, HookNames
  <1> QED
    BY <1>1, <1>5, <1>6, <1>7, Untouched, ListenMoves DEF Serving

\* A middleware has returned: the chain goes on or ends.
LEMMA AfterMiddlewareStep ==
    ASSUME IInv, AfterMiddleware
    PROVE  IInv' /\ (Moves("middleware", "chain") \/ Moves("middleware", "answer"))
PROOF
  <1>1. stack # <<>> /\ Top \in Listeners /\ Top.kind = "listen" /\ Top.at = "middleware"
    BY TopFields DEF AfterMiddleware, At
  <1> DEFINE g == [Top EXCEPT !.at = "chain"]
             f == [g EXCEPT !.index = Top.index + 1]
             e == [Top EXCEPT !.at = "answer"]
  <1>2. Locals(Top, g) /\ g.at = "chain" /\ Locals(Top, e) /\ e.at = "answer" /\ Top.index + 1 \in Nat
    <2>1. Locals(Top, g) /\ g.at = "chain"
      BY <1>1, ListenerMoves
    <2>2. Locals(Top, e) /\ e.at = "answer"
      BY <1>1, ListenerMoves
    <2>3. Top.index + 1 \in Nat
      BY <1>1, ListenerFields
    <2> QED
      BY <2>1, <2>2, <2>3
  <1>3. Locals(g, f) /\ f.at = g.at
    <2> HIDE DEF g
    <2> QED
      BY <1>2, ListenerChains DEF Locals
  <1>4. f = [Top EXCEPT !.at = "chain", !.index = @ + 1]
    OBVIOUS
  <1>5. stack' = Goes(f) \/ stack' = Goes(e)
    BY <1>4 DEF AfterMiddleware
  <1>6. UNCHANGED <<raising, calls, socketVars, canalVars, protocol, serverVars>>
    BY DEF AfterMiddleware
  <1> HIDE DEF g, f, e
  <1>7. Locals(Top, f) /\ f.at = "chain"
    BY <1>2, <1>3 DEF Locals
  <1>8. CASE stack' = Goes(f)
    BY <1>1, <1>6, <1>7, <1>8, Untouched, ListenMoves DEF Serving
  <1>9. CASE stack' = Goes(e)
    BY <1>1, <1>2, <1>6, <1>9, Untouched, ListenMoves DEF Serving
  <1> QED
    BY <1>5, <1>8, <1>9

\* The handler of the route is called.
LEMMA CallHandlerStep ==
    ASSUME IInv, CallHandler
    PROVE  IInv' /\ Moves("chain", "answer")
PROOF
  <1>1. stack # <<>> /\ Top \in Listeners /\ Top.kind = "listen" /\ Top.at = "chain"
    BY TopFields DEF CallHandler, At
  <1> DEFINE f == [Top EXCEPT !.at = "answer"]
  <1>2. Locals(Top, f) /\ f.at = "answer"
    BY <1>1, ListenerMoves
  <1>3. stack' = Calls(f, "handler") /\ UNCHANGED <<raising, calls, socketVars, canalVars, protocol, serverVars>>
    BY DEF CallHandler
  <1> HIDE DEF f
  <1>4. \E c \in Frames : c.kind # "listen" /\ stack' = Append(Goes(f), c)
    BY <1>3, ListenCalls, HookNames
  <1> QED
    BY <1>1, <1>2, <1>3, <1>4, Untouched, ListenMoves DEF Serving

\* The loop of a new CanalClient starts above écouter.
LEMMA RunsLoopStep ==
    ASSUME IInv, RunsLoop
    PROVE  IInv' /\ Moves("upgraded", "looped")
PROOF
  <1>1. stack # <<>> /\ Top \in Listeners /\ Top.kind = "listen" /\ Top.at = "upgraded"
    BY TopFields DEF RunsLoop, At
  <1> DEFINE f == [Top EXCEPT !.at = "looped"]
             c == Loop(IF protocol = "canal" THEN "server" ELSE "http")
  <1>2. Locals(Top, f) /\ f.at = "looped"
    BY <1>1, ListenerMoves
  <1>3. c \in Loops
    <2>1. <<>> \in Seq(Nat)
      BY EmptySeq
    <2> QED
      BY <2>1 DEF Loop, Loops
  <1>4. stack' = Append(Goes(f), c) /\ UNCHANGED <<raising, calls, socketVars, canalVars, protocol, serverVars>>
    BY DEF RunsLoop
  <1> HIDE DEF f, c
  <1>5. c \in Frames /\ c.kind # "listen"
    BY <1>3, FrameKinds
  <1> QED
    BY <1>1, <1>2, <1>4, <1>5, Untouched, ListenMoves DEF Serving

\* While a request is served its descriptor and its writer are known.
LEMMA Served ==
    ASSUME IInv, stack # <<>>, Top.kind = "listen"
    PROVE  /\ Top.at \in {"request"} \cup Serving => Top.client \in Fds /\ table[Top.client] > 0
           /\ Top.at \notin {"request"} \cup Serving => Top.client = None
           /\ Top.at \in Serving => Top.writer \in DOMAIN writers /\ Top.writer \in 0 .. Len(writers)
           /\ Request(stack) = Top.client /\ Top.fd \in Fds
           /\ ~server.stopped => Top.fd = server.fd
PROOF
  <1>1. Top \in Listeners /\ Listens(stack) /\ stack[2] = Top
    BY TopFields
  <1>2. Listening2(Top) /\ Request(stack) = Top.client
    BY <1>1 DEF IInv, ListenInv, Request
  <1>3. Owned(table, server.fd, client.fd, canal.fd, Top.client)
    BY <1>2, ClientFields
  <1>4. Top.client \in Fds \cup {None} /\ Top.fd \in Fds
    BY <1>1, ListenerFields
  <1> QED
    BY <1>2, <1>3, <1>4, ServerTypes DEF Listening2, Owned

\* No route: a 404 is the answer, and écouter goes on to the end of the
\* request.
LEMMA NotFoundStep ==
    ASSUME IInv, NotFound
    PROVE  IInv' /\ Moves("chain", "answer")
PROOF
  <1>1. stack # <<>> /\ Top \in Listeners /\ Top.kind = "listen" /\ Top.at = "chain"
    BY TopFields DEF NotFound, At
  <1> DEFINE f == [Top EXCEPT !.at = "answer"]
  <1>2. Locals(Top, f) /\ f.at = "answer"
    BY <1>1, ListenerMoves
  <1>3. /\ stack' = Goes(f) /\ SendsResponse(Top.client, Top.writer)
        /\ UNCHANGED <<calls, table, conns, canal, peer, heard, server, client>>
    BY DEF NotFound, canalVars
  <1> HIDE DEF f
  <1>4. Top.client \in Fds \cup {None} /\ Top.writer \in 0 .. Len(writers)
    BY <1>1, Served DEF Serving
  <1>5. /\ broken' \subseteq 1 .. conns /\ raising' \in {"nothing", "network", "runtime"}
        /\ answers' \in Seq(Seq(Nat)) /\ Len(answers') = conns
        /\ writers' \in Seq(Writers) /\ DOMAIN writers' = DOMAIN writers
    BY <1>3, <1>4, ResponseTypes
  <1> QED
    BY <1>1, <1>2, <1>3, <1>5, ListenMoves DEF Serving


-----------------------------------------------------------------------------
(* Steps that open a descriptor or close one. *)

\* The invariant from its parts, after a step.
LEMMA Joined ==
    ASSUME TypeOK', Shape(stack'), Distinct(table', conns'), NEW d, Request(stack') = d,
           Owned(table', server'.fd, client'.fd, canal'.fd, d), ListenInv'
    PROVE  IInv'
  BY DEF IInv, ShapeInv, DistinctInv, OwnedInv

\* What écouter keeps of its locals holds when neither they nor the listening
\* descriptor change.
LEMMA ListenStays ==
    ASSUME IInv, Same(stack, stack'), DOMAIN writers' = DOMAIN writers,
           server'.stopped \/ (server'.fd = server.fd /\ server'.stopped = server.stopped)
    PROVE  ListenInv' /\ Request(stack') = Request(stack)
  BY DEF IInv, ListenInv, Listening2, Request, Same

\* Once écouter has ended there is no request.
LEMMA ListenLeft ==
    ASSUME IInv, stack # <<>>, Top.kind = "listen", stack' = Front(stack)
    PROVE  stack' \in Seq(Frames) /\ Shape(stack') /\ ListenInv' /\ Request(stack') = None
PROOF
  <1>1. stack' \in Seq(Frames) /\ Shape(stack') /\ ~Listens(stack')
    BY TopFields, PopKeeps
  <1> QED
    BY <1>1 DEF ListenInv, Request

\* The program is not inside of écouter when it calls it.
LEMMA Outside ==
    ASSUME IInv, stack # <<>>, Natives = {}
    PROVE  Len(stack) = 1 /\ Request(stack) = None /\ ~Listens(stack)
PROOF
  <1>1. stack \in Seq(Frames) /\ Shape(stack) /\ Len(stack) \in Nat /\ DOMAIN stack = 1 .. Len(stack) /\ Len(stack) # 0
    BY LenProperties, EmptySeq DEF IInv, TypeOK, ShapeInv
  <1>2. \A i \in DOMAIN stack : ~IsNative(stack[i])
    BY DEF Natives
  <1>3. ~(Len(stack) > 1)
    <2>1. SUFFICES ASSUME Len(stack) > 1
                   PROVE  FALSE
      OBVIOUS
    <2>2. 2 \in DOMAIN stack /\ 1 \in DOMAIN stack /\ 2 - 1 = 1
      BY <1>1, <2>1
    <2> QED
      BY <1>1, <1>2, <2>2 DEF Shape
  <1> QED
    BY <1>1, <1>3 DEF Request, Listens

\* écouter opens a descriptor that nobody owns, or fails and leaves every
\* descriptor as it was.
LEMMA EcouterStep ==
    ASSUME IInv, Ecouter
    PROVE  /\ IInv'
           /\ \/ Same(stack, stack') /\ table' = table
              \/ /\ Listens(stack') /\ stack'[2].at = "accept" /\ stack'[2].taken = {} /\ stack'[2].client = None
                 /\ ~Listens(stack)
PROOF
  <1>1. /\ stack # <<>> /\ calls < MaxCalls /\ calls' = calls + 1 /\ Natives = {} /\ server.fd = None
        /\ UNCHANGED <<raising, conns, broken, canal, peer, heard, writers, answers, client>>
    BY DEF Ecouter, MayCall, Running, Counted, canalVars
  <1>2. calls' \in 0 .. MaxCalls
    BY <1>1, Quiet
  <1>3. CASE UNCHANGED <<stack, table, server>>
    <2>1. TypeOK'
      BY <1>1, <1>2, <1>3 DEF IInv, TypeOK, SocketsTypeOK
    <2> QED
      BY <1>1, <1>3, <2>1, QuietStep, SameStack DEF IInv, ShapeInv
  <1>4. CASE /\ Unused # {}
             /\ table' = [table EXCEPT ![Lowest] = Listening]
             /\ server' = [server EXCEPT !.fd = Lowest, !.stopped = FALSE]
             /\ stack' = Append(stack, Ecoute(Lowest))
    <2> DEFINE fd == Lowest
               f == Ecoute(fd)
    <2>1. fd \in Fds /\ table[fd] = None /\ Listening \in Kinds
      BY <1>4, LowestIsUnused DEF Kinds
    <2> HIDE DEF fd
    <2>2. f \in Listeners /\ f.at = "accept" /\ f.client = None /\ f.fd = fd /\ f.taken = {}
      BY <2>1 DEF Ecoute, Listeners
    <2>3. f \in Frames /\ f.kind = "listen" /\ IsNative(f)
      BY <2>2, FrameKinds
    <2> HIDE DEF f
    <2>4. table' = [table EXCEPT ![fd] = Listening] /\ stack' = Append(stack, f)
      BY <1>4 DEF fd, f
    <2>5. server' \in Servers /\ server'.fd = fd /\ ~server'.stopped
      <3>1. server' = [server EXCEPT !.fd = fd, !.stopped = FALSE]
        BY <1>4 DEF fd
      <3> QED
        BY <2>1, <3>1, ServerTypes DEF Servers
    <2>6. stack' \in Seq(Frames) /\ Shape(stack') /\ Listens(stack') /\ stack'[2] = f
      BY <1>1, <2>3, <2>4, Outside, PushKeeps DEF IInv, TypeOK, ShapeInv
    <2>7. table' \in [Fds -> Kinds] /\ Owned(table', fd, client.fd, canal.fd, None)
      <3>1. Owned(table, None, client.fd, canal.fd, None)
        BY <1>1, ClientFields, Outside
      <3>2. table \in [Fds -> Kinds]
        BY ClientFields
      <3>3. \A a, b, c, d : Owned(table, a, b, c, d) =>
               /\ table' \in [Fds -> Kinds]
               /\ a = None /\ Listening = Listening => Owned(table', fd, b, c, d)
        BY <2>1, <2>4, <3>2, OwnedOpens, Zenon
      <3> QED
        BY <3>1, <3>3
    <2>8. Distinct(table', conns')
      BY <1>1, <2>1, <2>4, ClientFields, DistinctOpens
    <2>9. TypeOK'
      BY <1>1, <1>2, <2>5, <2>6, <2>7, TypesKept, LoopTypes, ServerTypes, Quiet
    <2>10. ListenInv' /\ Request(stack') = None
      BY <2>2, <2>5, <2>6 DEF ListenInv, Listening2, Request, Serving
    <2>11. ~Listens(stack)
      BY <1>1, Outside DEF Listens
    <2>12. IInv'
      BY <1>1, <2>5, <2>6, <2>7, <2>8, <2>9, <2>10, Joined
    <2> QED
      BY <2>2, <2>6, <2>11, <2>12
  <1> QED
    BY <1>3, <1>4 DEF Ecouter

\* arrêter closes the listening descriptor, which nobody else owns.
LEMMA ArreterStep ==
    ASSUME IInv, Arreter
    PROVE  IInv'
PROOF
  <1>1. /\ server' = [server EXCEPT !.stopped = TRUE, !.fd = None] /\ table' = Closing(server.fd)
        /\ UNCHANGED <<stack, raising, calls, conns, broken, canal, peer, heard, writers, answers, client>>
    BY DEF Arreter, canalVars
  <1>2. server' \in Servers /\ server'.fd = None /\ server'.stopped
    BY <1>1, ServerTypes DEF Servers
  <1>3. /\ table' \in [Fds -> Kinds] /\ Distinct(table', conns)
        /\ Owned(table', None, client.fd, canal.fd, Request(stack))
    BY <1>1, Closes
  <1>4. stack' \in Seq(Frames) /\ Shape(stack') /\ Same(stack, stack')
    BY <1>1, SameStack DEF IInv, TypeOK, ShapeInv
  <1>5. TypeOK'
    BY <1>1, <1>2, <1>3, <1>4, TypesKept, LoopTypes, ServerTypes, Quiet
  <1>6. ListenInv' /\ Request(stack') = Request(stack)
    BY <1>1, <1>2, <1>4, ListenStays
  <1> QED
    BY <1>1, <1>2, <1>3, <1>4, <1>5, <1>6, Joined

\* écouter returns once the server is stopped, and the server owns no
\* descriptor.
LEMMA StopListeningStep ==
    ASSUME IInv, StopListening
    PROVE  IInv'
PROOF
  <1>1. /\ stack # <<>> /\ Top.kind = "listen" /\ Top.at = "accept" /\ stack' = Front(stack)
        /\ server' = [server EXCEPT !.fd = None] /\ table' = Closing(server.fd)
        /\ UNCHANGED <<raising, calls, conns, broken, canal, peer, heard, writers, answers, client>>
    BY DEF StopListening, At, canalVars
  <1>2. Request(stack) = None
    BY <1>1, Served DEF Serving
  <1>3. server' \in Servers /\ server'.fd = None
    BY <1>1, ServerTypes DEF Servers
  <1>4. /\ table' \in [Fds -> Kinds] /\ Distinct(table', conns)
        /\ Owned(table', None, client.fd, canal.fd, None)
    BY <1>1, <1>2, Closes
  <1>5. stack' \in Seq(Frames) /\ Shape(stack') /\ ListenInv' /\ Request(stack') = None
    BY <1>1, ListenLeft
  <1>6. TypeOK'
    BY <1>1, <1>3, <1>4, <1>5, TypesKept, LoopTypes, ServerTypes, Quiet
  <1> QED
    BY <1>1, <1>3, <1>4, <1>5, <1>6, Joined

\* An exception that leaves écouter closes the descriptor of the client it
\* has, and leaves the listening one to the server.
LEMMA UnwindListenStep ==
    ASSUME IInv, UnwindListen
    PROVE  IInv'
PROOF
  <1>1. /\ stack # <<>> /\ Top.kind = "listen" /\ stack' = Front(stack)
        /\ raising' = AfterMethod /\ server' = [server EXCEPT !.failed = TRUE]
        /\ UNCHANGED <<calls, conns, broken, canal, peer, heard, writers, answers>>
    BY DEF UnwindListen, canalVars
  <1>2. server' \in Servers /\ server'.fd = server.fd /\ raising' \in {"nothing", "network", "runtime"}
    BY <1>1, ServerTypes, Quiet DEF Servers, AfterMethod
  <1>3. stack' \in Seq(Frames) /\ Shape(stack') /\ ListenInv' /\ Request(stack') = None
    BY <1>1, ListenLeft
  <1>4. /\ table' \in [Fds -> Kinds] /\ Distinct(table', conns) /\ client' \in Connections
        /\ Owned(table', server.fd, client'.fd, canal.fd, None)
    <2>1. CASE Top.at = "connected"
      <3>1. table' = Closing(client.fd) /\ client' = [fd |-> None, closed |-> TRUE]
        BY <2>1 DEF UnwindListen
      <3>2. Request(stack) = None
        BY <1>1, <2>1, Served DEF Serving
      <3>3. client' \in Connections /\ client'.fd = None
        BY <3>1 DEF Connections
      <3> QED
        BY <3>1, <3>2, <3>3, Closes
    <2>2. CASE Top.at # "connected"
      <3>1. table' = Closing(Request(stack)) /\ client' = client
        BY <1>1, <2>2, Served DEF UnwindListen
      <3> QED
        BY <3>1, Closes, ServerTypes
    <2> QED
      BY <2>1, <2>2
  <1>5. TypeOK'
    BY <1>1, <1>2, <1>3, <1>4, TypesKept, LoopTypes, ServerTypes, Quiet
  <1> QED
    BY <1>1, <1>2, <1>3, <1>4, <1>5, Joined


\* A connection is made, and nobody has answered on it.
LEMMA Connected ==
    ASSUME IInv, NEW fd \in Fds, Connects(fd), answers' = Append(answers, <<>>)
    PROVE  /\ table[fd] = None /\ conns' = conns + 1 /\ conns' \in 0 .. MaxConns
           /\ table' = [table EXCEPT ![fd] = conns + 1] /\ table' \in [Fds -> Kinds] /\ Distinct(table', conns')
           /\ broken' = broken /\ broken' \subseteq 1 .. conns'
           /\ answers' \in Seq(Seq(Nat)) /\ Len(answers') = conns'
           /\ client.fd = None => Owned(table', server.fd, fd, canal.fd, Request(stack))
           /\ Request(stack) = None => Owned(table', server.fd, client.fd, canal.fd, fd)
PROOF
  <1>1. /\ Unused # {} /\ conns < MaxConns /\ fd = Lowest /\ conns' = conns + 1 /\ broken' = broken
        /\ table' = [table EXCEPT ![fd] = conns + 1]
    BY DEF Connects
  <1>2. table[fd] = None
    BY <1>1, LowestIsUnused
  <1>3. conns \in Nat /\ conns + 1 \in Kinds /\ conns + 1 > 0 /\ conns' \in 0 .. MaxConns
    BY <1>1, ServerTypes DEF Kinds
  <1>4. broken' \subseteq 1 .. conns'
    BY <1>1, <1>3, Quiet
  <1>5. answers' \in Seq(Seq(Nat)) /\ Len(answers') = conns'
    <2>1. answers \in Seq(Seq(Nat)) /\ Len(answers) = conns
      BY ServerTypes
    <2>2. <<>> \in Seq(Nat)
      BY EmptySeq
    <2> QED
      BY <1>1, <2>1, <2>2, AppendProperties
  <1>6. Distinct(table', conns')
    BY <1>1, <1>3, ClientFields, DistinctOpens
  <1> DEFINE kind == conns + 1
             d == Request(stack)
  <1> HIDE DEF kind, d
  <1>7. /\ table' \in [Fds -> Kinds]
        /\ client.fd = None => Owned(table', server.fd, fd, canal.fd, d)
        /\ d = None => Owned(table', server.fd, client.fd, canal.fd, fd)
    <2>1. table \in [Fds -> Kinds] /\ Owned(table, server.fd, client.fd, canal.fd, d)
      BY ClientFields DEF d
    <2>2. kind \in Kinds /\ kind > 0 /\ table' = [table EXCEPT ![fd] = kind]
      BY <1>1, <1>3 DEF kind
    <2>3. \A a, b, c, e : Owned(table, a, b, c, e) =>
             /\ table' \in [Fds -> Kinds]
             /\ b = None /\ kind > 0 => Owned(table', a, fd, c, e)
             /\ e = None /\ kind > 0 => Owned(table', a, b, c, fd)
      BY <1>2, <2>1, <2>2, OwnedOpens, Zenon
    <2> QED
      BY <2>1, <2>2, <2>3
  <1> QED
    BY <1>1, <1>2, <1>3, <1>4, <1>5, <1>6, <1>7 DEF d

\* accept gives a descriptor that nobody owns: to the callback of a TCP
\* server, or to a request.
LEMMA AcceptClientStep ==
    ASSUME IInv, AcceptClient
    PROVE  /\ IInv' /\ (protocol = "tcp" => Moves("accept", "connected"))
           /\ protocol # "tcp" =>
                 \E fd \in Fds : Connects(fd) /\ Turns("request", fd, stack[2].taken \cup {conns + 1})
PROOF
  <1>1. PICK fd \in Fds :
          /\ Connects(fd)
          /\ answers' = Append(answers, <<>>)
          /\ IF protocol = "tcp"
             THEN /\ client.fd = None
                  /\ client' = [fd |-> fd, closed |-> FALSE]
                  /\ stack' = Calls([Top EXCEPT !.at = "connected"], "connection")
             ELSE /\ stack' = Goes([Top EXCEPT !.at = "request", !.client = fd,
                                               !.taken = @ \cup {conns + 1}])
                  /\ UNCHANGED client
    BY DEF AcceptClient
  <1>2. /\ stack # <<>> /\ Top.kind = "listen" /\ Top.at = "accept" /\ Top \in Listeners
        /\ UNCHANGED <<raising, calls, canal, peer, heard, server, writers>>
    BY TopFields DEF AcceptClient, At, canalVars
  <1>3. /\ table' \in [Fds -> Kinds] /\ Distinct(table', conns') /\ conns' \in 0 .. MaxConns
        /\ conns \in Nat /\ broken' \subseteq 1 .. conns' /\ answers' \in Seq(Seq(Nat)) /\ Len(answers') = conns'
        /\ client.fd = None => Owned(table', server.fd, fd, canal.fd, Request(stack))
        /\ Request(stack) = None => Owned(table', server.fd, client.fd, canal.fd, fd)
    BY <1>1, Connected, ServerTypes
  <1>4. Request(stack) = None /\ Top.client = None /\ (~server.stopped => Top.fd = server.fd)
    BY <1>2, Served DEF Serving
  <1>5. CASE protocol = "tcp"
    <2> DEFINE f == [Top EXCEPT !.at = "connected"]
    <2>1. Locals(Top, f) /\ f.at = "connected"
      BY <1>2, ListenerMoves
    <2>2. client.fd = None /\ client' = [fd |-> fd, closed |-> FALSE] /\ stack' = Calls(f, "connection")
      BY <1>1, <1>5
    <2> HIDE DEF f
    <2>3. \E c \in Frames : c.kind # "listen" /\ stack' = Append(Goes(f), c)
      BY <2>2, ListenCalls, HookNames
    <2>4. stack' \in Seq(Frames) /\ Shape(stack') /\ Listens(stack') /\ stack'[2] = f
      BY <1>2, <2>1, <2>3, ListenGoes DEF Locals
    <2>5. client' \in Connections /\ client'.fd = fd
      BY <2>2 DEF Connections
    <2>6. TypeOK'
      BY <1>2, <1>3, <2>4, <2>5, TypesKept, LoopTypes, ServerTypes, Quiet
    <2>7. ListenInv' /\ Request(stack') = None
      BY <1>2, <1>4, <2>1, <2>4 DEF ListenInv, Listening2, Request, Serving, Locals
    <2>8. Moves("accept", "connected")
      BY <1>2, <2>1, <2>4, TopFields DEF Moves
    <2> QED
      BY <1>2, <1>3, <1>4, <1>5, <2>2, <2>4, <2>5, <2>6, <2>7, <2>8, Joined
  <1>6. CASE protocol # "tcp"
    <2> DEFINE g == [Top EXCEPT !.at = "request"]
               h == [g EXCEPT !.client = fd]
               all == Top.taken \cup {conns + 1}
               f == [h EXCEPT !.taken = all]
    <2>1. Locals(Top, g) /\ g.at = "request"
      BY <1>2, ListenerMoves
    <2>2. h \in Listeners /\ h.client = fd /\ h.at = g.at /\ h.fd = g.fd
      <3> HIDE DEF g
      <3> QED
        BY <2>1, ListenerTakes DEF Locals
    <2>3. all \in SUBSET Nat
      BY <1>2, <1>3, ListenerFields
    <2>4. f \in Listeners /\ f.at = h.at /\ f.fd = h.fd /\ f.client = h.client /\ f.taken = all
      <3> HIDE DEF h, all
      <3> QED
        BY <2>2, <2>3, ListenerCounts
    <2>5. f = [Top EXCEPT !.at = "request", !.client = fd, !.taken = @ \cup {conns + 1}]
      OBVIOUS
    <2>6. stack' = Goes(f) /\ client' = client
      BY <1>1, <1>6, <2>5
    <2> HIDE DEF g, h, f, all
    <2>7. f \in Listeners /\ f.at = "request" /\ f.fd = Top.fd /\ f.client = fd /\ f.taken = Top.taken \cup {conns + 1}
      BY <2>1, <2>2, <2>4 DEF Locals, all
    <2>8. stack' \in Seq(Frames) /\ Shape(stack') /\ Listens(stack') /\ stack'[2] = f
      BY <1>2, <2>6, <2>7, ListenGoes
    <2>9. TypeOK'
      BY <1>2, <1>3, <2>6, <2>8, TypesKept, LoopTypes, ServerTypes, Quiet
    <2>10. ListenInv' /\ Request(stack') = fd
      <3>1. fd # None
        BY DEF Fds, None
      <3> QED
        BY <1>2, <1>4, <2>7, <2>8, <3>1 DEF ListenInv, Listening2, Request, Serving
    <2>11. Turns("request", fd, stack[2].taken \cup {conns + 1})
      BY <1>2, <2>7, <2>8, TopFields DEF Turns
    <2>12. IInv'
      BY <1>2, <1>3, <1>4, <2>6, <2>8, <2>9, <2>10, Joined
    <2> QED
      BY <1>1, <1>6, <2>11, <2>12
  <1> QED
    BY <1>5, <1>6

\* A connection that is made has a descriptor nobody owns, and one that fails
\* has none.
LEMMA ConnecterStep ==
    ASSUME IInv, Connecter
    PROVE  IInv'
PROOF
  <1>1. PICK fd \in Fds : Connects(fd) /\ client' = [fd |-> fd, closed |-> FALSE]
    BY DEF Connecter
  <1>2. /\ client.fd = None /\ calls < MaxCalls /\ calls' = calls + 1 /\ answers' = Append(answers, <<>>)
        /\ UNCHANGED <<stack, raising, canal, peer, heard, server, writers>>
    BY DEF Connecter, MayCall, Counted, canalVars
  <1>3. /\ table' \in [Fds -> Kinds] /\ Distinct(table', conns') /\ conns' \in 0 .. MaxConns
        /\ broken' \subseteq 1 .. conns' /\ answers' \in Seq(Seq(Nat)) /\ Len(answers') = conns'
        /\ Owned(table', server.fd, fd, canal.fd, Request(stack))
    BY <1>1, <1>2, Connected
  <1>4. client' \in Connections /\ client'.fd = fd
    BY <1>1 DEF Connections
  <1>5. stack' \in Seq(Frames) /\ Shape(stack') /\ Same(stack, stack')
    BY <1>2, SameStack DEF IInv, TypeOK, ShapeInv
  <1>6. calls' \in 0 .. MaxCalls
    BY <1>2, Quiet
  <1>7. TypeOK'
    BY <1>2, <1>3, <1>4, <1>5, <1>6, TypesKept, LoopTypes, ServerTypes, Quiet
  <1>8. ListenInv' /\ Request(stack') = Request(stack)
    BY <1>2, <1>5, ListenStays
  <1> QED
    BY <1>2, <1>3, <1>4, <1>5, <1>7, <1>8, Joined

\* The program's connection is closed, by fermer or by its destructor.
LEMMA ClientCloses ==
    ASSUME IInv, table' = Closing(client.fd), client' \in Connections, client'.fd = None, calls' \in 0 .. MaxCalls,
           UNCHANGED <<stack, raising, conns, broken, canal, peer, heard, server, writers, answers>>
    PROVE  IInv'
PROOF
  <1>1. /\ table' \in [Fds -> Kinds] /\ Distinct(table', conns)
        /\ Owned(table', server.fd, None, canal.fd, Request(stack))
    BY Closes
  <1>2. stack' \in Seq(Frames) /\ Shape(stack') /\ Same(stack, stack')
    BY SameStack DEF IInv, TypeOK, ShapeInv
  <1>3. TypeOK'
    BY <1>1, <1>2, TypesKept, LoopTypes, ServerTypes, Quiet
  <1>4. ListenInv' /\ Request(stack') = Request(stack)
    BY <1>2, ListenStays
  <1> QED
    BY <1>1, <1>2, <1>3, <1>4, Joined

\* A connection without a reference to it closes its own descriptor.
LEMMA DropClientStep ==
    ASSUME IInv, DropClient
    PROVE  IInv'
PROOF
  <1>1. /\ table' = Closing(client.fd) /\ client' = NoSocket
        /\ UNCHANGED <<stack, raising, calls, conns, broken, canal, peer, heard, server, writers, answers>>
    BY DEF DropClient, canalVars
  <1>2. client' \in Connections /\ client'.fd = None
    BY <1>1 DEF NoSocket, Connections
  <1> QED
    BY <1>1, <1>2, ClientCloses, Quiet

\* A method that closes and opens nothing, and calls nothing back.
LEMMA MethodStep ==
    ASSUME IInv, UNCHANGED <<stack, table, conns, canal, peer, heard, server>>, DOMAIN writers' = DOMAIN writers,
           calls' \in 0 .. MaxCalls, client' \in Connections, client'.fd = client.fd,
           broken' \subseteq 1 .. conns, raising' \in {"nothing", "network", "runtime"},
           answers' \in Seq(Seq(Nat)), Len(answers') = conns, writers' \in Seq(Writers)
    PROVE  IInv'
PROOF
  <1>1. stack' \in Seq(Frames) /\ Shape(stack') /\ Same(stack, stack')
    BY SameStack DEF IInv, TypeOK, ShapeInv
  <1>2. TypeOK'
    BY <1>1, TypesKept, LoopTypes, ServerTypes, ClientFields
  <1> QED
    BY <1>1, <1>2, QuietStep

\* fermer closes a connection's own descriptor, once.
LEMMA FermerClientStep ==
    ASSUME IInv, FermerClient
    PROVE  IInv'
PROOF
  <1>1. /\ calls < MaxCalls /\ calls' = calls + 1
        /\ UNCHANGED <<stack, raising, conns, broken, canal, peer, heard, server, writers, answers>>
    BY DEF FermerClient, MayCall, Counted, canalVars
  <1>2. calls' \in 0 .. MaxCalls
    BY <1>1, Quiet
  <1>3. CASE client.closed
    <2>1. table' = table /\ client' = client
      BY <1>3 DEF FermerClient
    <2> QED
      BY <1>1, <1>2, <2>1, MethodStep, ServerTypes, Quiet
  <1>4. CASE ~client.closed
    <2>1. table' = Closing(client.fd) /\ client' = [fd |-> None, closed |-> TRUE]
      BY <1>4 DEF FermerClient
    <2>2. client' \in Connections /\ client'.fd = None
      BY <2>1 DEF Connections
    <2> QED
      BY <1>1, <1>2, <2>1, <2>2, ClientCloses
  <1> QED
    BY <1>3, <1>4

\* The end of the stream marks a connection closed; its descriptor stays its
\* own.
LEMMA LireFinStep ==
    ASSUME IInv, LireFin
    PROVE  IInv'
PROOF
  <1>1. /\ calls < MaxCalls /\ calls' = calls + 1 /\ client' = [client EXCEPT !.closed = TRUE]
        /\ UNCHANGED <<stack, raising, table, conns, broken, canal, peer, heard, server, writers, answers>>
    BY DEF LireFin, MayCall, Counted, canalVars, socketVars
  <1>2. calls' \in 0 .. MaxCalls
    BY <1>1, Quiet
  <1>3. client' \in Connections /\ client'.fd = client.fd
    BY <1>1, ServerTypes DEF Connections
  <1> QED
    BY <1>1, <1>2, <1>3, MethodStep, ServerTypes, Quiet

\* A failure, of accept or of a read, leaves everything to the exception.
LEMMA ReadFailsStep ==
    ASSUME IInv, AcceptFails \/ RequestFails
    PROVE  IInv'
PROOF
  <1>1. /\ raising' = "network"
        /\ UNCHANGED <<stack, calls, table, conns, broken, canal, peer, heard, server, writers, answers, client>>
    BY DEF AcceptFails, RequestFails, socketVars, canalVars, serverVars
  <1> QED
    BY <1>1, MethodStep, ServerTypes, Quiet

\* An answer opens and closes nothing.
LEMMA RepondreStep ==
    ASSUME IInv, Repondre
    PROVE  IInv'
PROOF
  <1>1. /\ calls < MaxCalls /\ calls' = calls + 1
        /\ UNCHANGED <<stack, table, conns, canal, peer, heard, server, client>>
    BY DEF Repondre, MayCall, Counted, canalVars
  <1>2. calls' \in 0 .. MaxCalls
    BY <1>1, Quiet
  <1>3. PICK by \in DOMAIN writers :
          IF writers[by].sent
          THEN raising' = "runtime" /\ UNCHANGED <<broken, writers, answers>>
          ELSE \E sent \in SendOutcomes(writers[by].fd) :
                  /\ broken' = Broken(writers[by].fd, sent)
                  /\ answers' = IF sent THEN Answered(writers[by].fd, by) ELSE answers
                  /\ writers' = [writers EXCEPT ![by].sent = sent]
                  /\ UNCHANGED raising
    BY DEF Repondre
  <1>4. CASE writers[by].sent
    BY <1>1, <1>2, <1>3, <1>4, MethodStep, ServerTypes, Quiet
  <1>5. CASE ~writers[by].sent
    <2>1. writers[by].fd \in Fds \cup {None} /\ by \in Nat
      <3>1. writers \in Seq(Writers) /\ by \in 1 .. Len(writers)
        BY ServerTypes
      <3>2. writers[by] \in Writers
        BY <3>1, ElementOfSeq
      <3>3. by \in Nat
        BY ServerTypes
      <3> QED
        BY <3>2, <3>3 DEF Writers
    <2>2. PICK sent \in SendOutcomes(writers[by].fd) :
                  /\ broken' = Broken(writers[by].fd, sent)
                  /\ answers' = IF sent THEN Answered(writers[by].fd, by) ELSE answers
                  /\ writers' = [writers EXCEPT ![by].sent = sent]
                  /\ UNCHANGED raising
      BY <1>3, <1>5
    <2>3. sent \in BOOLEAN /\ broken' \subseteq 1 .. conns
      BY <2>1, <2>2, Sends
    <2>4. answers' \in Seq(Seq(Nat)) /\ Len(answers') = conns
      BY <2>1, <2>2, <2>3, AnsweredTypes, ServerTypes
    <2>5. writers' \in Seq(Writers) /\ DOMAIN writers' = DOMAIN writers
      BY <2>2, <2>3, WriterSends
    <2> QED
      BY <1>1, <1>2, <2>2, <2>3, <2>4, <2>5, MethodStep, ServerTypes, Quiet
  <1> QED
    BY <1>4, <1>5


-----------------------------------------------------------------------------
(* What becomes of a request. *)

\* A request gets a response of its own, the next one, and the chain starts.
LEMMA RequestRoutedStep ==
    ASSUME IInv, RequestRouted
    PROVE  IInv' /\ Turns("chain", stack[2].client, stack[2].taken) /\ stack'[2].writer = Len(writers) + 1
PROOF
  <1>1. /\ stack # <<>> /\ Top.kind = "listen" /\ Top.at = "request" /\ Top \in Listeners
        /\ writers' = Append(writers, NewWriter(Top.client))
        /\ UNCHANGED <<raising, calls, table, conns, broken, canal, peer, heard, server, answers, client>>
    BY TopFields DEF RequestRouted, At, canalVars, socketVars
  <1>2. PICK routed \in BOOLEAN :
          stack' = Goes([Top EXCEPT !.at = "chain", !.writer = Len(writers) + 1, !.index = 1,
                                    !.proceeded = FALSE, !.routed = routed])
    BY DEF RequestRouted
  <1> DEFINE n == Len(writers) + 1
             a == [Top EXCEPT !.at = "chain"]
             b == [a EXCEPT !.writer = n]
             c == [b EXCEPT !.index = 1]
             d == [c EXCEPT !.proceeded = FALSE]
             f == [d EXCEPT !.routed = routed]
  <1>3. f = [Top EXCEPT !.at = "chain", !.writer = Len(writers) + 1, !.index = 1,
                        !.proceeded = FALSE, !.routed = routed]
    OBVIOUS
  <1>4. n \in Nat
    BY ServerTypes
  <1>5. Locals(Top, a) /\ a.at = "chain"
    BY <1>1, ListenerMoves
  <1>6. b \in Listeners /\ b.writer = n /\ b.at = a.at /\ b.fd = a.fd /\ b.client = a.client /\ b.taken = a.taken
    <2> HIDE DEF a, n
    <2> QED
      BY <1>4, <1>5, ListenerWrites DEF Locals
  <1>7. Locals(b, c) /\ c.at = b.at
    <2> HIDE DEF b
    <2>1. 1 \in Nat
      OBVIOUS
    <2> QED
      BY <1>6, <2>1, ListenerChains
  <1>8. Locals(c, d) /\ d.at = c.at
    <2> HIDE DEF c
    <2>1. c \in Listeners
      BY <1>7 DEF Locals
    <2> QED
      BY <2>1, ListenerChains
  <1>9. Locals(d, f) /\ f.at = d.at
    <2> HIDE DEF d
    <2>1. d \in Listeners
      BY <1>8 DEF Locals
    <2> QED
      BY <2>1, ListenerChains
  <1>10. stack' = Goes(f)
    BY <1>2, <1>3, Zenon
  <1> HIDE DEF a, b, c, d, f, n
  <1>11. f \in Listeners /\ f.at = "chain" /\ f.fd = Top.fd /\ f.client = Top.client /\ f.writer = n /\ f.taken = Top.taken
    BY <1>5, <1>6, <1>7, <1>8, <1>9 DEF Locals
  <1>12. stack' \in Seq(Frames) /\ Shape(stack') /\ Listens(stack') /\ stack'[2] = f
    BY <1>1, <1>10, <1>11, ListenGoes
  <1>13. /\ Top.client \in Fds /\ Request(stack) = Top.client /\ (~server.stopped => Top.fd = server.fd)
    BY <1>1, Served
  <1>14. writers' \in Seq(Writers) /\ n \in DOMAIN writers'
    <2>1. table[Top.client] \in Kinds
      BY <1>13, ClientFields
    <2>2. NewWriter(Top.client) \in Writers
      BY <1>13, <2>1 DEF NewWriter, Writers
    <2> QED
      BY <1>1, <2>2, ServerTypes, Pushed DEF n
  <1>15. TypeOK'
    BY <1>1, <1>12, <1>14, TypesKept, LoopTypes, ServerTypes, ClientFields, Quiet
  <1>16. ListenInv' /\ Request(stack') = Request(stack)
    <2>1. Top.client # None
      BY <1>13 DEF Fds, None
    <2> QED
      BY <1>1, <1>11, <1>12, <1>13, <1>14, <2>1 DEF ListenInv, Listening2, Request, Serving
  <1>17. Turns("chain", stack[2].client, stack[2].taken) /\ stack'[2].writer = Len(writers) + 1
    BY <1>1, <1>11, <1>12, TopFields DEF Turns, n
  <1> QED
    BY <1>1, <1>12, <1>15, <1>16, <1>17, ClientFields, Joined

\* The request's connection is closed, and écouter accepts again.
LEMMA RequestCloses ==
    ASSUME IInv, stack # <<>>, Top.kind = "listen",
           table' = Closing(Top.client), stack' = Goes([Top EXCEPT !.at = "accept", !.client = None]),
           UNCHANGED <<calls, conns, canal, peer, heard, server, client>>,
           broken' \subseteq 1 .. conns, raising' \in {"nothing", "network", "runtime"},
           answers' \in Seq(Seq(Nat)), Len(answers') = conns, writers' \in Seq(Writers)
    PROVE  IInv' /\ Turns("accept", None, stack[2].taken)
PROOF
  <1>1. Top \in Listeners /\ Request(stack) = Top.client /\ (~server.stopped => Top.fd = server.fd)
    BY TopFields, Served
  <1> DEFINE g == [Top EXCEPT !.at = "accept"]
             f == [g EXCEPT !.client = None]
  <1>2. Locals(Top, g) /\ g.at = "accept"
    BY <1>1, ListenerMoves
  <1>3. f \in Listeners /\ f.client = None /\ f.at = g.at /\ f.fd = g.fd /\ f.taken = g.taken
    <2> HIDE DEF g
    <2> QED
      BY <1>2, ListenerTakes DEF Locals
  <1>4. f = [Top EXCEPT !.at = "accept", !.client = None]
    OBVIOUS
  <1>5. stack' = Goes(f)
    BY <1>4
  <1> HIDE DEF g, f
  <1>6. f \in Listeners /\ f.at = "accept" /\ f.fd = Top.fd /\ f.client = None /\ f.taken = Top.taken
    BY <1>2, <1>3 DEF Locals
  <1>7. stack' \in Seq(Frames) /\ Shape(stack') /\ Listens(stack') /\ stack'[2] = f
    BY <1>5, <1>6, ListenGoes
  <1>8. /\ table' \in [Fds -> Kinds] /\ Distinct(table', conns)
        /\ Owned(table', server.fd, client.fd, canal.fd, None)
    BY <1>1, Closes
  <1>9. TypeOK'
    BY <1>7, <1>8, TypesKept, LoopTypes, ServerTypes, ClientFields, Quiet
  <1>10. ListenInv' /\ Request(stack') = None
    BY <1>1, <1>6, <1>7 DEF ListenInv, Listening2, Request, Serving
  <1>11. Turns("accept", None, stack[2].taken)
    BY <1>6, <1>7, TopFields DEF Turns
  <1> QED
    BY <1>7, <1>8, <1>9, <1>10, <1>11, Joined

\* A request that is refused has its descriptor closed once the refusal is
\* sent, and écouter accepts the next.
LEMMA RequestRefusedStep ==
    ASSUME IInv, RequestRefused
    PROVE  IInv' /\ (raising' = "nothing" => Turns("accept", None, stack[2].taken))
PROOF
  <1>1. /\ stack # <<>> /\ Top.kind = "listen" /\ Top.at = "request" /\ Top \in Listeners
        /\ UNCHANGED <<calls, conns, canal, peer, heard, server, writers, client>>
    BY TopFields DEF RequestRefused, At, canalVars
  <1>2. PICK sent \in SendOutcomes(Top.client) :
          /\ broken' = Broken(Top.client, sent)
          /\ answers' = IF sent THEN Answered(Top.client, 0) ELSE answers
          /\ raising' = IF sent THEN "nothing" ELSE "network"
          /\ table' = IF sent THEN Closing(Top.client) ELSE table
          /\ stack' = IF sent THEN Goes([Top EXCEPT !.at = "accept", !.client = None]) ELSE stack
    BY DEF RequestRefused
  <1>3. Top.client \in Fds \cup {None}
    BY <1>1, ListenerFields
  <1>4. sent \in BOOLEAN /\ broken' \subseteq 1 .. conns /\ raising' \in {"nothing", "network", "runtime"}
    BY <1>2, <1>3, Sends
  <1>5. answers' \in Seq(Seq(Nat)) /\ Len(answers') = conns
    BY <1>2, <1>3, <1>4, AnsweredTypes, ServerTypes
  <1>6. CASE sent
    <2>1. table' = Closing(Top.client) /\ stack' = Goes([Top EXCEPT !.at = "accept", !.client = None])
      BY <1>2, <1>6
    <2> QED
      BY <1>1, <1>4, <1>5, <2>1, RequestCloses, ServerTypes
  <1>7. CASE ~sent
    BY <1>1, <1>2, <1>4, <1>5, <1>7, MethodStep, ServerTypes, Quiet
  <1> QED
    BY <1>4, <1>6, <1>7

\* A request that is served has its descriptor closed once it is answered, and
\* écouter accepts the next.
LEMMA AnswerStep ==
    ASSUME IInv, Answer
    PROVE  IInv' /\ (raising' = "nothing" => Turns("accept", None, stack[2].taken))
PROOF
  <1>1. /\ stack # <<>> /\ Top.kind = "listen" /\ Top.at = "answer" /\ Top \in Listeners
        /\ UNCHANGED <<calls, conns, canal, peer, heard, server, client>>
    BY TopFields DEF Answer, At, canalVars
  <1>2. Top.client \in Fds \cup {None} /\ Top.writer \in 0 .. Len(writers)
    BY <1>1, Served DEF Serving
  <1>3. /\ broken' \subseteq 1 .. conns /\ raising' \in {"nothing", "network", "runtime"}
        /\ answers' \in Seq(Seq(Nat)) /\ Len(answers') = conns
        /\ writers' \in Seq(Writers) /\ DOMAIN writers' = DOMAIN writers
    <2>1. CASE writers[Top.writer].sent
      <3>1. UNCHANGED <<raising, broken, writers, answers>>
        BY <2>1 DEF Answer
      <3> QED
        BY <3>1, ServerTypes, Quiet
    <2>2. CASE ~writers[Top.writer].sent
      <3>1. SendsResponse(Top.client, Top.writer)
        BY <2>2 DEF Answer
      <3> QED
        BY <1>2, <3>1, ResponseTypes
    <2> QED
      BY <2>1, <2>2
  <1>4. CASE raising' = "nothing"
    <2>1. table' = Closing(Top.client) /\ stack' = Goes([Top EXCEPT !.at = "accept", !.client = None])
      BY <1>4 DEF Answer
    <2> QED
      BY <1>1, <1>3, <2>1, RequestCloses
  <1>5. CASE raising' # "nothing"
    <2>1. UNCHANGED <<table, stack>>
      BY <1>5 DEF Answer
    <2> QED
      BY <1>1, <1>3, <1>5, <2>1, MethodStep, ServerTypes, Quiet
  <1> QED
    BY <1>4, <1>5

\* The loop of a CanalClient is over: écouter accepts the next.
LEMMA AfterLoopStep ==
    ASSUME IInv, AfterLoop
    PROVE  IInv' /\ Moves("looped", "accept")
PROOF
  <1>1. /\ stack # <<>> /\ Top.kind = "listen" /\ Top.at = "looped" /\ Top \in Listeners
        /\ table' = Closing(canal.fd) /\ canal' = [canal EXCEPT !.fd = None]
        /\ UNCHANGED <<raising, calls, conns, broken, peer, heard, server, writers, answers, client>>
    BY TopFields DEF AfterLoop, At, serverVars
  <1> DEFINE f == [Top EXCEPT !.at = "accept"]
  <1>2. Locals(Top, f) /\ f.at = "accept"
    BY <1>1, ListenerMoves
  <1>3. stack' = Goes(f)
    BY DEF AfterLoop
  <1> HIDE DEF f
  <1>4. stack' \in Seq(Frames) /\ Shape(stack') /\ Listens(stack') /\ stack'[2] = f
    BY <1>1, <1>2, <1>3, ListenGoes DEF Locals
  <1>5. Request(stack) = None /\ Top.client = None /\ (~server.stopped => Top.fd = server.fd)
    BY <1>1, Served DEF Serving
  <1>6. canal' \in Clients /\ canal'.fd = None
    BY <1>1, LoopTypes DEF Clients
  <1>7. /\ table' \in [Fds -> Kinds] /\ Distinct(table', conns)
        /\ Owned(table', server.fd, client.fd, None, None)
    BY <1>1, <1>5, Closes
  <1>8. TypeOK'
    BY <1>1, <1>4, <1>6, <1>7, TypesKept, LoopTypes, ServerTypes, ClientFields, Quiet
  <1>9. ListenInv' /\ Request(stack') = None
    BY <1>1, <1>2, <1>4, <1>5 DEF ListenInv, Listening2, Request, Serving, Locals
  <1>10. Moves("looped", "accept")
    BY <1>1, <1>2, <1>4, TopFields DEF Moves
  <1> QED
    BY <1>1, <1>4, <1>6, <1>7, <1>8, <1>9, <1>10, Joined

\* The descriptor of a handshake passes from the request to the CanalClient.
LEMMA RequestUpgradedStep ==
    ASSUME IInv, RequestUpgraded
    PROVE  IInv' /\ (raising' = "nothing" => Turns("upgraded", None, stack[2].taken))
PROOF
  <1>1. /\ stack # <<>> /\ Top.kind = "listen" /\ Top.at = "request" /\ Top \in Listeners
        /\ UNCHANGED <<calls, conns, server, writers, client>>
    BY TopFields DEF RequestUpgraded, At
  <1> DEFINE listen == [Top EXCEPT !.at = "upgraded", !.client = None]
             called == protocol = "http" \/ "connection" \in canal.hooks
  <1>2. PICK sent \in SendOutcomes(Top.client) :
          /\ broken' = Broken(Top.client, sent)
          /\ raising' = IF sent THEN "nothing" ELSE "network"
          /\ table' = Closing(IF sent THEN canal.fd ELSE None)
          /\ IF ~sent THEN UNCHANGED <<answers, canal, peer, heard, stack>>
             ELSE /\ answers' = Answered(Top.client, 0)
                  /\ canal' = NewClient(Top.client)
                  /\ peer' = NewPeer(MaxServed) /\ heard' = NothingHeard
                  /\ stack' = IF called THEN Calls(listen, "client") ELSE Goes(listen)
    BY DEF RequestUpgraded
  <1>3. Top.client \in Fds /\ Request(stack) = Top.client /\ (~server.stopped => Top.fd = server.fd)
    BY <1>1, Served
  <1>4. sent \in BOOLEAN /\ broken' \subseteq 1 .. conns /\ raising' \in {"nothing", "network", "runtime"}
    BY <1>2, <1>3, Sends
  <1>5. CASE ~sent
    <2>1. table' = table
      BY <1>2, <1>5 DEF Closing
    <2> QED
      BY <1>1, <1>2, <1>4, <1>5, <2>1, MethodStep, ServerTypes, Quiet
  <1>6. CASE sent
    <2>1. /\ table' = Closing(canal.fd) /\ answers' = Answered(Top.client, 0)
          /\ canal' = NewClient(Top.client) /\ peer' = NewPeer(MaxServed) /\ heard' = NothingHeard
          /\ stack' = Calls(listen, "client") \/ stack' = Goes(listen)
      BY <1>2, <1>6
    <2> DEFINE g == [Top EXCEPT !.at = "upgraded"]
               f == [g EXCEPT !.client = None]
    <2>2. Locals(Top, g) /\ g.at = "upgraded"
      BY <1>1, ListenerMoves
    <2>3. f \in Listeners /\ f.client = None /\ f.at = g.at /\ f.fd = g.fd /\ f.taken = g.taken
      <3> HIDE DEF g
      <3> QED
        BY <2>2, ListenerTakes DEF Locals
    <2>4. f = listen
      OBVIOUS
    <2> HIDE DEF g, f, listen, called
    <2>5. f \in Listeners /\ f.at = "upgraded" /\ f.fd = Top.fd /\ f.client = None /\ f.taken = Top.taken
      BY <2>2, <2>3 DEF Locals
    <2>6. stack' = Goes(f) \/ \E c \in Frames : c.kind # "listen" /\ stack' = Append(Goes(f), c)
      BY <2>1, <2>4, ListenCalls, HookNames
    <2>7. stack' \in Seq(Frames) /\ Shape(stack') /\ Listens(stack') /\ stack'[2] = f
      BY <1>1, <2>5, <2>6, ListenGoes
    <2>8. canal' \in Clients /\ canal'.fd = Top.client
      <3>1. canal' = [canal EXCEPT !.fd = Top.client, !.closed = FALSE, !.opened = FALSE]
        BY <2>1 DEF NewClient
      <3> QED
        BY <1>3, <3>1, LoopTypes DEF Clients
    <2>9. peer' \in Peers /\ heard' \in Ears
      <3>1. <<>> \in Seq(Nat) /\ <<>> \in Seq(Messages)
        BY EmptySeq
      <3> QED
        BY <2>1, <3>1 DEF NewPeer, NothingHeard, Peers, Ears
    <2>10. answers' \in Seq(Seq(Nat)) /\ Len(answers') = conns
      BY <1>3, <2>1, AnsweredTypes
    <2>11. /\ table' \in [Fds -> Kinds] /\ Distinct(table', conns)
           /\ Owned(table', server.fd, client.fd, Top.client, None)
      BY <1>3, <2>1, Closes, OwnedPasses
    <2>12. TypeOK'
      BY <1>1, <1>4, <2>7, <2>8, <2>9, <2>10, <2>11, TypesKept, ServerTypes, Quiet
    <2>13. ListenInv' /\ Request(stack') = None
      BY <1>1, <1>3, <2>5, <2>7 DEF ListenInv, Listening2, Request, Serving
    <2>14. Turns("upgraded", None, stack[2].taken)
      BY <1>1, <2>5, <2>7, TopFields DEF Turns
    <2> QED
      BY <1>1, <2>7, <2>8, <2>11, <2>12, <2>13, <2>14, Joined
  <1> QED
    BY <1>4, <1>5, <1>6


\* The calls of écouter that are running.
LEMMA EcoutesAre ==
    ASSUME IInv
    PROVE  /\ Ecoutes = IF Listens(stack) THEN {2} ELSE {}
           /\ Listens(stack) => stack[2] \in Listeners /\ 2 \in 1 .. Len(stack)
PROOF
  <1>1. stack \in Seq(Frames) /\ Shape(stack) /\ Len(stack) \in Nat /\ DOMAIN stack = 1 .. Len(stack)
    BY LenProperties DEF IInv, TypeOK, ShapeInv
  <1>2. Listens(stack) => 2 \in 1 .. Len(stack) /\ stack[2].kind = "listen"
    BY <1>1 DEF Listens
  <1>3. Listens(stack) => stack[2] \in Listeners
    <2>1. Listens(stack) => stack[2] \in Frames
      BY <1>1, <1>2, ElementOfSeq
    <2> QED
      BY <1>2, <2>1, FrameKinds
  <1>4. \A i \in DOMAIN stack : stack[i].kind = "listen" => i = 2 /\ Listens(stack)
    BY <1>1 DEF Shape, Listens
  <1> QED
    BY <1>1, <1>2, <1>3, <1>4 DEF Ecoutes

\* écouter, below a callback, changes in place.
LEMMA ListenChanges ==
    ASSUME IInv, Listens(stack), NEW f \in Listeners, stack' = [stack EXCEPT ![2] = f]
    PROVE  stack' \in Seq(Frames) /\ Shape(stack') /\ Listens(stack') /\ stack'[2] = f
PROOF
  <1>1. /\ stack \in Seq(Frames) /\ Shape(stack) /\ Len(stack) \in Nat /\ DOMAIN stack = 1 .. Len(stack)
        /\ 2 \in 1 .. Len(stack) /\ stack[2] \in Listeners
    BY LenProperties, EcoutesAre DEF IInv, TypeOK, ShapeInv
  <1>2. f \in Frames /\ f.kind = "listen" /\ IsNative(f) /\ stack[2].kind = "listen" /\ IsNative(stack[2])
    BY <1>1, FrameKinds
  <1>3. /\ stack' \in Seq(Frames) /\ Len(stack') = Len(stack)
        /\ \A i \in 1 .. Len(stack) : stack'[i] = IF i = 2 THEN f ELSE stack[i]
    BY <1>1, <1>2, ExceptSeq
  <1>4. DOMAIN stack' = 1 .. Len(stack)
    BY <1>1, <1>3, LenProperties
  <1>5. Shape(stack')
    <2>1. stack' # <<>> => stack'[1] = Program
      <3>1. 1 \in 1 .. Len(stack) /\ stack # <<>>
        BY <1>1, EmptySeq
      <3> QED
        BY <1>1, <1>3, <3>1 DEF Shape
    <2>2. \A i \in DOMAIN stack' : stack'[i].kind = "listen" => i = 2
      BY <1>1, <1>3, <1>4 DEF Shape
    <2>3. \A i \in DOMAIN stack' : i > 1 /\ ~IsNative(stack'[i]) => IsNative(stack'[i - 1])
      <3> SUFFICES ASSUME NEW i \in 1 .. Len(stack), i > 1, ~IsNative(stack'[i])
                   PROVE  IsNative(stack'[i - 1])
        BY <1>4
      <3>1. i # 2 /\ stack'[i] = stack[i] /\ i - 1 \in 1 .. Len(stack)
        BY <1>1, <1>2, <1>3
      <3>2. IsNative(stack[i - 1])
        BY <1>1, <3>1 DEF Shape
      <3> QED
        BY <1>2, <1>3, <3>1, <3>2
    <2> QED
      BY <2>1, <2>2, <2>3 DEF Shape
  <1>6. Listens(stack') /\ stack'[2] = f
    BY <1>1, <1>2, <1>3 DEF Listens
  <1> QED
    BY <1>3, <1>5, <1>6

\* suivant, called by a middleware, leaves it the one that is running.
LEMMA SuivantStep ==
    ASSUME IInv, Suivant
    PROVE  IInv' /\ Moves("middleware", "middleware")
PROOF
  <1>1. PICK i \in Ecoutes : stack[i].at = "middleware" /\ stack' = [stack EXCEPT ![i].proceeded = TRUE]
    BY DEF Suivant
  <1>2. UNCHANGED <<raising, calls, table, conns, broken, canal, peer, heard, server, writers, answers, client>>
    BY DEF Suivant, socketVars, canalVars, serverVars
  <1>3. Listens(stack) /\ i = 2 /\ stack[2] \in Listeners
    BY <1>1, EcoutesAre
  <1> DEFINE f == [stack[2] EXCEPT !.proceeded = TRUE]
  <1>4. Locals(stack[2], f) /\ f.at = "middleware"
    <2>1. stack[2].at = "middleware" /\ TRUE \in BOOLEAN
      BY <1>1, <1>3
    <2> QED
      BY <1>3, <2>1, ListenerChains
  <1>5. stack' = [stack EXCEPT ![2] = f]
    BY <1>1, <1>3
  <1> HIDE DEF f
  <1>6. stack' \in Seq(Frames) /\ Shape(stack') /\ Listens(stack') /\ stack'[2] = f
    BY <1>3, <1>4, <1>5, ListenChanges DEF Locals
  <1>7. TypeOK'
    BY <1>2, <1>6, TypesKept, LoopTypes, ServerTypes, ClientFields, Quiet
  <1>8. stack[2].at = "middleware"
    BY <1>1, <1>3
  <1> QED
    BY <1>2, <1>3, <1>4, <1>6, <1>7, <1>8, ListenStep DEF Serving, Moves

-----------------------------------------------------------------------------
(* The theorems. *)

\* Every step of a server keeps the invariant.
LEMMA ServerStep ==
    ASSUME IInv, ServerCalls \/ ServerReceives \/ ServerSteps \/ DropClient
    PROVE  IInv'
  BY EcouterStep, ArreterStep, SuivantStep, RepondreStep, ConnecterStep, LireFinStep, FermerClientStep,
     AcceptClientStep, ReadFailsStep, RequestRoutedStep, RequestRefusedStep, RequestUpgradedStep,
     StopListeningStep, UnwindListenStep, AfterConnectionStep, RunsLoopStep, AfterLoopStep, ChainEndsStep,
     CallMiddlewareStep, AfterMiddlewareStep, CallHandlerStep, NotFoundStep, AnswerStep, DropClientStep
  DEF ServerCalls, ServerReceives, ServerSteps

\* Nothing is open at the beginning, but the connection a CanalClient starts
\* with.
LEMMA InitKeeps ==
    ASSUME Init
    PROVE  IInv
PROOF
  <1> DEFINE open == IF protocol = "none" THEN 1 ELSE 0
  <1>1. /\ stack = <<Program>> /\ raising = "nothing" /\ calls = 0
        /\ table = [fd \in Fds |-> IF fd \in 1 .. open THEN fd ELSE None]
        /\ conns = open /\ broken = {}
    BY DEF Init, SocketsInit
  <1>2. PICK hooks \in HookSets : canal = [NoClient(hooks) EXCEPT !.fd = conns]
    BY DEF Init
  <1>3. /\ peer = NewPeer(MaxFrames) /\ heard = NothingHeard
        /\ server = NoServer /\ writers = <<>> /\ client = NoSocket
        /\ answers = [c \in 1 .. conns |-> <<>>]
    BY DEF Init
  <1>4. conns \in {0, 1} /\ conns \in 0 .. MaxConns /\ 1 \in Fds /\ conns \in Fds \cup {None}
    BY <1>1 DEF Fds, None
  <1>5. \A fd \in Fds : table[fd] = IF fd = 1 /\ conns = 1 THEN 1 ELSE None
    <2>1. \A fd \in Fds : fd \in 1 .. open <=> fd = 1 /\ open = 1
      BY DEF Fds
    <2> QED
      BY <1>1, <2>1
  <1>6. table \in [Fds -> Kinds] /\ Distinct(table, conns)
    <2>1. 1 \in Kinds /\ None \in Kinds /\ None = 0
      BY DEF Kinds, None
    <2>2. table \in [Fds -> Kinds]
      BY <1>1, <1>5, <2>1
    <2> QED
      BY <1>4, <1>5, <2>1, <2>2 DEF Distinct
  <1>7. canal \in Clients /\ canal.fd = conns
    BY <1>2, <1>4 DEF NoClient, Clients
  <1>8. peer \in Peers /\ heard \in Ears
    <2>1. <<>> \in Seq(Nat) /\ <<>> \in Seq(Messages)
      BY EmptySeq
    <2> QED
      BY <1>3, <2>1 DEF NewPeer, NothingHeard, Peers, Ears
  <1>9. server \in Servers /\ client \in Connections /\ server.fd = None /\ client.fd = None
    BY <1>3 DEF NoServer, NoSocket, Servers, Connections
  <1>10. writers \in Seq(Writers)
    BY <1>3, EmptySeq
  <1>11. answers \in Seq(Seq(Nat)) /\ Len(answers) = conns
    <2>1. <<>> \in Seq(Nat)
      BY EmptySeq
    <2>2. conns \in Nat
      BY <1>4
    <2>3. answers \in [1 .. conns -> Seq(Nat)]
      BY <1>3, <2>1
    <2>4. answers \in Seq(Seq(Nat))
      BY <2>2, <2>3, SeqDef
    <2> QED
      BY <2>2, <2>3, <2>4, LenProperties
  <1>12. stack \in Seq(Frames) /\ Shape(stack) /\ ~Listens(stack)
    <2>1. Program \in Frames
      BY DEF Frames
    <2>2. stack \in Seq(Frames) /\ Len(stack) = 1 /\ DOMAIN stack = 1 .. 1 /\ stack[1] = Program
      BY <1>1, <2>1
    <2> QED
      BY <2>2 DEF Shape, Listens, Program
  <1>13. TypeOK
    BY <1>1, <1>4, <1>6, <1>7, <1>8, <1>9, <1>10, <1>11, <1>12
    DEF TypeOK, SocketsTypeOK, Clients, Peers, Ears, Servers, Connections, Writers
  <1>14. OwnedInv
    <2>1. Request(stack) = None
      BY <1>12 DEF Request
    <2> QED
      BY <1>4, <1>5, <1>7, <1>9, <2>1 DEF OwnedInv, Owned, None, Fds
  <1> QED
    BY <1>6, <1>12, <1>13, <1>14 DEF IInv, ShapeInv, DistinctInv, ListenInv

\* Every step keeps the invariant.
LEMMA NextKeeps ==
    ASSUME IInv, [Next]_netVars
    PROVE  IInv'
PROOF
  <1>1. CASE (ThreadSteps \/ Fail) /\ UNCHANGED <<canalVars, protocol, serverVars>>
    BY <1>1, ThreadStep
  <1>2. CASE CanalOnly /\ UNCHANGED <<protocol, serverVars>>
    BY <1>2, CanalStep
  <1>3. CASE ServerCalls \/ ServerReceives \/ ServerSteps \/ DropClient
    BY <1>3, ServerStep
  <1>4. CASE UNCHANGED netVars
    <2>1. UNCHANGED <<stack, raising, table, conns, broken, calls, canal, peer, heard, server, writers, answers, client>>
      BY <1>4 DEF netVars
    <2> QED
      BY <2>1, MethodStep, ServerTypes, Quiet
  <1> QED
    BY <1>1, <1>2, <1>3, <1>4 DEF Next

\* The invariant that the steps keep: écouter is entered by the program alone and a
\* callback by a native, and the descriptors that are open are those of the server,
\* of the program's connection, of the CanalClient and of the request being served,
\* each once.
THEOREM InductiveInvariant == Spec => []IInv
  <1>1. Init => IInv
    BY InitKeeps
  <1>2. IInv /\ [Next]_netVars => IInv'
    BY NextKeeps
  <1> QED
    BY <1>1, <1>2, PTL DEF Spec

\* Every variable has its type in every state of every run.
THEOREM TypeCorrect == Spec => []TypeOK
  <1>1. IInv => TypeOK
    BY DEF IInv
  <1> QED
    BY <1>1, InductiveInvariant, PTL

\* close_socket_fd and the destructors: whatever is called from inside of what, and
\* wherever an exception leaves it, every open descriptor has exactly one owner that
\* will close it, no owner keeps the number of a descriptor that was closed, and
\* écouter accepts on the socket of its own server.
THEOREM OneOwnerEach == Spec => []DescriptorsOwned
PROOF
  <1>1. ASSUME IInv
        PROVE  DescriptorsOwned
    <2> DEFINE a == server.fd
               b == client.fd
               c == canal.fd
               d == Request(stack)
               owners == {<<"server", server.fd>>, <<"client", client.fd>>, <<"canal", canal.fd>>}
                         \cup {<<"request", stack[i].client>> : i \in Ecoutes}
               held == {owner \in owners : owner[2] # None}
    <2>1. Owned(table, a, b, c, d) /\ None \notin Fds
      BY <1>1, ClientFields DEF Fds, None
    <2>2. /\ Ecoutes = (IF Listens(stack) THEN {2} ELSE {})
          /\ d = IF Listens(stack) THEN stack[2].client ELSE None
      BY <1>1, EcoutesAre DEF Request
    <2>3. \A o : o \in held <=> \/ o = <<"server", a>> /\ a # None
                                \/ o = <<"client", b>> /\ b # None
                                \/ o = <<"canal", c>> /\ c # None
                                \/ o = <<"request", d>> /\ d # None
      <3>1. {<<"request", stack[i].client>> : i \in Ecoutes} = IF Listens(stack) THEN {<<"request", d>>} ELSE {}
        BY <2>2
      <3> DEFINE requests == {<<"request", stack[i].client>> : i \in Ecoutes}
      <3> HIDE DEF requests, d
      <3>2. requests = (IF Listens(stack) THEN {<<"request", d>>} ELSE {}) /\ (~Listens(stack) => d = None)
        BY <2>2, <3>1 DEF requests
      <3>3. held = {owner \in {<<"server", a>>, <<"client", b>>, <<"canal", c>>} \cup requests : owner[2] # None}
        BY DEF requests
      <3> QED
        BY <3>2, <3>3
    <2> HIDE DEF a, b, c, d, held
    <2>4. Open = {owner[2] : owner \in held}
      <3>1. \A fd \in Open : \E owner \in held : fd = owner[2]
        <4> SUFFICES ASSUME NEW fd \in Open
                     PROVE  \E owner \in held : fd = owner[2]
          OBVIOUS
        <4>1. fd \in {a, b, c, d} /\ fd # None
          BY <2>1 DEF Open, Owned
        <4>2. <<"server", a>>[2] = a /\ <<"client", b>>[2] = b /\ <<"canal", c>>[2] = c /\ <<"request", d>>[2] = d
          OBVIOUS
        <4> QED
          BY <2>3, <4>1, <4>2
      <3>2. \A owner \in held : owner[2] \in Open
        BY <2>1, <2>3 DEF Open, Owned
      <3> QED
        BY <3>1, <3>2
    <2>5. \A one, other \in held : one[2] = other[2] => one = other
      BY <2>1, <2>3 DEF Owned
    <2>6. server.fd # None => table[server.fd] = Listening
      BY <2>1 DEF a, Owned
    <2>7. \A owner \in held : owner[1] # "server" => table[owner[2]] > 0
      BY <2>1, <2>3 DEF Owned
    <2>8. \A i \in Ecoutes : ~server.stopped => stack[i].fd = server.fd
      BY <1>1, <2>2 DEF IInv, ListenInv, Listening2
    <2>9. TypeOK
      BY <1>1 DEF IInv
    <2> QED
      BY <2>4, <2>5, <2>6, <2>7, <2>8, <2>9 DEF DescriptorsOwned, held
  <1> QED
    BY <1>1, InductiveInvariant, PTL


-----------------------------------------------------------------------------
(* One answer on a connection. *)

\* The request that écouter is about: its descriptor, its connection and its
\* response.
LEMMA AboutIs ==
    ASSUME IInv, Listens(stack)
    PROVE  /\ stack[2] \in Listeners
           /\ stack[2].client = None => About(stack[2]) = 0
           /\ stack[2].client # None =>
                 /\ stack[2].client \in Fds /\ stack[2].client \notin {server.fd, client.fd, canal.fd}
                 /\ About(stack[2]) = table[stack[2].client] /\ About(stack[2]) \in 1 .. conns
           /\ stack[2].client # None <=> stack[2].at \in {"request"} \cup Serving
           /\ stack[2].at \in Serving => stack[2].writer \in DOMAIN writers
PROOF
  <1> DEFINE f == stack[2]
  <1>1. f \in Listeners /\ f.client \in Fds \cup {None}
    BY EcoutesAre, ListenerFields
  <1>2. Owned(table, server.fd, client.fd, canal.fd, f.client) /\ Distinct(table, conns) /\ table \in [Fds -> Kinds]
    BY ClientFields DEF Request
  <1>3. Listening2(f)
    BY DEF IInv, ListenInv
  <1> HIDE DEF f
  <1>4. f.client # None => /\ f.client \in Fds /\ f.client \notin {server.fd, client.fd, canal.fd}
                           /\ table[f.client] > 0 /\ table[f.client] <= conns /\ table[f.client] \in Kinds
    BY <1>1, <1>2 DEF Owned, Distinct
  <1>5. f.client # None => table[f.client] \in 1 .. conns
    BY <1>4, ServerTypes DEF Kinds, None, Listening
  <1>6. About(f) = IF f.client = None THEN 0 ELSE table[f.client]
    BY DEF About
  <1> QED
    BY <1>1, <1>3, <1>4, <1>5, <1>6 DEF f, Listening2

\* Nobody answers: connections may be made, on which nobody has.
Still ==
    /\ conns' \in Nat /\ conns <= conns' /\ writers' = writers
    /\ \A c \in 1 .. conns' : answers'[c] = IF c \in 1 .. conns THEN answers[c] ELSE <<>>

\* Nobody answers in a step that leaves connections, responses and answers
\* alone.
LEMMA StillUnchanged ==
    ASSUME IInv, UNCHANGED <<conns, writers, answers>>
    PROVE  Still
  BY ServerTypes DEF Still

\* Nobody answers in a step that makes a connection.
LEMMA StillConnects ==
    ASSUME IInv, conns' = conns + 1, answers' = Append(answers, <<>>), writers' = writers
    PROVE  Still
PROOF
  <1>1. answers \in Seq(Seq(Nat)) /\ Len(answers) = conns /\ conns \in Nat
    BY ServerTypes
  <1>2. <<>> \in Seq(Nat)
    BY EmptySeq
  <1>3. answers'[conns + 1] = <<>> /\ \A c \in 1 .. conns : answers'[c] = answers[c]
    BY <1>1, <1>2, Pushed
  <1> QED
    BY <1>1, <1>3 DEF Still

\* A step in which nobody answers keeps each connection answered at most once,
\* by its own response.
LEMMA StillAnswers ==
    ASSUME AInv, Still
    PROVE  AnswersInv'
PROOF
  <1>1. conns \in Nat /\ conns' \in Nat
    BY ServerTypes DEF AInv, Still
  <1> SUFFICES ASSUME NEW c \in 1 .. conns'
               PROVE  /\ Len(answers'[c]) <= 1
                      /\ \A k \in DOMAIN answers'[c] :
                            answers'[c][k] # 0 =>
                               answers'[c][k] \in DOMAIN writers' /\ writers'[answers'[c][k]].conn = c
    BY DEF AnswersInv
  <1>2. CASE c \in 1 .. conns
    BY <1>2 DEF AInv, AnswersInv, Still
  <1>3. CASE c \notin 1 .. conns
    <2>1. answers'[c] = <<>>
      BY <1>3 DEF Still
    <2>2. Len(<<>>) = 0 /\ DOMAIN <<>> = {}
      OBVIOUS
    <2> QED
      BY <2>1, <2>2
  <1> QED
    BY <1>2, <1>3

\* It keeps each response that is not sent that of the request being served,
\* if écouter goes on serving it.
LEMMA StillWriters ==
    ASSUME AInv, Still, server'.failed \/ server'.failed = server.failed,
           Listens(stack) /\ stack[2].at \in Serving =>
              \/ server'.failed
              \/ Listens(stack') /\ stack'[2].at \in Serving /\ stack'[2].writer = stack[2].writer
    PROVE  WritersInv'
PROOF
  <1>1. conns \in Nat /\ conns' \in Nat /\ conns <= conns' /\ writers' = writers
    BY ServerTypes DEF AInv, Still
  <1> SUFFICES ASSUME NEW w \in DOMAIN writers
               PROVE  /\ writers[w].conn \in 1 .. conns'
                      /\ ~server'.failed /\ ~writers[w].sent =>
                            Listens(stack') /\ stack'[2].at \in Serving /\ stack'[2].writer = w
    BY <1>1 DEF WritersInv
  <1>2. /\ writers[w].conn \in 1 .. conns
        /\ ~server.failed /\ ~writers[w].sent => Listens(stack) /\ stack[2].at \in Serving /\ stack[2].writer = w
    BY DEF AInv, WritersInv
  <1> QED
    BY <1>1, <1>2

\* écouter goes on, or something inside of it does.
LEMMA StillCurrent ==
    ASSUME AInv, Still, Listens(stack), Listens(stack'), Locals(stack[2], stack'[2]),
           \A fd \in Fds : table'[fd] = table[fd] \/ table'[fd] \notin 1 .. conns,
           stack[2].client # None => table'[stack[2].client] = table[stack[2].client],
           canal'.fd = canal.fd \/ (canal.fd \in Fds => table'[canal.fd] \notin 1 .. conns),
           stack'[2].at = "request" => stack[2].at = "request",
           stack'[2].at \in Serving => stack[2].at \in Serving,
           stack[2].at \in {"upgraded", "looped"} =>
              \/ stack'[2].at \in {"upgraded", "looped"}
              \/ canal.fd \in Fds => table'[canal.fd] \notin 1 .. conns
    PROVE  CurrentInv'
PROOF
  <1> DEFINE f == stack[2]
             g == stack'[2]
             b == IF g.client = None THEN 0 ELSE table'[g.client]
  <1>1. conns \in Nat /\ conns' \in Nat /\ conns <= conns' /\ writers' = writers
    BY ServerTypes DEF AInv, Still
  <1>2. Current(f) /\ TakenBefore(f)
    BY DEF AInv, CurrentInv
  <1>3. f.client = g.client /\ f.taken = g.taken /\ f.writer = g.writer
    BY DEF Locals
  <1>4. b = About(f)
    BY <1>3 DEF About
  <1>5. \A c \in 1 .. conns : answers'[c] = answers[c]
    BY <1>1 DEF Still
  <1>6. f.at \in {"request"} \cup Serving => About(f) \in 1 .. conns
    BY AboutIs DEF AInv
  <1> HIDE DEF f, g, b
  <1>7. /\ g.at = "request" => answers'[b] = <<>>
        /\ g.at \in Serving => LET w == writers'[g.writer]
                               IN /\ w.fd = g.client /\ w.conn = b
                                  /\ IF w.sent THEN Len(answers'[b]) = 1 ELSE answers'[b] = <<>>
    BY <1>1, <1>2, <1>3, <1>4, <1>5, <1>6 DEF Current, f, g
  <1>8. ASSUME NEW c \in g.taken
        PROVE  /\ c \in 1 .. conns'
               /\ c # b => Len(answers'[c]) = 1
               /\ \A fd \in Fds : table'[fd] = c =>
                     fd = g.client \/ (g.at \in {"upgraded", "looped"} /\ fd = canal'.fd)
    <2>1. /\ c \in 1 .. conns
          /\ c # About(f) => Len(answers[c]) = 1
          /\ \A fd \in Fds : table[fd] = c => fd = f.client \/ (f.at \in {"upgraded", "looped"} /\ fd = canal.fd)
      BY <1>2, <1>3, <1>8 DEF TakenBefore
    <2>2. c \in 1 .. conns' /\ (c # b => Len(answers'[c]) = 1)
      BY <1>1, <1>4, <1>5, <2>1
    <2>3. \A fd \in Fds : table'[fd] = c => fd = g.client \/ (g.at \in {"upgraded", "looped"} /\ fd = canal'.fd)
      <3> SUFFICES ASSUME NEW fd \in Fds, table'[fd] = c, fd # g.client
                   PROVE  g.at \in {"upgraded", "looped"} /\ fd = canal'.fd
        OBVIOUS
      <3>1. table[fd] = c
        BY <2>1
      <3>2. f.at \in {"upgraded", "looped"} /\ fd = canal.fd
        BY <1>3, <2>1, <3>1
      <3> QED
        BY <2>1, <3>2 DEF f, g
    <2> QED
      BY <2>2, <2>3
  <1> QED
    BY <1>7, <1>8 DEF CurrentInv, Current, TakenBefore, About, b, g


\* A step in which écouter stays where it is and closes at most what is not its own.
LEMMA StillSame ==
    ASSUME AInv, IInv', Still, Same(stack, stack'), server'.failed = server.failed,
           \A fd \in Fds : table'[fd] = table[fd] \/ table'[fd] \notin 1 .. conns,
           Listens(stack) /\ stack[2].client # None => table'[stack[2].client] = table[stack[2].client],
           canal'.fd = canal.fd \/ (canal.fd \in Fds => table'[canal.fd] \notin 1 .. conns)
    PROVE  AInv'
PROOF
  <1>1. AnswersInv' /\ WritersInv'
    BY StillAnswers, StillWriters DEF Same
  <1>2. CurrentInv'
    <2>1. CASE Listens(stack)
      <3>1. Listens(stack') /\ stack'[2] = stack[2]
        BY <2>1 DEF Same
      <3>2. Locals(stack[2], stack'[2])
        BY <2>1, <3>1, EcoutesAre DEF AInv, Locals
      <3> QED
        BY <2>1, <3>1, <3>2, StillCurrent
    <2>2. CASE ~Listens(stack)
      BY <2>2 DEF Same, CurrentInv
    <2> QED
      BY <2>1, <2>2
  <1> QED
    BY <1>1, <1>2 DEF AInv

\* What a close does to the other descriptors.
LEMMA ClosingIs ==
    ASSUME IInv, NEW fd \in Fds \cup {None}
    PROVE  /\ \A other \in Fds : Closing(fd)[other] = IF other = fd THEN None ELSE table[other]
           /\ \A other \in Fds : Closing(fd)[other] = table[other] \/ Closing(fd)[other] \notin 1 .. conns
           /\ fd \in Fds => Closing(fd)[fd] \notin 1 .. conns
PROOF
  <1>1. table \in [Fds -> Kinds] /\ None \notin Fds /\ None = 0
    BY ClientFields DEF Fds, None
  <1>2. \A other \in Fds : Closing(fd)[other] = IF other = fd THEN None ELSE table[other]
    BY <1>1 DEF Closing
  <1>3. None \notin 1 .. conns
    BY <1>1
  <1> QED
    BY <1>2, <1>3

\* A callback that returns, or that raises, answers nobody.
LEMMA ThreadAnswers ==
    ASSUME AInv, IInv', ThreadSteps \/ Fail, UNCHANGED <<canalVars, protocol, serverVars>>
    PROVE  AInv'
PROOF
  <1>1. IInv /\ Same(stack, stack')
    BY ThreadStep DEF AInv
  <1>2. UNCHANGED <<table, conns, canal, server, writers, answers>>
    BY DEF ThreadSteps, Return, UnwindProgram, Fail, socketVars, canalVars, serverVars
  <1>3. Still
    BY <1>1, <1>2, StillUnchanged
  <1> QED
    BY <1>1, <1>2, <1>3, StillSame

\* No step of a CanalClient answers a request.
LEMMA CanalAnswers ==
    ASSUME AInv, IInv', CanalOnly, UNCHANGED <<protocol, serverVars>>
    PROVE  AInv'
PROOF
  <1>1. IInv /\ Same(stack, stack') /\ UNCHANGED <<server, writers, answers>>
    BY CanalStep DEF AInv, serverVars
  <1>2. canal \in Clients /\ canal.fd \in Fds \cup {None}
    BY <1>1, LoopTypes, ClientFields
  <1>3. /\ UNCHANGED conns
        /\ \/ table' = table /\ canal'.fd = canal.fd
           \/ table' = Closing(canal.fd)
    <2>1. CASE Fermer
      <3>1. PICK sent \in SendOutcomes(canal.fd) :
               /\ table' = IF sent THEN Closing(canal.fd) ELSE table
               /\ canal' = IF sent THEN [canal EXCEPT !.closed = TRUE, !.fd = None] ELSE canal
        BY <2>1 DEF Fermer
      <3>2. UNCHANGED conns
        BY <2>1 DEF Fermer
      <3> QED
        BY <3>1, <3>2
    <2>2. CASE OpenNotified
      BY <1>2, <2>2 DEF OpenNotified, socketVars, Clients
    <2>3. CASE ReceiveEnd \/ ReceiveClose
      BY <1>2, <2>3 DEF ReceiveEnd, ReceiveClose, socketVars, Clients
    <2>4. CASE Envoyer \/ Attendre \/ ReceiveCut \/ ReceiveControl \/ ReceiveData
      BY <2>4 DEF Envoyer, Attendre, ReceiveCut, ReceiveControl, ReceiveData, socketVars, canalVars
    <2>5. CASE Deliver \/ Dispatch \/ FailServer \/ Rethrow \/ LoopEnds \/ Disconnect \/ LoopReturns \/ UnwindLoop
      BY <2>5 DEF Deliver, Dispatch, FailServer, Rethrow, LoopEnds, Disconnect, LoopReturns, UnwindLoop, socketVars, canalVars
    <2> QED
      BY <2>1, <2>2, <2>3, <2>4, <2>5 DEF CanalOnly, CanalCalls, CanalReceives, CanalSteps
  <1>4. Still
    BY <1>1, <1>3, StillUnchanged
  <1>5. CASE table' = table /\ canal'.fd = canal.fd
    BY <1>1, <1>4, <1>5, StillSame
  <1>6. CASE table' = Closing(canal.fd)
    <2>1. Listens(stack) /\ stack[2].client # None => table'[stack[2].client] = table[stack[2].client]
      BY <1>1, <1>2, <1>6, AboutIs, ClosingIs
    <2>2. /\ \A fd \in Fds : table'[fd] = table[fd] \/ table'[fd] \notin 1 .. conns
          /\ canal.fd \in Fds => table'[canal.fd] \notin 1 .. conns
      BY <1>1, <1>2, <1>6, ClosingIs
    <2> QED
      BY <1>1, <1>4, <2>1, <2>2, StillSame
  <1> QED
    BY <1>3, <1>5, <1>6

\* Calls of the program's that are about sockets of its own.
LEMMA CallsAnswer ==
    ASSUME AInv, IInv', Arreter \/ Connecter \/ LireFin \/ FermerClient \/ DropClient \/ AcceptFails \/ RequestFails
    PROVE  AInv'
PROOF
  <1>1. IInv
    BY DEF AInv
  <1>2. server \in Servers /\ server.fd \in Fds \cup {None} /\ client.fd \in Fds \cup {None}
    BY <1>1, ServerTypes, ClientFields
  <1>3. UNCHANGED <<stack, canal, writers>>
    BY DEF Arreter, Connecter, LireFin, FermerClient, DropClient, AcceptFails, RequestFails, canalVars, serverVars
  <1>4. server'.failed = server.failed
    <2>1. CASE Arreter
      BY <1>2, <2>1 DEF Arreter, Servers
    <2>2. CASE Connecter \/ LireFin \/ FermerClient \/ DropClient \/ AcceptFails \/ RequestFails
      BY <2>2 DEF Connecter, LireFin, FermerClient, DropClient, AcceptFails, RequestFails, serverVars
    <2> QED
      BY <2>1, <2>2
  <1>5. Same(stack, stack')
    BY <1>3, SameStack
  <1>6. CASE Connecter
    <2>1. PICK fd \in Fds : Connects(fd)
      BY <1>6 DEF Connecter
    <2>2. /\ table[fd] = None /\ conns' = conns + 1 /\ table' = [table EXCEPT ![fd] = conns + 1]
          /\ answers' = Append(answers, <<>>)
      BY <1>1, <1>6, <2>1, Connected DEF Connecter
    <2>3. Still
      BY <1>1, <1>3, <2>2, StillConnects
    <2>4. table \in [Fds -> Kinds] /\ conns \in Nat
      BY <1>1, ClientFields
    <2>5. \A other \in Fds : table'[other] = table[other] \/ table'[other] \notin 1 .. conns
      BY <2>2, <2>4
    <2>6. Listens(stack) /\ stack[2].client # None => table'[stack[2].client] = table[stack[2].client]
      <3>1. Listens(stack) /\ stack[2].client # None => stack[2].client \in Fds /\ table[stack[2].client] # None
        BY <1>1, AboutIs DEF None
      <3> QED
        BY <2>2, <2>4, <3>1
    <2> QED
      BY <1>3, <1>4, <1>5, <2>3, <2>5, <2>6, StillSame
  <1>7. CASE ~Connecter
    <2>1. UNCHANGED <<conns, answers>>
      BY <1>7 DEF Arreter, LireFin, FermerClient, DropClient, AcceptFails, RequestFails, socketVars, serverVars
    <2>2. Still
      BY <1>1, <1>3, <2>1, StillUnchanged
    <2>3. table' = table \/ table' = Closing(server.fd) \/ table' = Closing(client.fd)
      BY <1>7 DEF Arreter, LireFin, FermerClient, DropClient, AcceptFails, RequestFails, socketVars
    <2>4. /\ \A fd \in Fds : table'[fd] = table[fd] \/ table'[fd] \notin 1 .. conns
          /\ Listens(stack) /\ stack[2].client # None => table'[stack[2].client] = table[stack[2].client]
      BY <1>1, <1>2, <2>3, AboutIs, ClosingIs
    <2> QED
      BY <1>3, <1>4, <1>5, <2>2, <2>4, StillSame
  <1> QED
    BY <1>6, <1>7

\* écouter moves on with the same locals, and nobody answers.
LEMMA StillMoves ==
    ASSUME AInv, IInv', NEW from, NEW to, Moves(from, to), Still, server'.failed = server.failed,
           \A fd \in Fds : table'[fd] = table[fd] \/ table'[fd] \notin 1 .. conns,
           stack[2].client # None => table'[stack[2].client] = table[stack[2].client],
           canal'.fd = canal.fd \/ (canal.fd \in Fds => table'[canal.fd] \notin 1 .. conns),
           to # "request", to \in Serving <=> from \in Serving,
           from \in {"upgraded", "looped"} =>
              \/ to \in {"upgraded", "looped"}
              \/ canal.fd \in Fds => table'[canal.fd] \notin 1 .. conns
    PROVE  AInv'
PROOF
  <1>1. AnswersInv'
    BY StillAnswers
  <1>2. WritersInv'
    BY StillWriters DEF Moves, Locals
  <1>3. CurrentInv'
    BY StillCurrent DEF Moves
  <1> QED
    BY <1>1, <1>2, <1>3 DEF AInv

\* écouter that goes on with the same locals answers nobody.
LEMMA MovesAnswer ==
    ASSUME AInv, IInv',
           AfterConnection \/ RunsLoop \/ ChainEnds \/ CallMiddleware \/ AfterMiddleware \/ CallHandler \/ Suivant
    PROVE  AInv'
PROOF
  <1>1. IInv
    BY DEF AInv
  <1>2. UNCHANGED <<table, conns, canal, server, writers, answers>>
    BY DEF AfterConnection, RunsLoop, ChainEnds, CallMiddleware, AfterMiddleware, CallHandler, Suivant,
       socketVars, canalVars, serverVars
  <1>3. Still
    BY <1>1, <1>2, StillUnchanged
  <1>4. \/ Moves("connected", "accept") \/ Moves("upgraded", "looped") \/ Moves("chain", "answer")
        \/ Moves("chain", "middleware") \/ Moves("middleware", "chain") \/ Moves("middleware", "answer")
        \/ Moves("middleware", "middleware")
    BY <1>1, AfterConnectionStep, RunsLoopStep, ChainEndsStep, CallMiddlewareStep, AfterMiddlewareStep,
       CallHandlerStep, SuivantStep
  <1>5. \A from, to : Moves(from, to) /\ to # "request" /\ (to \in Serving <=> from \in Serving)
                      /\ (from \in {"upgraded", "looped"} => to \in {"upgraded", "looped"}) => AInv'
    BY <1>2, <1>3, StillMoves
  <1> QED
    BY <1>4, <1>5 DEF Serving


\* The end of a CanalClient's loop answers nobody.
LEMMA AfterLoopAnswers ==
    ASSUME AInv, IInv', AfterLoop
    PROVE  AInv'
PROOF
  <1>1. IInv /\ Moves("looped", "accept")
    BY AfterLoopStep DEF AInv
  <1>2. table' = Closing(canal.fd) /\ UNCHANGED <<conns, server, writers, answers>>
    BY DEF AfterLoop, serverVars
  <1>3. canal.fd \in Fds \cup {None} /\ Listens(stack)
    BY <1>1, ClientFields DEF Moves
  <1>4. Still
    BY <1>1, <1>2, StillUnchanged
  <1>5. stack[2].client # None => table'[stack[2].client] = table[stack[2].client]
    BY <1>1, <1>2, <1>3, AboutIs, ClosingIs
  <1>6. /\ \A fd \in Fds : table'[fd] = table[fd] \/ table'[fd] \notin 1 .. conns
        /\ canal.fd \in Fds => table'[canal.fd] \notin 1 .. conns
    BY <1>1, <1>2, <1>3, ClosingIs
  <1> QED
    BY <1>1, <1>2, <1>4, <1>5, <1>6, StillMoves DEF Serving

\* écouter accepts, and nobody has answered on the new connection.
LEMMA AcceptAnswers ==
    ASSUME AInv, IInv', AcceptClient
    PROVE  AInv'
PROOF
  <1>1. IInv
    BY DEF AInv
  <1>2. /\ stack # <<>> /\ Top.kind = "listen" /\ Top.at = "accept" /\ UNCHANGED <<canal, server, writers>>
        /\ \E fd \in Fds : Connects(fd) /\ answers' = Append(answers, <<>>)
    BY DEF AcceptClient, At, canalVars
  <1>3. Listens(stack) /\ stack[2] = Top /\ stack[2].client = None
    BY <1>1, <1>2, TopFields, Served DEF Serving
  <1>4. table \in [Fds -> Kinds] /\ conns \in Nat /\ Distinct(table, conns)
    BY <1>1, ClientFields
  <1>5. PICK fd \in Fds : Connects(fd)
    BY <1>2
  <1>6. conns' = conns + 1 /\ table' = [table EXCEPT ![fd] = conns + 1] /\ Still /\ answers'[conns + 1] = <<>>
    <2>1. conns' = conns + 1 /\ table' = [table EXCEPT ![fd] = conns + 1]
      BY <1>1, <1>2, <1>5, Connected
    <2>2. Still
      BY <1>1, <1>2, <2>1, StillConnects
    <2> QED
      BY <1>4, <2>1, <2>2 DEF Still
  <1>7. \A other \in Fds : table'[other] = IF other = fd THEN conns + 1 ELSE table[other]
    BY <1>4, <1>6
  <1>8. CASE protocol = "tcp"
    <2>1. Moves("accept", "connected")
      BY <1>1, <1>8, AcceptClientStep
    <2>2. \A other \in Fds : table'[other] = table[other] \/ table'[other] \notin 1 .. conns
      BY <1>4, <1>7
    <2> QED
      BY <1>2, <1>3, <1>6, <2>1, <2>2, StillMoves DEF Serving
  <1>9. CASE protocol # "tcp"
    <2>1. PICK fd2 \in Fds : Connects(fd2) /\ Turns("request", fd2, stack[2].taken \cup {conns + 1})
      BY <1>1, <1>9, AcceptClientStep
    <2>2. fd2 = fd
      BY <1>5, <2>1 DEF Connects
    <2> DEFINE f == stack[2]
               g == stack'[2]
    <2>3. Listens(stack') /\ g.at = "request" /\ g.client = fd /\ g.taken = f.taken \cup {conns + 1}
      BY <2>1, <2>2 DEF Turns
    <2>4. TakenBefore(f) /\ About(f) = 0 /\ f.at = "accept" /\ f.client = None
      BY <1>1, <1>2, <1>3, AboutIs DEF AInv, CurrentInv
    <2>5. AnswersInv' /\ WritersInv'
      BY <1>2, <1>3, <1>6, StillAnswers, StillWriters DEF Serving
    <2> HIDE DEF f, g
    <2>6. fd # None
      BY DEF Fds, None
    <2>7. ASSUME NEW c \in g.taken
          PROVE  /\ c \in 1 .. conns'
                 /\ c # conns + 1 => Len(answers'[c]) = 1
                 /\ \A x \in Fds : table'[x] = c => x = fd
      <3>1. CASE c = conns + 1
        <4>1. c \in 1 .. conns'
          BY <1>4, <1>6, <3>1
        <4>2. \A x \in Fds : table[x] # conns + 1
          BY <1>4 DEF Distinct, Kinds, None, Listening
        <4> QED
          BY <1>7, <3>1, <4>1, <4>2
      <3>2. CASE c # conns + 1
        <4>1. c \in f.taken
          BY <2>3, <2>7, <3>2
        <4>2. c \in 1 .. conns /\ Len(answers[c]) = 1 /\ \A x \in Fds : table[x] # c
          <5>1. \A x \in Fds : table[x] = c => x = None
            BY <2>4, <4>1 DEF TakenBefore
          <5>2. None \notin Fds
            BY DEF Fds, None
          <5>3. c \in 1 .. conns /\ (c # 0 => Len(answers[c]) = 1)
            BY <2>4, <4>1 DEF TakenBefore
          <5> QED
            BY <1>4, <5>1, <5>2, <5>3
        <4>3. c \in 1 .. conns' /\ answers'[c] = answers[c]
          BY <1>4, <1>6, <4>2 DEF Still
        <4> QED
          BY <1>7, <3>2, <4>2, <4>3
      <3> QED
        BY <3>1, <3>2
    <2>8. table'[fd] = conns + 1
      BY <1>7
    <2>9. CurrentInv'
      BY <1>6, <2>3, <2>6, <2>7, <2>8 DEF CurrentInv, Current, TakenBefore, About, Serving, g
    <2> QED
      BY <2>5, <2>9 DEF AInv
  <1> QED
    BY <1>8, <1>9

\* écouter that starts, or fails to, answers nobody.
LEMMA EcouterAnswers ==
    ASSUME AInv, IInv', Ecouter
    PROVE  AInv'
PROOF
  <1>1. IInv /\ UNCHANGED <<conns, canal, writers, answers>>
    BY DEF AInv, Ecouter, canalVars
  <1>2. server'.failed = server.failed
    BY <1>1, ServerTypes DEF Ecouter, Servers
  <1>3. Still
    BY <1>1, StillUnchanged
  <1>4. CASE Same(stack, stack') /\ table' = table
    BY <1>1, <1>2, <1>3, <1>4, StillSame
  <1>5. CASE /\ Listens(stack') /\ stack'[2].at = "accept" /\ stack'[2].taken = {} /\ stack'[2].client = None
             /\ ~Listens(stack)
    <2>1. AnswersInv' /\ WritersInv'
      BY <1>2, <1>3, <1>5, StillAnswers, StillWriters
    <2>2. CurrentInv'
      BY <1>5 DEF CurrentInv, Current, TakenBefore, Serving
    <2> QED
      BY <2>1, <2>2 DEF AInv
  <1> QED
    BY <1>1, <1>4, <1>5, EcouterStep

\* écouter returns with every request answered, or fails.
LEMMA LeavesAnswer ==
    ASSUME AInv, IInv', StopListening \/ UnwindListen
    PROVE  AInv'
PROOF
  <1>1. IInv /\ UNCHANGED <<conns, writers, answers>>
    BY DEF AInv, StopListening, UnwindListen
  <1>2. Still
    BY <1>1, StillUnchanged
  <1>3. stack # <<>> /\ Top.kind = "listen" /\ stack' = Front(stack)
    BY DEF StopListening, UnwindListen, At
  <1>4. Listens(stack) /\ stack[2] = Top /\ ~Listens(stack')
    BY <1>1, <1>3, TopFields, PopKeeps
  <1>5. CASE StopListening
    <2>1. stack[2].at = "accept" /\ server'.failed = server.failed
      BY <1>1, <1>4, <1>5, ServerTypes DEF StopListening, At, Servers
    <2> QED
      BY <1>2, <1>4, <2>1, StillAnswers, StillWriters DEF AInv, CurrentInv, Serving
  <1>6. CASE UnwindListen
    <2>1. server'.failed
      BY <1>1, <1>6, ServerTypes DEF UnwindListen, Servers
    <2> QED
      BY <1>2, <1>4, <2>1, StillAnswers, StillWriters DEF AInv, CurrentInv
  <1> QED
    BY <1>5, <1>6

\* A request gets its writer; every response kept from before has been sent.
LEMMA RoutedAnswers ==
    ASSUME AInv, IInv', RequestRouted
    PROVE  AInv'
PROOF
  <1>1. /\ stack # <<>> /\ Top.kind = "listen" /\ Top.at = "request"
        /\ writers' = Append(writers, NewWriter(Top.client))
        /\ UNCHANGED <<table, conns, canal, server, answers>>
    BY DEF RequestRouted, At, canalVars, socketVars
  <1>2. IInv
    BY DEF AInv
  <1>3. Turns("chain", stack[2].client, stack[2].taken) /\ stack'[2].writer = Len(writers) + 1
    BY <1>2, RequestRoutedStep
  <1> DEFINE f == stack[2]
             g == stack'[2]
             n == Len(writers) + 1
  <1>4. /\ Listens(stack) /\ f = Top /\ f.at = "request" /\ f.client # None
        /\ Listens(stack') /\ g.at = "chain" /\ g.client = f.client /\ g.taken = f.taken /\ g.writer = n
    BY <1>1, <1>2, <1>3, TopFields, AboutIs DEF Turns
  <1>5. About(f) = table[f.client] /\ About(f) \in 1 .. conns
    BY <1>2, <1>4, AboutIs
  <1>6. Current(f) /\ TakenBefore(f)
    BY <1>4 DEF AInv, CurrentInv
  <1>7. writers \in Seq(Writers) /\ NewWriter(f.client) \in Writers
    <2>1. writers \in Seq(Writers) /\ f.client \in Fds
      BY <1>2, <1>4, AboutIs, ServerTypes
    <2>2. table[f.client] \in Kinds
      BY <1>2, <2>1, ClientFields
    <2> QED
      BY <2>1, <2>2 DEF NewWriter, Writers
  <1>8. /\ DOMAIN writers = 1 .. Len(writers) /\ DOMAIN writers' = 1 .. n /\ Len(writers) \in Nat
        /\ \A w \in 1 .. Len(writers) : writers'[w] = writers[w]
        /\ writers'[n] = NewWriter(f.client)
    BY <1>1, <1>4, <1>7, Pushed
  <1>9. writers'[n].fd = f.client /\ writers'[n].conn = About(f) /\ ~writers'[n].sent
    BY <1>5, <1>8 DEF NewWriter
  <1> HIDE DEF f, g, n
  <1>10. AnswersInv'
    <2>1. \A w \in DOMAIN writers : w \in DOMAIN writers' /\ writers'[w] = writers[w]
      BY <1>8 DEF n
    <2> QED
      BY <1>1, <2>1 DEF AInv, AnswersInv
  <1>11. WritersInv'
    <2> SUFFICES ASSUME NEW w \in DOMAIN writers'
                 PROVE  /\ writers'[w].conn \in 1 .. conns
                        /\ ~server.failed /\ ~writers'[w].sent => w = n
      BY <1>1, <1>4 DEF WritersInv, Serving, g
    <2>1. CASE w = n
      BY <1>5, <1>9, <2>1
    <2>2. CASE w # n
      <3>1. w \in DOMAIN writers /\ writers'[w] = writers[w]
        BY <1>8, <2>2 DEF n
      <3>2. writers[w].conn \in 1 .. conns /\ (~server.failed => writers[w].sent)
        BY <1>4, <3>1 DEF AInv, WritersInv, Serving, f
      <3> QED
        BY <3>1, <3>2
    <2> QED
      BY <2>1, <2>2
  <1>12. CurrentInv'
    <2>1. (IF g.client = None THEN 0 ELSE table'[g.client]) = About(f)
      BY <1>1, <1>4 DEF About
    <2>2. answers'[About(f)] = <<>>
      BY <1>1, <1>4, <1>6 DEF Current
    <2>3. \A c \in g.taken : /\ c \in 1 .. conns' /\ (c # About(f) => Len(answers'[c]) = 1)
                             /\ \A fd \in Fds : table'[fd] = c => fd = g.client
      BY <1>1, <1>4, <1>6 DEF TakenBefore
    <2> QED
      BY <1>4, <1>9, <2>1, <2>2, <2>3 DEF CurrentInv, Current, TakenBefore, About, Serving, g
  <1> QED
    BY <1>10, <1>11, <1>12 DEF AInv


\* A response reaches the connection of the request, by its writer or by none.
LEMMA OneAnswer ==
    ASSUME AInv, Listens(stack), stack[2].client # None, answers[About(stack[2])] = <<>>, NEW by \in Nat,
           answers' = Answered(stack[2].client, by), conns' = conns, DOMAIN writers' = DOMAIN writers,
           \A w \in DOMAIN writers : writers'[w].conn = writers[w].conn,
           by # 0 => by \in DOMAIN writers /\ writers[by].conn = About(stack[2])
    PROVE  /\ AnswersInv' /\ Len(answers'[About(stack[2])]) = 1
           /\ \A c \in 1 .. conns : c # About(stack[2]) => answers'[c] = answers[c]
PROOF
  <1> DEFINE d == About(stack[2])
  <1>1. IInv /\ stack[2].client \in Fds /\ d = table[stack[2].client] /\ d \in 1 .. conns /\ conns \in Nat
    BY AboutIs, ServerTypes DEF AInv
  <1>2. \A c \in 1 .. conns : answers'[c] = IF c = d THEN Append(answers[c], by) ELSE answers[c]
    <2> DEFINE fd == stack[2].client
    <2>1. table[fd] > 0 /\ fd \in Fds /\ fd \in Fds \cup {None} /\ d = table[fd] /\ answers' = Answered(fd, by)
      BY <1>1
    <2> HIDE DEF fd, d
    <2>2. \A c \in 1 .. conns :
             Answered(fd, by)[c] = IF c = table[fd] THEN Append(answers[c], by) ELSE answers[c]
      BY <1>1, <2>1, AnsweredTypes
    <2> QED
      BY <2>1, <2>2
  <1> HIDE DEF d
  <1>3. /\ Len(answers'[d]) = 1 /\ DOMAIN answers'[d] = 1 .. 1 /\ answers'[d][1] = by
    <2>1. answers'[d] = Append(<<>>, by)
      BY <1>1, <1>2 DEF d
    <2>2. <<>> \in Seq(Nat) /\ Len(<<>>) = 0 /\ 0 + 1 = 1
      BY EmptySeq
    <2> QED
      BY <2>1, <2>2, Pushed
  <1>4. AnswersInv'
    <2> SUFFICES ASSUME NEW c \in 1 .. conns
                 PROVE  /\ Len(answers'[c]) <= 1
                        /\ \A k \in DOMAIN answers'[c] :
                              answers'[c][k] # 0 =>
                                 answers'[c][k] \in DOMAIN writers /\ writers[answers'[c][k]].conn = c
      BY DEF AnswersInv
    <2>1. CASE c = d
      <3>1. \A k \in DOMAIN answers'[c] : answers'[c][k] = by
        BY <1>3, <2>1
      <3>2. by # 0 => by \in DOMAIN writers /\ writers[by].conn = c
        BY <2>1 DEF d
      <3>3. Len(answers'[c]) <= 1
        <4>1. Len(answers'[d]) = 1
          BY <1>3
        <4>2. Len(answers'[c]) = 1
          BY <2>1, <4>1, Zenon
        <4> QED
          BY <4>2
      <3>4. \A k \in DOMAIN answers'[c] :
               answers'[c][k] # 0 => answers'[c][k] \in DOMAIN writers /\ writers[answers'[c][k]].conn = c
        BY <3>1, <3>2, Zenon
      <3> QED
        BY <3>3, <3>4
    <2>2. CASE c # d
      BY <1>2, <2>2 DEF AInv, AnswersInv
    <2> QED
      BY <2>1, <2>2
  <1> QED
    BY <1>2, <1>3, <1>4 DEF d

\* écouter turns from a request that has been answered.
LEMMA TurnsAway ==
    ASSUME AInv, IInv', NEW point \in {"accept", "upgraded"}, Turns(point, None, stack[2].taken),
           stack[2].client # None, conns' = conns, Len(answers'[About(stack[2])]) = 1,
           \A c \in 1 .. conns : c # About(stack[2]) => answers'[c] = answers[c],
           \A fd \in Fds : table'[fd] \in 1 .. conns =>
              /\ table'[fd] = table[fd]
              /\ fd = stack[2].client => point = "upgraded" /\ canal'.fd = fd
    PROVE  CurrentInv'
PROOF
  <1> DEFINE f == stack[2]
             g == stack'[2]
  <1>1. Listens(stack) /\ Listens(stack') /\ g.at = point /\ g.client = None /\ g.taken = f.taken
    BY DEF Turns
  <1>2. TakenBefore(f) /\ f.at \in {"request"} \cup Serving /\ About(f) \in 1 .. conns
    BY <1>1, AboutIs DEF AInv, CurrentInv
  <1> HIDE DEF f, g
  <1>3. ASSUME NEW c \in g.taken
        PROVE  /\ c \in 1 .. conns' /\ Len(answers'[c]) = 1
               /\ \A fd \in Fds : table'[fd] = c => g.at \in {"upgraded", "looped"} /\ fd = canal'.fd
    <2>1. /\ c \in 1 .. conns
          /\ c # About(f) => Len(answers[c]) = 1
          /\ \A fd \in Fds : table[fd] = c => fd = f.client
      BY <1>1, <1>2, <1>3 DEF TakenBefore, Serving
    <2>2. Len(answers'[c]) = 1
      BY <2>1 DEF f
    <2>3. \A fd \in Fds : table'[fd] = c => g.at \in {"upgraded", "looped"} /\ fd = canal'.fd
      <3> SUFFICES ASSUME NEW fd \in Fds, table'[fd] = c
                   PROVE  g.at \in {"upgraded", "looped"} /\ fd = canal'.fd
        OBVIOUS
      <3>1. table[fd] = c
        BY <2>1
      <3>2. fd = f.client
        BY <2>1, <3>1
      <3> QED
        BY <1>1, <2>1, <3>2 DEF f
    <2> QED
      BY <2>1, <2>2, <2>3
  <1>4. g.at \notin {"request"} \cup Serving
    BY <1>1 DEF Serving
  <1> QED
    BY <1>1, <1>3, <1>4 DEF CurrentInv, Current, TakenBefore, About, Serving, g

\* Before its response is sent nothing that was kept is unsent, or écouter has failed.
LEMMA RequestHere ==
    ASSUME IInv, stack # <<>>, Top.kind = "listen", Top.at = "request" \/ Top.at \in Serving
    PROVE  Listens(stack) /\ stack[2] = Top /\ Top.client \in Fds /\ Top.client # None
PROOF
  <1>1. Listens(stack) /\ stack[2] = Top
    BY TopFields
  <1> QED
    BY <1>1, AboutIs

\* A request that is refused or upgraded is answered at most once, without a
\* response of its own.
LEMMA RefusedAnswers ==
    ASSUME AInv, IInv', RequestRefused \/ RequestUpgraded
    PROVE  AInv'
PROOF
  <1>1. /\ stack # <<>> /\ Top.kind = "listen" /\ Top.at = "request" /\ raising = "nothing"
        /\ UNCHANGED <<conns, server, writers>>
    BY DEF RequestRefused, RequestUpgraded, At
  <1>2. IInv
    BY DEF AInv
  <1>3. Listens(stack) /\ stack[2] = Top /\ Top.client \in Fds /\ Top.client # None /\ stack[2].at = "request"
    BY <1>1, <1>2, RequestHere
  <1>4. answers[About(stack[2])] = <<>>
    BY <1>3 DEF AInv, CurrentInv, Current
  <1>5. canal.fd \in Fds \cup {None} /\ Top.client # canal.fd
    BY <1>2, <1>3, AboutIs, ClientFields
  <1>6. PICK sent \in SendOutcomes(Top.client) :
           /\ raising' = IF sent THEN "nothing" ELSE "network"
           /\ \/ /\ RequestRefused
                 /\ answers' = IF sent THEN Answered(Top.client, 0) ELSE answers
                 /\ table' = IF sent THEN Closing(Top.client) ELSE table
                 /\ ~sent => stack' = stack
                 /\ canal' = canal
              \/ /\ RequestUpgraded
                 /\ table' = Closing(IF sent THEN canal.fd ELSE None)
                 /\ ~sent => UNCHANGED <<answers, canal, stack>>
                 /\ sent => answers' = Answered(Top.client, 0) /\ canal' = NewClient(Top.client)
    BY DEF RequestRefused, RequestUpgraded, canalVars
  <1>7. sent \in BOOLEAN
    BY <1>2, <1>3, <1>6, Sends
  <1>8. CASE ~sent
    <2>1. UNCHANGED <<table, answers, canal, stack>>
      BY <1>6, <1>8 DEF Closing
    <2>2. Still /\ Same(stack, stack')
      BY <1>1, <1>2, <2>1, StillUnchanged, SameStack
    <2> QED
      BY <1>1, <2>1, <2>2, StillSame
  <1>9. CASE sent
    <2>1. answers' = Answered(stack[2].client, 0) /\ stack[2].client # None /\ 0 \in Nat
      BY <1>3, <1>6, <1>9
    <2>2. /\ AnswersInv' /\ Len(answers'[About(stack[2])]) = 1
          /\ \A c \in 1 .. conns : c # About(stack[2]) => answers'[c] = answers[c]
      BY <1>1, <1>3, <1>4, <2>1, OneAnswer
    <2>3. CurrentInv'
      <3>1. CASE RequestRefused /\ table' = Closing(Top.client)
        <4>1. Turns("accept", None, stack[2].taken)
          BY <1>2, <1>6, <1>9, <3>1, RequestRefusedStep
        <4>2. \A fd \in Fds : table'[fd] \in 1 .. conns => table'[fd] = table[fd] /\ fd # stack[2].client
          BY <1>2, <1>3, <3>1, ClosingIs
        <4> QED
          BY <1>1, <2>1, <2>2, <4>1, <4>2, TurnsAway
      <3>2. CASE RequestUpgraded /\ table' = Closing(canal.fd) /\ canal' = NewClient(Top.client)
        <4>1. Turns("upgraded", None, stack[2].taken)
          BY <1>2, <1>6, <1>9, <3>2, RequestUpgradedStep
        <4>2. canal'.fd = stack[2].client
          BY <1>2, <1>3, <3>2, LoopTypes DEF NewClient, Clients
        <4>3. \A fd \in Fds : table'[fd] \in 1 .. conns => table'[fd] = table[fd]
          BY <1>2, <1>5, <3>2, ClosingIs
        <4> QED
          BY <1>1, <2>1, <2>2, <4>1, <4>2, <4>3, TurnsAway
      <3> QED
        BY <1>6, <1>9, <3>1, <3>2
    <2>4. WritersInv'
      <3> SUFFICES ASSUME NEW w \in DOMAIN writers
                   PROVE  writers[w].conn \in 1 .. conns /\ (~server.failed => writers[w].sent)
        BY <1>1 DEF WritersInv
      <3>1. WritersInv
        BY DEF AInv
      <3> QED
        BY <1>3, <3>1 DEF WritersInv, Serving
    <2> QED
      BY <2>2, <2>3, <2>4 DEF AInv
  <1> QED
    BY <1>7, <1>8, <1>9


\* The writer of the request answers, and écouter goes on to what comes after.
LEMMA AnsweredHere ==
    ASSUME AInv, IInv', Listens(stack), Listens(stack'), Locals(stack[2], stack'[2]),
           stack[2].at \in Serving, stack'[2].at \in Serving, NEW by, by = stack[2].writer, ~writers[by].sent,
           answers' = Answered(stack[2].client, by), writers' = [writers EXCEPT ![by].sent = TRUE],
           UNCHANGED <<table, conns>>, canal'.fd = canal.fd, server'.failed = server.failed
    PROVE  AInv'
PROOF
  <1> DEFINE f == stack[2]
             g == stack'[2]
  <1>1. IInv /\ Current(f) /\ TakenBefore(f)
    BY DEF AInv, CurrentInv
  <1>2. by \in DOMAIN writers /\ by \in Nat /\ f.client # None /\ About(f) = table[f.client] /\ About(f) \in 1 .. conns
    <2>1. by \in DOMAIN writers /\ f.client # None /\ About(f) = table[f.client] /\ About(f) \in 1 .. conns
      BY <1>1, AboutIs
    <2>2. DOMAIN writers = 1 .. Len(writers) /\ Len(writers) \in Nat
      BY <1>1, ServerTypes
    <2>3. by \in Nat
      BY <2>1, <2>2
    <2> QED
      BY <2>1, <2>3
  <1>3. /\ DOMAIN writers' = DOMAIN writers
        /\ \A w \in DOMAIN writers : /\ writers'[w].fd = writers[w].fd /\ writers'[w].conn = writers[w].conn
                                     /\ writers'[w].sent = IF w = by THEN TRUE ELSE writers[w].sent
    BY <1>1, <1>2, WriterSends
  <1>4. writers[by].fd = f.client /\ writers[by].conn = About(f) /\ answers[About(f)] = <<>>
    BY <1>1 DEF Current, f
  <1>5. /\ AnswersInv' /\ Len(answers'[About(f)]) = 1
        /\ \A c \in 1 .. conns : c # About(f) => answers'[c] = answers[c]
    BY <1>2, <1>3, <1>4, OneAnswer
  <1>6. g.client = f.client /\ g.taken = f.taken /\ g.writer = by
    BY DEF Locals
  <1>7. f.at \in Serving /\ g.at \in Serving /\ Listens(stack')
    OBVIOUS
  <1> HIDE DEF f, g
  <1>8. WritersInv'
    <2> SUFFICES ASSUME NEW w \in DOMAIN writers
                 PROVE  writers'[w].conn \in 1 .. conns /\ (~server.failed /\ ~writers'[w].sent => FALSE)
      BY <1>3 DEF WritersInv
    <2>1. writers[w].conn \in 1 .. conns /\ (~server.failed /\ ~writers[w].sent => w = by)
      BY DEF AInv, WritersInv
    <2> QED
      BY <1>3, <2>1
  <1>9. CurrentInv'
    <2>1. (IF g.client = None THEN 0 ELSE table'[g.client]) = About(f)
      BY <1>6 DEF About
    <2>2. writers'[g.writer].fd = g.client /\ writers'[g.writer].conn = About(f) /\ writers'[g.writer].sent
      BY <1>2, <1>3, <1>4, <1>6
    <2>3. \A c \in g.taken : /\ c \in 1 .. conns' /\ (c # About(f) => Len(answers'[c]) = 1)
                             /\ \A fd \in Fds : table'[fd] = c => fd = g.client
      BY <1>1, <1>5, <1>6, <1>7 DEF TakenBefore, Serving
    <2>4. g.at # "request"
      BY <1>7 DEF Serving
    <2> QED
      BY <1>5, <1>7, <2>1, <2>2, <2>3, <2>4 DEF CurrentInv, Current, TakenBefore, About, g
  <1> QED
    BY <1>5, <1>8, <1>9 DEF AInv

\* A 404 is the first answer to its request.
LEMMA NotFoundAnswers ==
    ASSUME AInv, IInv', NotFound
    PROVE  AInv'
PROOF
  <1>1. /\ stack # <<>> /\ Top.kind = "listen" /\ Top.at = "chain" /\ ~writers[Top.writer].sent
        /\ UNCHANGED <<table, conns, canal, server>>
    BY DEF NotFound, At, canalVars
  <1>2. IInv
    BY DEF AInv
  <1>3. Listens(stack) /\ stack[2] = Top /\ Top.client \in Fds /\ stack[2].at \in Serving
    BY <1>1, <1>2, RequestHere DEF Serving
  <1>4. Moves("chain", "answer")
    BY <1>2, NotFoundStep
  <1>5. PICK sent \in SendOutcomes(Top.client) :
           /\ answers' = IF sent THEN Answered(Top.client, Top.writer) ELSE answers
           /\ writers' = IF sent /\ Top.writer # 0 THEN [writers EXCEPT ![Top.writer].sent = TRUE] ELSE writers
    BY DEF NotFound, SendsResponse
  <1>6. sent \in BOOLEAN
    BY <1>2, <1>3, Sends
  <1>7. Top.writer # 0
    <2>1. stack[2].writer \in DOMAIN writers
      BY <1>2, <1>3, AboutIs
    <2> QED
      BY <1>2, <1>3, <2>1, ServerTypes
  <1>8. CASE sent
    <2>1. Listens(stack') /\ Locals(stack[2], stack'[2]) /\ stack'[2].at \in Serving
      BY <1>4 DEF Moves, Serving
    <2> QED
      BY <1>1, <1>3, <1>5, <1>7, <1>8, <2>1, AnsweredHere
  <1>9. CASE ~sent
    <2>1. Still
      BY <1>1, <1>2, <1>5, <1>9, StillUnchanged
    <2> QED
      BY <1>1, <1>4, <2>1, StillMoves DEF Serving
  <1> QED
    BY <1>6, <1>8, <1>9

\* The 204 is sent only when nobody has answered.
LEMMA AnswerAnswers ==
    ASSUME AInv, IInv', Answer
    PROVE  AInv'
PROOF
  <1>1. /\ stack # <<>> /\ Top.kind = "listen" /\ Top.at = "answer" /\ raising = "nothing"
        /\ UNCHANGED <<conns, canal, server>>
    BY DEF Answer, At, canalVars
  <1>2. IInv
    BY DEF AInv
  <1>3. Listens(stack) /\ stack[2] = Top /\ Top.client \in Fds /\ stack[2].client # None /\ stack[2].at \in Serving
    BY <1>1, <1>2, RequestHere DEF Serving
  <1> DEFINE f == stack[2]
             by == f.writer
  <1>4. Current(f) /\ by \in DOMAIN writers /\ by \in Nat /\ by # 0
    <2>1. Current(f) /\ by \in DOMAIN writers
      BY <1>2, <1>3, AboutIs DEF AInv, CurrentInv
    <2> QED
      BY <1>2, <2>1, ServerTypes
  <1>5. /\ writers[by].fd = f.client /\ writers[by].conn = About(f)
        /\ IF writers[by].sent THEN Len(answers[About(f)]) = 1 ELSE answers[About(f)] = <<>>
    BY <1>3, <1>4 DEF Current
  <1>6. \A w \in DOMAIN writers : writers[w].conn \in 1 .. conns /\ (~server.failed /\ ~writers[w].sent => w = by)
    BY DEF AInv, WritersInv
  <1>7. CASE raising' # "nothing"
    <2>1. UNCHANGED <<table, stack>>
      BY <1>7 DEF Answer
    <2>2. UNCHANGED <<writers, answers>>
      <3>1. CASE writers[Top.writer].sent
        BY <3>1 DEF Answer
      <3>2. CASE ~writers[Top.writer].sent
        <4>1. SendsResponse(Top.client, Top.writer)
          BY <3>2 DEF Answer
        <4> QED
          BY <1>7, <4>1 DEF SendsResponse
      <3> QED
        BY <3>1, <3>2
    <2>3. Still /\ Same(stack, stack')
      BY <1>1, <1>2, <2>1, <2>2, StillUnchanged, SameStack
    <2> QED
      BY <1>1, <2>1, <2>3, StillSame
  <1>8. CASE raising' = "nothing"
    <2>1. table' = Closing(Top.client) /\ Turns("accept", None, stack[2].taken)
      BY <1>2, <1>8, AnswerStep DEF Answer
    <2>2. /\ AnswersInv' /\ Len(answers'[About(f)]) = 1
          /\ \A c \in 1 .. conns : c # About(f) => answers'[c] = answers[c]
          /\ DOMAIN writers' = DOMAIN writers
          /\ \A w \in DOMAIN writers : /\ writers'[w].conn = writers[w].conn
                                       /\ writers'[w].sent \/ (~writers[w].sent /\ w # by)
      <3>1. CASE writers[by].sent
        <4>1. UNCHANGED <<writers, answers>>
          BY <1>3, <3>1 DEF Answer
        <4>2. AnswersInv'
          BY <1>1, <4>1 DEF AInv, AnswersInv
        <4> QED
          BY <1>5, <3>1, <4>1, <4>2
      <3>2. CASE ~writers[by].sent
        <4>1. SendsResponse(f.client, by)
          BY <1>3, <3>2 DEF Answer
        <4>2. answers' = Answered(f.client, by) /\ writers' = [writers EXCEPT ![by].sent = TRUE]
          BY <1>4, <1>8, <4>1 DEF SendsResponse
        <4>3. /\ DOMAIN writers' = DOMAIN writers
              /\ \A w \in DOMAIN writers : /\ writers'[w].conn = writers[w].conn
                                           /\ writers'[w].sent = IF w = by THEN TRUE ELSE writers[w].sent
          BY <1>2, <1>4, <4>2, WriterSends
        <4>4. /\ AnswersInv' /\ Len(answers'[About(f)]) = 1
              /\ \A c \in 1 .. conns : c # About(f) => answers'[c] = answers[c]
          BY <1>1, <1>3, <1>4, <1>5, <3>2, <4>2, <4>3, OneAnswer
        <4> QED
          BY <4>3, <4>4
      <3> QED
        BY <3>1, <3>2
    <2>3. CurrentInv'
      <3>1. \A fd \in Fds : table'[fd] \in 1 .. conns => table'[fd] = table[fd] /\ fd # stack[2].client
        BY <1>2, <1>3, <2>1, ClosingIs
      <3> QED
        BY <1>1, <1>3, <2>1, <2>2, <3>1, TurnsAway
    <2>4. WritersInv'
      BY <1>1, <1>6, <2>2 DEF WritersInv
    <2> QED
      BY <2>2, <2>3, <2>4 DEF AInv
  <1> QED
    BY <1>7, <1>8

\* A response the program has kept answers its own request, or is an error.
LEMMA RepondreAnswers ==
    ASSUME ~KeptAfterFailure, AInv, IInv', Repondre
    PROVE  AInv'
PROOF
  <1>1. UNCHANGED <<stack, table, conns, canal, server>>
    BY DEF Repondre, canalVars
  <1>2. IInv /\ Same(stack, stack')
    BY <1>1, SameStack DEF AInv
  <1>3. PICK by \in DOMAIN writers :
          /\ ~server.failed
          /\ IF writers[by].sent
             THEN UNCHANGED <<writers, answers>>
             ELSE \E sent \in SendOutcomes(writers[by].fd) :
                     /\ answers' = IF sent THEN Answered(writers[by].fd, by) ELSE answers
                     /\ writers' = [writers EXCEPT ![by].sent = sent]
    BY DEF Repondre
  <1>4. CASE UNCHANGED <<writers, answers>>
    <2>1. Still
      BY <1>1, <1>2, <1>4, StillUnchanged
    <2> QED
      BY <1>1, <1>2, <2>1, StillSame
  <1>5. CASE ~writers[by].sent
    <2>1. Listens(stack) /\ stack[2].at \in Serving /\ stack[2].writer = by
      BY <1>3, <1>5 DEF AInv, WritersInv
    <2>2. Current(stack[2]) /\ stack[2].client \in Fds \cup {None}
      BY <1>2, <2>1, AboutIs DEF AInv, CurrentInv
    <2>3. writers[by].fd = stack[2].client
      BY <2>1, <2>2 DEF Current
    <2>4. PICK sent \in SendOutcomes(stack[2].client) :
             /\ answers' = IF sent THEN Answered(stack[2].client, by) ELSE answers
             /\ writers' = [writers EXCEPT ![by].sent = sent]
      BY <1>3, <1>5, <2>3
    <2>5. sent \in BOOLEAN
      BY <1>2, <2>2, Sends
    <2>6. CASE sent
      <3>1. answers' = Answered(stack[2].client, by) /\ writers' = [writers EXCEPT ![by].sent = TRUE]
        BY <2>4, <2>5, <2>6
      <3>2. Listens(stack') /\ stack'[2] = stack[2] /\ Locals(stack[2], stack'[2])
        BY <1>1, <1>2, <2>1, AboutIs DEF Locals
      <3> QED
        BY <1>1, <1>5, <2>1, <3>1, <3>2, AnsweredHere
    <2>7. CASE ~sent
      <3>1. writers \in Seq(Writers) /\ by \in 1 .. Len(writers)
        BY <1>2, ServerTypes
      <3>2. writers[by] \in Writers
        BY <3>1, ElementOfSeq
      <3>3. writers[by].sent = sent
        BY <1>5, <2>5, <2>7, <3>2 DEF Writers
      <3>4. [writers[by] EXCEPT !.sent = sent] = writers[by]
        BY <3>2, <3>3 DEF Writers
      <3>5. writers' = [writers EXCEPT ![by] = writers[by]]
        BY <2>4, <3>4
      <3>6. writers' = writers
        BY <3>1, <3>5
      <3> QED
        BY <1>4, <2>4, <2>7, <3>6
    <2> QED
      BY <2>5, <2>6, <2>7
  <1> QED
    BY <1>3, <1>4, <1>5

\* Every step keeps each request answered at most once, when no response is
\* kept after écouter has failed.
LEMMA NextAnswers ==
    ASSUME ~KeptAfterFailure, AInv, [Next]_netVars
    PROVE  AInv'
PROOF
  <1>1. IInv'
    BY NextKeeps DEF AInv
  <1>2. CASE (ThreadSteps \/ Fail) /\ UNCHANGED <<canalVars, protocol, serverVars>>
    BY <1>1, <1>2, ThreadAnswers
  <1>3. CASE CanalOnly /\ UNCHANGED <<protocol, serverVars>>
    BY <1>1, <1>3, CanalAnswers
  <1>4. CASE ServerCalls \/ ServerReceives \/ ServerSteps \/ DropClient
    BY <1>1, <1>4, CallsAnswer, MovesAnswer, AfterLoopAnswers, AcceptAnswers, EcouterAnswers, LeavesAnswer,
       RoutedAnswers, RefusedAnswers, NotFoundAnswers, AnswerAnswers, RepondreAnswers
    DEF ServerCalls, ServerReceives, ServerSteps
  <1>5. CASE UNCHANGED netVars
    <2>1. UNCHANGED <<stack, table, conns, canal, server, writers, answers>>
      BY <1>5 DEF netVars
    <2>2. Still /\ Same(stack, stack')
      BY <2>1, StillUnchanged, SameStack DEF AInv
    <2> QED
      BY <1>1, <2>1, <2>2, StillSame
  <1> QED
    BY <1>2, <1>3, <1>4, <1>5 DEF Next

\* Nobody has answered at the beginning.
LEMMA InitAnswers ==
    ASSUME Init
    PROVE  AInv
PROOF
  <1>1. IInv
    BY InitKeeps
  <1>2. stack = <<Program>> /\ writers = <<>> /\ answers = [c \in 1 .. conns |-> <<>>]
    BY DEF Init, SocketsInit
  <1>3. ~Listens(stack)
    <2>1. Len(stack) = 1
      BY <1>2
    <2> QED
      BY <2>1 DEF Listens
  <1>4. WritersInv
    <2>1. DOMAIN writers = {}
      BY <1>2
    <2> QED
      BY <2>1 DEF WritersInv
  <1>5. AnswersInv
    <2>1. \A c \in 1 .. conns : answers[c] = <<>>
      BY <1>2
    <2>2. Len(<<>>) <= 1 /\ DOMAIN <<>> = {}
      OBVIOUS
    <2> QED
      BY <2>1, <2>2, Zenon DEF AnswersInv
  <1> QED
    BY <1>1, <1>3, <1>4, <1>5 DEF AInv, CurrentInv

\* send_http_response, run_chain, écouter: where no response is used that was kept
\* from before écouter failed, a connection gets one response, from the writer made
\* for it or from none, and when écouter accepts again every client it has taken
\* has been answered and closed.
THEOREM OneAnswerEach == ~KeptAfterFailure => (Spec => []AnsweredOnce)
PROOF
  <1> SUFFICES ASSUME ~KeptAfterFailure
               PROVE  Spec => []AnsweredOnce
    OBVIOUS
  <1>1. Init => AInv
    BY InitAnswers
  <1>2. AInv /\ [Next]_netVars => AInv'
    BY NextAnswers
  <1>3. AInv => AnsweredOnce
    <2> SUFFICES ASSUME AInv
                 PROVE  AnsweredOnce
      OBVIOUS
    <2>1. \A c \in 1 .. conns :
             /\ Len(answers[c]) <= 1
             /\ \A k \in DOMAIN answers[c] : answers[c][k] # 0 => writers[answers[c][k]].conn = c
      BY DEF AInv, AnswersInv
    <2>2. ASSUME At("listen", "accept"), NEW c \in Top.taken
          PROVE  Len(answers[c]) = 1 /\ \A fd \in Fds : table[fd] # c
      <3>1. IInv /\ stack # <<>> /\ Top.kind = "listen" /\ Top.at = "accept"
        BY <2>2 DEF AInv, At
      <3>2. Listens(stack) /\ stack[2] = Top /\ Top.client = None
        BY <3>1, TopFields, Served DEF Serving
      <3>3. TakenBefore(Top) /\ About(Top) = 0
        BY <3>1, <3>2, AboutIs DEF AInv, CurrentInv
      <3>4. c \in 1 .. conns /\ (c # 0 => Len(answers[c]) = 1) /\ \A fd \in Fds : table[fd] = c => fd = None
        BY <2>2, <3>1, <3>2, <3>3 DEF TakenBefore
      <3>5. None \notin Fds /\ conns \in Nat
        BY <3>1, ServerTypes DEF Fds, None
      <3> QED
        BY <3>4, <3>5
    <2> QED
      BY <2>1, <2>2 DEF AnsweredOnce
  <1> QED
    BY <1>1, <1>2, <1>3, PTL DEF Spec
=============================================================================
