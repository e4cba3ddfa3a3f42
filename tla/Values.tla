---- MODULE Values ----
(***************************************************************************)
(* The values of a run, the types it checks them against, and the contract *)
(* that a collection records once it has been checked (runtime/value.cpp,  *)
(* runtime_type.hpp, collection_constraints.hpp).  A collection is an      *)
(* object of the heap, a sequence of records; a value is a scalar or the   *)
(* address of one.  The text of a type is the tree that parse_runtime_type *)
(* reads from it, so that two texts are the same when two trees are.       *)
(***************************************************************************)
EXTENDS Numerics, Sequences
LOCAL INSTANCE SequencesExt

Scalar(t, n) == [t |-> t, n |-> n]
Rien == Scalar("Rien", 0)
Logique(b) == Scalar("Logique", IF b THEN 1 ELSE 0)
At(a) == Scalar("ref", a)
\* A Texte is the number of its characters, which are all the same; a Décimal is the integer that
\* it is worth, or this one, which no arithmetic gives.
NonNombre == Scalar("Decimal", 2 * MaxEntier)

\* An object: what it is, the keys of a Dictionnaire, its elements, and its contract: nothing yet,
\* the type of its elements, or those of its keys and of its values.  A Résultat has one element.
Object(kind, keys, items) == [kind |-> kind, keys |-> keys, items |-> items, contract |-> <<>>]
Resultats == {"Succes", "Echec"}
KindOf(heap, v) == IF v.t = "ref" THEN heap[v.n].kind ELSE v.t
Is(heap, v, kind) == v.t = "ref" /\ heap[v.n].kind = kind

\* Value::operator==.  A ListeFixe and a Résultat are values; the other collections are handles.
RECURSIVE Equal(_, _, _)
\* Mutant: two lists are compared by their elements too.
EqualByElements(heap, v, w) ==
    IF v.t = "ref" /\ w.t = "ref"
    THEN LET a == heap[v.n]
             b == heap[w.n]
         IN v = w \/ (/\ a.kind = b.kind
                      /\ a.kind \notin {"Dictionnaire", "Ensemble"}
                      /\ Len(a.items) = Len(b.items)
                      /\ \A i \in DOMAIN a.items : a.items[i] = b.items[i])
    ELSE v = w /\ v # NonNombre
Equal(heap, v, w) ==
    IF v.t = "ref" /\ w.t = "ref" /\ KindOf(heap, v) = KindOf(heap, w) /\ KindOf(heap, v) \in Resultats \cup {"ListeFixe"}
    THEN LET a == heap[v.n].items
             b == heap[w.n].items
         IN \/ v = w /\ Is(heap, v, "ListeFixe")
            \/ Len(a) = Len(b) /\ \A i \in DOMAIN a : Equal(heap, a[i], b[i])
    ELSE v = w /\ v # NonNombre

\* Where a sequence holds a value equal to v; 0 if it does not.
Position(heap, values, v) == SelectInSeq(values, LAMBDA w : Equal(heap, w, v))
\* dictionary_key_rejection.
MayBeAKey(v) == v # NonNombre

-----------------------------------------------------------------------------
(* Types.                                                                   *)
TypeOf(kind, args, length) == [kind |-> kind, args |-> args, length |-> length]
Named(kind) == TypeOf(kind, <<>>, 0)
Universel == Named("Universel")
Generic(kind, arg) == TypeOf(kind, <<arg>>, 0)
Fixed(arg, length) == TypeOf("ListeFixe", <<arg>>, length)
Dict(key, value) == TypeOf("Dictionnaire", <<key, value>>, 0)
Or(a, b) == TypeOf("Union", <<a, b>>, 0)
Scalars == {"Entier", "Decimal", "Logique", "Texte", "Rien", "Universel"}

MatchesShape(v, shape) ==
    \/ shape = "Universel"
    \/ v.t = shape
    \/ shape = "Decimal" /\ v.t = "Entier"

\* The elements of an object, each with the type of `args` that it is held to, in the order of the
\* walk: a key of a Dictionnaire comes before its value.
Held(o, args) ==
    IF o.kind = "Dictionnaire"
    THEN [i \in 1..(2 * Len(o.keys)) |->
            IF i % 2 = 1 THEN [v |-> o.keys[(i + 1) \div 2], type |-> args[1]]
            ELSE [v |-> o.items[i \div 2], type |-> args[2]]]
    ELSE [i \in DOMAIN o.items |-> [v |-> o.items[i], type |-> args[1]]]
LengthIs(o, type) == o.kind = "ListeFixe" => Len(o.items) = type.length

\* matches: a collection whose contract is the type asked about is not looked at again.
RECURSIVE Matches(_, _, _)
Matches(heap, v, type) ==
    CASE type.kind \in Scalars -> MatchesShape(v, type.kind)
      [] type.kind = "Union" -> Matches(heap, v, type.args[1]) \/ Matches(heap, v, type.args[2])
      [] type.kind = "Resultat" ->
            /\ KindOf(heap, v) \in Resultats
            /\ type.args = <<>> \/ Matches(heap, heap[v.n].items[1], type.args[IF Is(heap, v, "Succes") THEN 1 ELSE 2])
      [] OTHER ->
            /\ Is(heap, v, type.kind)
            /\ type.args = <<>> \/ LET o == heap[v.n] IN
                   /\ LengthIs(o, type)
                   /\ o.contract = type.args \/ \A h \in Range(Held(o, type.args)) : Matches(heap, h.v, h.type)

\* merge_collection_constraint: Universel gives way to any other type, and nothing else does.
Agree(requested, existing) == requested = existing \/ Universel \in {requested, existing}
CanMerge(requested, existing) ==
    existing = <<>> \/ \A i \in DOMAIN requested : Agree(requested[i], existing[i])
\* Mutant: what is requested now is what is recorded.
MergeWhatIsAsked(requested, existing) == requested
Merge(requested, existing) ==
    IF existing = <<>> THEN requested
    ELSE [i \in DOMAIN requested |-> IF requested[i] = Universel THEN existing[i] ELSE requested[i]]

\* annotate: the contract goes to the collection, then to each of its elements, until one refuses
\* it; what was annotated before that stays so.
RECURSIVE Annotate(_, _, _), AnnotateEach(_, _)
\* Mutant: the elements are not told.
AnnotateTheOuter(heap, v, type) ==
    IF v.t # "ref" \/ type.args = <<>> \/ ~Is(heap, v, type.kind) THEN [ok |-> TRUE, heap |-> heap]
    ELSE IF ~CanMerge(type.args, heap[v.n].contract) THEN [ok |-> FALSE, heap |-> heap]
    ELSE [ok |-> TRUE, heap |-> [heap EXCEPT ![v.n].contract = Merge(type.args, @)]]
Annotate(heap, v, type) ==
    IF v.t # "ref" \/ (type.kind # "Union" /\ type.args = <<>>) THEN [ok |-> TRUE, heap |-> heap]
    ELSE LET o == heap[v.n] IN
    CASE type.kind = "Union" -> Annotate(heap, v, type.args[IF Matches(heap, v, type.args[1]) THEN 1 ELSE 2])
      [] type.kind = "Resultat" /\ o.kind \in Resultats ->
            Annotate(heap, o.items[1], type.args[IF o.kind = "Succes" THEN 1 ELSE 2])
      [] type.kind = o.kind /\ o.contract # type.args ->
            IF ~CanMerge(type.args, o.contract) THEN [ok |-> FALSE, heap |-> heap]
            ELSE AnnotateEach([heap EXCEPT ![v.n].contract = Merge(type.args, @)], Held(o, type.args))
      [] OTHER -> [ok |-> TRUE, heap |-> heap]
AnnotateEach(heap, held) ==
    IF held = <<>> THEN [ok |-> TRUE, heap |-> heap]
    ELSE LET first == Annotate(heap, Head(held).v, Head(held).type) IN
         IF first.ok THEN AnnotateEach(first.heap, Tail(held)) ELSE first

-----------------------------------------------------------------------------
(* What the runtime is to keep.                                             *)

\* Whether a value is of a type by what it holds, whatever is recorded.
RECURSIVE Inhabits(_, _, _)
Inhabits(heap, v, type) ==
    CASE type.kind \in Scalars -> MatchesShape(v, type.kind)
      [] type.kind = "Union" -> Inhabits(heap, v, type.args[1]) \/ Inhabits(heap, v, type.args[2])
      [] type.kind = "Resultat" ->
            /\ KindOf(heap, v) \in Resultats
            /\ type.args = <<>> \/ Inhabits(heap, heap[v.n].items[1], type.args[IF Is(heap, v, "Succes") THEN 1 ELSE 2])
      [] OTHER ->
            /\ Is(heap, v, type.kind)
            /\ type.args = <<>> \/ /\ LengthIs(heap[v.n], type)
                                   /\ \A h \in Range(Held(heap[v.n], type.args)) : Inhabits(heap, h.v, h.type)
\* The elements of a collection are of the types of its contract.
Honoured(heap, a) ==
    heap[a].contract # <<>> => \A h \in Range(Held(heap[a], heap[a].contract)) : Inhabits(heap, h.v, h.type)
\* A contract says at least what another did.
AtLeast(contract, before) ==
    \/ before = <<>>
    \/ Len(contract) = Len(before) /\ \A i \in DOMAIN before : before[i] \in {Universel, contract[i]}
====
