---- MODULE Collections ----
(***************************************************************************)
(* A program that builds collections, shares them, declares their types    *)
(* and changes them, through the members of runtime/members.cpp, the       *)
(* module Collections (stdlib/collections.cpp) and the index.  The heap is *)
(* all its state.  Every value is one that the analysis took for           *)
(* Universel, so that the runtime alone holds it to a type.                *)
(***************************************************************************)
EXTENDS Engines
LOCAL INSTANCE SequencesExt
LOCAL INSTANCE FiniteSetsExt
LOCAL INSTANCE Functions

CONSTANTS MaxObjects, MaxItems,   \* collections of a heap, and elements given to one
          MaxCalls                \* operations of a program, after its literals

VARIABLES heap,
          calls,
          broken    \* whether a type was refused half way, or a set joined with one of another contract
vars == <<heap, calls, broken>>

-----------------------------------------------------------------------------
(* members.cpp.  `a` is the receiver, an address.                           *)

\* A value that enters a collection, and a collection made from one, under its contract.
Enter(h, a, v) == IF h[a].contract = <<>> THEN Did(h, v) ELSE VmEnsure(h, v, h[a].contract[1])
Derived(h, a, o, type) ==
    LET made == NewObject(h, o) IN
    IF h[a].contract = <<>> THEN made ELSE Annotated(made.heap, made.v, type)
Element(h, a) == h[a].contract[1]
Grown(e, a, items) == IF e.ok THEN Did([e.heap EXCEPT ![a].items = items], EntierOf(Len(items))) ELSE e

ListeAjouter(h, a, v) == Grown(Enter(h, a, v), a, Append(h[a].items, v))
ListeInserer(h, a, n, v) ==
    IF n \notin 0..Len(h[a].items) THEN Failed(h) ELSE Grown(Enter(h, a, v), a, InsertAt(h[a].items, n + 1, v))
ListeRetirerA(h, a, n) ==
    IF ~Inside(h[a], n) THEN Failed(h) ELSE Did([h EXCEPT ![a].items = RemoveAt(@, n + 1)], h[a].items[n + 1])
ListeEnEnsemble(h, a) ==
    IF \E v \in Range(h[a].items) : ~MayBeAKey(v) THEN Failed(h)
    ELSE Derived(h, a, FoldLeft(LAMBDA o, v : Insert(h, o, v), Object("Ensemble", <<>>, <<>>), h[a].items),
                 Generic("Ensemble", Element(h, a)))
ListeEnListeFixe(h, a, n) ==
    IF n # Len(h[a].items) THEN Failed(h)
    ELSE Derived(h, a, Object("ListeFixe", <<>>, h[a].items), Fixed(Element(h, a), n))
EnListe(h, a) == Derived(h, a, Object("Liste", <<>>, h[a].items), Generic("Liste", Element(h, a)))

EnsembleAjouter(h, a, v) ==
    With(Enter(h, a, v), LAMBDA e :
        IF ~e.ok THEN e
        ELSE IF ~MayBeAKey(v) THEN Failed(e.heap)
        ELSE Did([e.heap EXCEPT ![a] = Insert(h, @, v)], Logique(Position(h, h[a].items, v) = 0)))
EnsembleRetirer(h, a, v) ==
    LET p == Position(h, h[a].items, v) IN
    Did(IF p = 0 THEN h ELSE [h EXCEPT ![a].items = RemoveAt(@, p)], Logique(p # 0))
DerivedSet(h, a, items) ==
    Derived(h, a, FoldLeft(LAMBDA o, v : Insert(h, o, v), Object("Ensemble", <<>>, <<>>), items),
            Generic("Ensemble", Element(h, a)))
EnsembleUnion(h, a, b) == DerivedSet(h, a, h[a].items \o h[b].items)
EnsembleRetenir(h, a, b, keepPresent) ==
    DerivedSet(h, a, SelectSeq(h[a].items, LAMBDA v : (Position(h, h[b].items, v) # 0) = keepPresent))
SousEnsembleDe(h, a, b) == Did(h, Logique(\A v \in Range(h[a].items) : Position(h, h[b].items, v) # 0))
Contient(h, a, v) ==
    Did(h, Logique(Position(h, IF h[a].kind = "Dictionnaire" THEN h[a].keys ELSE h[a].items, v) # 0))

DictionnaireMoitie(h, a, keys) ==
    Derived(h, a, Object("Liste", <<>>, IF keys THEN h[a].keys ELSE h[a].items),
            Generic("Liste", h[a].contract[IF keys THEN 1 ELSE 2]))
\* Every pair is annotated as it is made, then the list of them.
DictionnairePaires(h, a) ==
    LET types == h[a].contract
        pair  == Fixed(IF types[1] = types[2] THEN types[1] ELSE Universel, 2)
        AddPair(s, i) ==
            IF s.ok
            THEN With(Derived(s.heap, a, Object("ListeFixe", <<>>, <<h[a].keys[i], h[a].items[i]>>), pair),
                      LAMBDA p : [p EXCEPT !.items = Append(s.items, p.v)])
            ELSE s
    IN With(FoldLeft(AddPair, Seen(h, <<>>), [i \in DOMAIN h[a].keys |-> i]), LAMBDA pairs :
            IF pairs.ok THEN Derived(pairs.heap, a, Object("Liste", <<>>, pairs.items), Generic("Liste", pair)) ELSE pairs)
DictionnaireRetirer(h, a, k) ==
    LET p == Position(h, h[a].keys, k) IN
    IF p = 0 THEN Failed(h)
    ELSE Did([h EXCEPT ![a].keys = RemoveAt(@, p), ![a].items = RemoveAt(@, p)], h[a].items[p])

-----------------------------------------------------------------------------
(* stdlib/collections.cpp.  A callback is one of three functions of the     *)
(* program: it answers its argument, says whether that is an Entier, or     *)
(* adds it to the very collection that is walked.                           *)
Callbacks == {"identite", "est_entier", "ajoute"}
Call(h, f, v, a) ==
    CASE f = "identite" -> Did(h, v)
      [] f = "est_entier" -> Did(h, Logique(v.t = "Entier"))
      [] OTHER ->
            With(IF h[a].kind = "Liste" THEN ListeAjouter(h, a, v)
                 ELSE IF h[a].kind = "Ensemble" THEN EnsembleAjouter(h, a, v) ELSE Failed(h),
                 LAMBDA added : [added EXCEPT !.v = Logique(TRUE)])
MakeList(h, items) ==
    LET made == NewObject(h, Object("Liste", <<>>, items)) IN Annotated(made.heap, made.v, Generic("Liste", Universel))

Answers(h, f, a, Stops(_)) ==
    FoldLeft(LAMBDA s, v :
                 IF ~s.ok \/ \E w \in Range(s.items) : Stops(w) THEN s
                 ELSE With(Call(s.heap, f, v, a), LAMBDA c : [c EXCEPT !.items = Append(s.items, c.v)]),
             Seen(h, <<>>), VmIterate(h, At(a)).items)
\* call_predicate: an answer that is no Logique is an error.
Predicate(h, f, a, Stops(_)) ==
    With(Answers(h, f, a, Stops), LAMBDA s :
        IF s.ok /\ (\A v \in Range(s.items) : v.t = "Logique") THEN s ELSE Failed(s.heap))
Transformer(h, a, f) ==
    With(Answers(h, f, a, LAMBDA v : FALSE), LAMBDA s : IF s.ok THEN MakeList(s.heap, s.items) ELSE s)
Filtrer(h, a, f) ==
    With(Predicate(h, f, a, LAMBDA v : v.t # "Logique"), LAMBDA s :
        LET kept == SelectSeq([i \in DOMAIN s.items |-> i], LAMBDA i : s.items[i] = Logique(TRUE)) IN
        IF s.ok THEN MakeList(s.heap, [i \in DOMAIN kept |-> VmIterate(h, At(a)).items[kept[i]]]) ELSE s)
\* position, trouver and au_moins_un stop at the first element that the predicate is true of.
First(h, a, f, op) ==
    With(Predicate(h, f, a, LAMBDA v : v # Logique(FALSE)), LAMBDA s :
        LET p == SelectInSeq(s.items, LAMBDA v : v = Logique(TRUE)) IN
        IF ~s.ok THEN s
        ELSE Did(s.heap, CASE op = "au_moins_un" -> Logique(p # 0)
                           [] op # "au_moins_un" /\ p = 0 -> Rien
                           [] op = "position" /\ p # 0 -> EntierOf(p - 1)
                           [] OTHER -> VmIterate(h, At(a)).items[p]))
Tout(h, a, f) ==
    With(Predicate(h, f, a, LAMBDA v : v # Logique(TRUE)), LAMBDA s :
        IF s.ok THEN Did(s.heap, Logique(Logique(FALSE) \notin Range(s.items))) ELSE s)
\* The callback of a reduction answers what it was given last, or adds the element to the collection.
Reduire(h, a, f, v) ==
    FoldLeft(LAMBDA s, w : IF s.ok THEN Call(s.heap, f, w, a) ELSE s, Did(h, v), VmIterate(h, At(a)).items)

\* sort_category and sort_less.
SortCategory(v) ==
    CASE IsNumeric(v) /\ v # NonNombre -> "Numeric" [] v.t \in {"Texte", "Symbole"} -> v.t [] OTHER -> "none"
SortLess(v, w) == IF AreEntiers(v, w) THEN v.n < w.n ELSE Double(v).n < Double(w).n
Sortable(values) ==
    \A i \in DOMAIN values : SortCategory(values[i]) # "none" /\ SortCategory(values[i]) = SortCategory(values[1])
\* std::stable_sort of a few elements that sort_less orders: each goes back past those that it is
\* less than.  These are the places of the values, in order.
\* Mutant: it goes back past its equals too.
SortedPastEquals(values) ==
    LET Place(s, i) == LET p == SelectLastInSeq(s, LAMBDA j : SortLess(values[j], values[i])) IN InsertAt(s, p + 1, i)
    IN FoldLeft(Place, <<>>, [i \in DOMAIN values |-> i])
Sorted(values) ==
    LET Place(s, i) == LET p == SelectLastInSeq(s, LAMBDA j : ~SortLess(values[i], values[j])) IN InsertAt(s, p + 1, i)
    IN FoldLeft(Place, <<>>, [i \in DOMAIN values |-> i])
InOrder(values, order) == [i \in DOMAIN order |-> values[order[i]]]
Trier(h, a) ==
    LET values == VmIterate(h, At(a)).items IN
    IF Sortable(values) THEN MakeList(h, InOrder(values, Sorted(values))) ELSE Failed(h)
TrierPar(h, a, f) ==
    With(Answers(h, f, a, LAMBDA v : FALSE), LAMBDA s :
        IF ~s.ok \/ ~Sortable(s.items) THEN Failed(s.heap)
        ELSE MakeList(s.heap, InOrder(VmIterate(h, At(a)).items, Sorted(s.items))))
\* The next number is computed even where it is not needed.
RECURSIVE Etendue(_, _, _)
Etendue(start, stop, step) ==
    LET next == Add(start, step)
        rest == Etendue(next.n, stop, step)
    IN IF step = 0 THEN [ok |-> FALSE, items |-> <<>>]
       ELSE IF IF step > 0 THEN start >= stop ELSE start <= stop THEN [ok |-> TRUE, items |-> <<>>]
       ELSE IF ~next.some THEN [ok |-> FALSE, items |-> <<start>>]
       ELSE [rest EXCEPT !.items = <<start>> \o @]
Inverser(h, a) == MakeList(h, Reverse(VmIterate(h, At(a)).items))

-----------------------------------------------------------------------------
(* What a program may ask of a heap, and what each engine answers.          *)
Constants == {EntierOf(1), Scalar("Texte", 1)}
ValuesOf(h) == Constants \cup {At(a) : a \in DOMAIN h}
Of(h, kinds) == {a \in DOMAIN h : h[a].kind \in kinds}
Types ==
    LET entier == Named("Entier")
        liste  == Generic("Liste", entier)
    IN {entier, liste, Generic("Liste", Universel), Generic("Liste", liste),
        Or(liste, Generic("Liste", Named("Texte"))), Generic("Ensemble", entier),
        Fixed(liste, 1), Dict(liste, entier), Dict(Universel, liste), TypeOf("Resultat", <<liste, entier>>, 0)}

Request(op, a, x, y) == [op |-> op, a |-> a, x |-> x, y |-> y]
MemberRequests(h) ==
    LET growing == {a \in Of(h, {"Liste", "Ensemble"}) : Len(h[a].items) < MaxItems}
        lists   == Of(h, {"Liste"})
        sets    == Of(h, {"Ensemble"})
        dicts   == Of(h, {"Dictionnaire"})
        pairs   == {a \in dicts : Len(h) + Len(h[a].keys) < MaxObjects}
        room    == Len(h) < MaxObjects
    IN {Request("ajouter", a, v, Rien) : a \in growing, v \in ValuesOf(h)}
       \cup {Request("inserer", a, EntierOf(n), v) : a \in growing \cap lists, n \in {0, 2}, v \in ValuesOf(h)}
       \cup {Request("retirer_a", a, EntierOf(0), Rien) : a \in lists}
       \cup {Request("retirer", a, v, Rien) : a \in sets \cup dicts, v \in ValuesOf(h)}
       \cup {Request("contient", a, v, Rien) : a \in DOMAIN h, v \in ValuesOf(h)}
       \cup (IF ~room THEN {} ELSE
             {Request("en_ensemble", a, Rien, Rien) : a \in lists}
             \cup {Request("en_liste_fixe", a, EntierOf(n), Rien) : a \in lists, n \in 0..2}
             \cup {Request("en_liste", a, Rien, Rien) : a \in sets \cup Of(h, {"ListeFixe"})}
             \cup {Request(op, a, At(b), Rien) : op \in {"union", "intersection", "difference", "sous_ensemble_de"}, a \in sets, b \in sets}
             \cup {Request(op, a, Rien, Rien) : op \in {"cles", "valeurs"}, a \in dicts})
       \cup {Request("paires", a, Rien, Rien) : a \in pairs}
Member(h, r) ==
    CASE r.op = "ajouter" -> IF h[r.a].kind = "Liste" THEN ListeAjouter(h, r.a, r.x) ELSE EnsembleAjouter(h, r.a, r.x)
      [] r.op = "inserer" -> ListeInserer(h, r.a, r.x.n, r.y)
      [] r.op = "retirer_a" -> ListeRetirerA(h, r.a, r.x.n)
      [] r.op = "retirer" -> IF h[r.a].kind = "Ensemble" THEN EnsembleRetirer(h, r.a, r.x) ELSE DictionnaireRetirer(h, r.a, r.x)
      [] r.op = "contient" -> Contient(h, r.a, r.x)
      [] r.op = "en_ensemble" -> ListeEnEnsemble(h, r.a)
      [] r.op = "en_liste_fixe" -> ListeEnListeFixe(h, r.a, r.x.n)
      [] r.op = "en_liste" -> EnListe(h, r.a)
      [] r.op = "union" -> EnsembleUnion(h, r.a, r.x.n)
      [] r.op = "intersection" -> EnsembleRetenir(h, r.a, r.x.n, TRUE)
      [] r.op = "difference" -> EnsembleRetenir(h, r.a, r.x.n, FALSE)
      [] r.op = "sous_ensemble_de" -> SousEnsembleDe(h, r.a, r.x.n)
      [] r.op = "cles" -> DictionnaireMoitie(h, r.a, TRUE)
      [] r.op = "valeurs" -> DictionnaireMoitie(h, r.a, FALSE)
      [] r.op = "paires" -> DictionnairePaires(h, r.a)

Calling == {"transformer", "filtrer", "position", "trouver", "au_moins_un", "tout", "reduire", "trier_par"}
LibraryRequests(h) ==
    IF Len(h) = MaxObjects THEN {}
    ELSE {Request(op, a, Scalar(f, 0), Rien) : op \in Calling, f \in Callbacks, a \in DOMAIN h}
         \cup {Request(op, a, Rien, Rien) : op \in {"inverser", "trier"}, a \in DOMAIN h}
Library(h, r) ==
    CASE h[r.a].kind \in Resultats -> Failed(h)
      [] r.op = "transformer" -> Transformer(h, r.a, r.x.t)
      [] r.op = "filtrer" -> Filtrer(h, r.a, r.x.t)
      [] r.op \in {"position", "trouver", "au_moins_un"} -> First(h, r.a, r.x.t, r.op)
      [] r.op = "tout" -> Tout(h, r.a, r.x.t)
      [] r.op = "reduire" -> Reduire(h, r.a, r.x.t, Rien)
      [] r.op = "trier" -> Trier(h, r.a)
      [] r.op = "trier_par" -> TrierPar(h, r.a, r.x.t)
      [] r.op = "inverser" -> Inverser(h, r.a)

Indices(h, a) == IF h[a].kind = "Dictionnaire" THEN ValuesOf(h) \cup {NonNombre} ELSE Constants \cup {EntierOf(0)}
EngineRequests(h) ==
    {Request("declarer", 0, v, type) : v \in {At(a) : a \in DOMAIN h}, type \in Types}
    \cup UNION {{Request("lire", a, i, Rien) : i \in Indices(h, a)} : a \in DOMAIN h}
    \cup UNION {{Request("ecrire", a, i, v) : i \in Indices(h, a), v \in ValuesOf(h)} : a \in {b \in DOMAIN h : Len(h[b].keys) < MaxItems}}
    \cup {Request("parcourir", 0, v, Rien) : v \in ValuesOf(h)}
Vm(h, r) ==
    CASE r.op = "declarer" -> VmEnsure(h, r.x, r.y)
      [] r.op = "lire" -> VmIndexGet(h, At(r.a), r.x)
      [] r.op = "ecrire" -> VmIndexSet(h, At(r.a), r.x, r.y)
      [] r.op = "parcourir" -> VmIterate(h, r.x)
Tw(h, r) ==
    CASE r.op = "declarer" -> TwEnsure(h, r.x, r.y)
      [] r.op = "lire" -> TwIndexGet(h, At(r.a), r.x)
      [] r.op = "ecrire" -> TwIndexSet(h, At(r.a), r.x, r.y)
      [] r.op = "parcourir" -> TwIterate(h, r.x)

-----------------------------------------------------------------------------
(* A program: it writes its literals, then operates on them.                *)
Shapes(h) ==
    LET v == Constants \cup {At(a) : a \in DOMAIN h} IN
    {<<kind, <<>>, items>> : kind \in {"Liste", "Ensemble"}, items \in {<<>>} \cup {<<x>> : x \in v}}
    \cup {<<"Liste", <<>>, <<At(a), At(b)>>>> : a \in DOMAIN h, b \in DOMAIN h}
    \cup {<<kind, <<>>, <<x>>>> : kind \in {"ListeFixe", "Succes", "Echec"}, x \in {At(a) : a \in DOMAIN h}}
    \cup {<<"Dictionnaire", <<>>, <<>>>>}
    \cup {<<"Dictionnaire", <<k>>, <<x>>>> : k \in {At(a) : a \in DOMAIN h}, x \in v}
Init == heap = <<>> /\ calls = 0 /\ broken = FALSE
Write ==
    /\ calls = 0 /\ Len(heap) < MaxObjects - 1
    /\ \E s \in Shapes(heap) : heap' = Literal(heap, s[1], s[2], s[3]).heap
    /\ UNCHANGED <<calls, broken>>

\* What an operation leaves behind it.
Left(outcome) ==
    /\ heap' = outcome.heap
    /\ calls' = IF outcome.heap = heap THEN calls ELSE calls + 1
    /\ broken' = (broken \/ (~outcome.ok /\ outcome.heap # heap))
Declare == calls < MaxCalls /\ \E v \in {At(a) : a \in DOMAIN heap}, type \in Types : Left(VmEnsure(heap, v, type))
UseIndex == calls < MaxCalls /\ \E r \in EngineRequests(heap) : r.op = "ecrire" /\ Left(Vm(heap, r))
CallMember == calls < MaxCalls /\ \E r \in MemberRequests(heap) : r.op # "union" /\ Left(Member(heap, r))
Join ==
    /\ calls < MaxCalls
    /\ \E r \in MemberRequests(heap) : \E joined \in {Member(heap, r)} :
           /\ r.op = "union"
           /\ heap' = joined.heap
           /\ calls' = IF joined.heap = heap THEN calls ELSE calls + 1
           /\ broken' = (\/ broken \/ (~joined.ok /\ joined.heap # heap)
                         \/ heap[r.a].contract # <<>> /\ heap[r.x.n].contract # heap[r.a].contract)
CallLibrary == calls < MaxCalls /\ \E r \in LibraryRequests(heap) : Left(Library(heap, r))
Next == Write \/ Declare \/ UseIndex \/ CallMember \/ Join \/ CallLibrary
Spec == Init /\ [][Next]_vars

-----------------------------------------------------------------------------
(* What the runtime keeps.                                                  *)

\* Every element of a collection is of the type that the collection records, though lists are shared,
\* nested in one another, declared one type after another and changed through any of their names
\* (same_contract in runtime_type.hpp lets a recorded type stand for the elements).  Two things
\* break that and are counted apart: a type refused half way, and the union of two sets.
ContractsHold == broken \/ \A a \in DOMAIN heap : Honoured(heap, a)
\* "A collection carries its contract, and every element it holds was checked against that contract
\* on the way in" (runtime_type.hpp:52), whatever the program did, short of an error.
ContractsAlwaysHold == \A a \in DOMAIN heap : Honoured(heap, a)

\* "Re-annotation may refine Universel, but must never erase a concrete contract"
\* (collection_constraints.hpp:25): no sequence of operations takes a type from a collection.
ContractsOnlyNarrow ==
    [][\A a \in DOMAIN heap : a \in DOMAIN heap' /\ AtLeast(heap'[a].contract, heap[a].contract)]_vars

\* No two keys of a Dictionnaire and no two elements of an Ensemble ever become equal, whatever is
\* done to the lists that they are or hold (Value::operator== and the tables of value.cpp).
KeysStayDistinct ==
    \A a \in Of(heap, {"Dictionnaire", "Ensemble"}) :
        LET keys == IF heap[a].kind = "Ensemble" THEN heap[a].items ELSE heap[a].keys IN
        \A i, j \in DOMAIN keys : i # j => ~Equal(heap, keys[i], keys[j])

\* Both engines succeed or both fail, with the same value and the same heap when they succeed:
\* the operators on every two operands, literals, the index, declarations, loops, and the arguments
\* of a call with their types and defaults (vm.cpp and ast_to_lir.cpp, tree_walker_expr.cpp and tree_walker_types.cpp).
Same(vm, tw) == vm.ok = tw.ok /\ (vm.ok => vm = tw)
Operands ==
    {EntierOf(n) : n \in {MinEntier, -1, 0, 2, 5, MaxEntier}} \cup {Scalar("Decimal", n) : n \in {0, 2, 4}}
    \cup {NonNombre, Scalar("Texte", 1), Logique(TRUE), Logique(FALSE), Rien}
Operators == Comparisons \cup {"==", "!=", "+", "-", "*", "/", "%"}
Parameters == {[name |-> x, optional |-> b] : x \in {"a", "b"}, b \in BOOLEAN}
Signatures == {<<>>} \cup {<<p>> : p \in Parameters} \cup {s \in Parameters \X Parameters : s[1].name # s[2].name}
ParameterTypes == {Generic("Liste", t) : t \in {Named("Entier"), Named("Texte"), Universel, Generic("Liste", Universel)}}
CallArguments(h) == {<<>>} \cup UNION {{<<At(a)>>, <<At(a), At(a)>>} : a \in DOMAIN h}
Unwritable == {<<"Ensemble", <<>>, <<EntierOf(1), NonNombre>>>>, <<"Dictionnaire", <<NonNombre>>, <<EntierOf(1)>>>>}
OperatorsAgree ==
    /\ \A l, r \in Operands :
           /\ \A op \in Operators : Same(VmBinary(<<>>, op, l, r), TwBinary(<<>>, op, l, r))
           /\ l.t = "Logique" /\ r.t = "Logique" =>
                  \A op \in {"et", "ou"} : Same(VmLogical(<<>>, op, l, r), TwLogical(<<>>, op, l, r))
    /\ \A v \in Operands, op \in {"non", "-"} : Same(VmUnary(<<>>, op, v), TwUnary(<<>>, op, v))
ArgumentsAgree ==
    \A params \in Signatures : \A args \in BoundedSeq({"", "a", "b"}, 3) :
        VmBind(params, args) = TwBind(params, args) /\ CompilerBind(params, args) = TwBind(params, args)
EnginesAgree ==
    /\ heap = <<>> => OperatorsAgree /\ ArgumentsAgree
    /\ calls < MaxCalls - 1 /\ ~broken =>
           \A first, second \in ParameterTypes, args \in CallArguments(heap) :
               Same(VmEnter(heap, <<first, second>>, args), TwEnter(heap, <<first, second>>, args))
    /\ calls < MaxCalls /\ ~broken =>
           /\ \A r \in EngineRequests(heap) : Same(Vm(heap, r), Tw(heap, r))
           /\ \A s \in Shapes(heap) \cup Unwritable : Same(Literal(heap, s[1], s[2], s[3]), TwLiteral(heap, s[1], s[2], s[3]))

\* The functions of Collections answer for the elements that the collection had when they were
\* called, each once and in order, even when the callback adds to it; a sort keeps what it was
\* given, in order, and equal values in the order they had ("Sorting is stable" and "mixed integers
\* and decimals compare numerically", stdlib-foundations.md:335-338); a range holds what lies before
\* its end.  Left out of the sorts: lists with a Décimal that ties with two different Entiers, of
\* which std::stable_sort promises nothing (the program leaves [9007199254740993, 9007199254740992.0,
\* 9007199254740992] as it is); lists of one type and mixed ones that the doubles tell apart are kept.
Answer(f, v) == CASE f = "identite" -> v [] f = "est_entier" -> Logique(v.t = "Entier") [] OTHER -> Logique(TRUE)
AnswersForWhatWasThere(h, r, done) ==
    LET items  == VmIterate(h, At(r.a)).items
        made   == done.heap[done.v.n].items
        yes(v) == Answer(r.x.t, v) = Logique(TRUE)
    IN done.ok =>
        CASE r.op = "transformer" -> made = [i \in DOMAIN items |-> Answer(r.x.t, items[i])]
          [] r.op = "filtrer" -> made = SelectSeq(items, yes)
          [] r.op = "position" ->
                IF done.v = Rien THEN ~\E v \in Range(items) : yes(v)
                ELSE yes(items[done.v.n + 1]) /\ \A i \in 1..done.v.n : ~yes(items[i])
          [] r.op = "au_moins_un" -> done.v = Logique(\E v \in Range(items) : yes(v))
          [] r.op = "tout" -> done.v = Logique(\A v \in Range(items) : yes(v))
          [] r.op = "reduire" /\ items # <<>> -> done.v = Answer(r.x.t, Last(items))
          [] r.op \in {"trier", "trier_par"} -> Len(made) = Len(items) /\ ToSet(made) = ToSet(items)
          [] OTHER -> TRUE
Comparable == {EntierOf(n) : n \in {1, 2, 4, 5}} \cup {Scalar("Decimal", n) : n \in {1, 4}}
Tied(v, w) == ~SortLess(v, w) /\ ~SortLess(w, v)
\* sort_less rounds an Entier to compare it with a Décimal: both 4 and 5 tie with 4.0, and 4 is less than 5.
Confused(values) ==
    \E v, w, d \in Range(values) : d.t = "Decimal" /\ Tied(v, d) /\ Tied(d, w) /\ ~Tied(v, w)
SortsAreStable ==
    \A values \in BoundedSeq(Comparable, 3) :
        LET order == Sorted(values) IN
        ~Confused(values) =>
            /\ IsInjective(order) /\ ToSet(order) = DOMAIN values
            /\ \A i, j \in DOMAIN order :
                   i < j => \/ SortLess(values[order[i]], values[order[j]])
                            \/ ~SortLess(values[order[j]], values[order[i]]) /\ order[i] < order[j]
RangesAreExact ==
    \A start, stop, step \in Entier :
        LET range == Etendue(start, stop, step)
            n     == Len(range.items)
        IN step # 0 =>
            /\ \A k \in 1..n : LET m == start + (k - 1) * step IN
                   range.items[k] = m /\ (IF step > 0 THEN m < stop ELSE m > stop)
            /\ range.ok => ~(IF step > 0 THEN start + n * step < stop ELSE start + n * step > stop)
            /\ ~range.ok => start + n * step \notin Entier
LibraryMeansWhatItSays ==
    /\ heap = <<>> => SortsAreStable /\ RangesAreExact
    /\ calls < MaxCalls => \A r \in LibraryRequests(heap) : AnswersForWhatWasThere(heap, r, Library(heap, r))
====
