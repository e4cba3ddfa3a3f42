---- MODULE Engines ----
(***************************************************************************)
(* What the virtual machine (vm.cpp, ast_to_lir.cpp) and the tree walker   *)
(* (tree_walker_*.cpp) each do with the same operands: the operators, an   *)
(* index read or written, a value checked against its declared type, what  *)
(* a loop walks over, and the arguments of a call.  Each engine has its    *)
(* own code for these, in its own order; what both call (numeric.hpp,      *)
(* members.cpp, runtime_type.hpp) is written once.                         *)
(***************************************************************************)
EXTENDS Values
LOCAL INSTANCE SequencesExt

\* What an operation gives: a value, or several, or an error; and the heap it leaves.
Outcome(ok, heap, v, items) == [ok |-> ok, heap |-> heap, v |-> v, items |-> items]
Did(heap, v) == Outcome(TRUE, heap, v, <<>>)
Seen(heap, items) == Outcome(TRUE, heap, Rien, items)
Failed(heap) == Outcome(FALSE, heap, Rien, <<>>)
\* What goes on from an outcome.
With(outcome, Continue(_)) == Continue(outcome)
EntierOf(n) == Scalar("Entier", n)
Checked(heap, n) == IF n.some THEN Did(heap, EntierOf(n.n)) ELSE Failed(heap)
NewObject(heap, o) == Did(Append(heap, o), At(Len(heap) + 1))

-----------------------------------------------------------------------------
(* Operators.  A double holds every integer up to a bound, then the even    *)
(* ones, to which the others are rounded; here the bound is 4.              *)
Mantissa == 4
ToDouble(n) == IF Abs(n) <= Mantissa \/ n % 2 = 0 THEN n ELSE 4 * ((n + 1) \div 4)
Double(v) == IF v.t = "Entier" THEN Scalar("Decimal", ToDouble(v.n)) ELSE v
IsNumeric(v) == v.t \in {"Entier", "Decimal"}
AreEntiers(l, r) == l.t = "Entier" /\ r.t = "Entier"
AreNumeric(l, r) == IsNumeric(l) /\ IsNumeric(r)
IsText(l, r) == "Texte" \in {l.t, r.t}

Comparisons == {"<", "<=", ">", ">="}
Compare(op, l, r) ==
    /\ NonNombre \notin {l, r}
    /\ CASE op = "<" -> l.n < r.n [] op = "<=" -> l.n <= r.n [] op = ">" -> l.n > r.n [] op = ">=" -> l.n >= r.n
Arithmetic(op, a, b) ==
    CASE op = "+" -> Add(a, b) [] op = "-" -> Subtract(a, b) [] op = "*" -> Multiply(a, b)
      [] op = "/" -> Divide(a, b) [] op = "%" -> Remainder(a, b)
\* The sum, and so on, of two doubles, and the text of two values one after the other: by their operands.
Computed(heap, t, l, r) == Outcome(TRUE, heap, Scalar(t, 0), <<l, r>>)

\* execute_add, execute_subtract, ..., execute_numeric_compare.
VmBinary(heap, op, l, r) ==
    CASE op = "==" -> Did(heap, Logique(Equal(heap, l, r)))
      [] op = "!=" -> Did(heap, Logique(~Equal(heap, l, r)))
      [] op \in Comparisons ->
            IF AreEntiers(l, r) THEN Did(heap, Logique(Compare(op, l, r)))
            ELSE IF AreNumeric(l, r) THEN Did(heap, Logique(Compare(op, Double(l), Double(r))))
            ELSE Failed(heap)
      [] op = "%" -> IF AreEntiers(l, r) /\ r.n # 0 THEN Checked(heap, Remainder(l.n, r.n)) ELSE Failed(heap)
      [] OTHER ->
            IF AreEntiers(l, r)
            THEN IF op = "/" /\ r.n = 0 THEN Failed(heap) ELSE Checked(heap, Arithmetic(op, l.n, r.n))
            ELSE IF AreNumeric(l, r)
            THEN IF op = "/" /\ Double(r).n = 0 THEN Failed(heap) ELSE Computed(heap, "Decimal", Double(l), Double(r))
            ELSE IF op = "+" /\ IsText(l, r) THEN Computed(heap, "Texte", l, r)
            ELSE Failed(heap)
\* TreeWalker::visit(BinaryExpr): the operands' types first, operator by operator.
TwBinary(heap, op, l, r) ==
    IF op \in {"==", "!="} THEN Did(heap, Logique(Equal(heap, l, r) <=> op = "=="))
    ELSE IF AreEntiers(l, r)
    THEN IF op \in Comparisons THEN Did(heap, Logique(Compare(op, l, r)))
         ELSE IF op \in {"/", "%"} /\ r.n = 0 THEN Failed(heap)
         ELSE Checked(heap, Arithmetic(op, l.n, r.n))
    ELSE IF AreNumeric(l, r) /\ op # "%"
    THEN IF op \in Comparisons THEN Did(heap, Logique(Compare(op, Double(l), Double(r))))
         ELSE IF op = "/" /\ Double(r).n = 0 THEN Failed(heap)
         ELSE Computed(heap, "Decimal", Double(l), Double(r))
    ELSE IF op = "+" /\ IsText(l, r) THEN Computed(heap, "Texte", l, r)
    ELSE Failed(heap)

IsTruthy(v) == v # Rien /\ v # Logique(FALSE)
\* et, ou: the compiler branches on what is true; the tree walker wants two Logique.
VmLogical(heap, op, l, r) == Did(heap, Logique(IF IsTruthy(l) = (op = "ou") THEN op = "ou" ELSE IsTruthy(r)))
TwLogical(heap, op, l, r) ==
    IF l.t # "Logique" THEN Failed(heap)
    ELSE IF l = Logique(op = "ou") THEN Did(heap, l)
    ELSE IF r.t # "Logique" THEN Failed(heap) ELSE Did(heap, r)

VmUnary(heap, op, v) ==
    IF op = "non" THEN Did(heap, Logique(~IsTruthy(v)))
    ELSE CASE v.t = "Entier" -> Checked(heap, Negate(v.n))
           [] v.t = "Decimal" -> Computed(heap, "Decimal", v, v)
           [] OTHER -> Failed(heap)
TwUnary(heap, op, v) ==
    CASE op = "-" /\ v.t = "Entier" -> Checked(heap, Negate(v.n))
      [] op = "-" /\ IsNumeric(v) -> Computed(heap, "Decimal", Double(v), Double(v))
      [] op = "non" -> Did(heap, Logique(~IsTruthy(v)))
      [] OTHER -> Failed(heap)

-----------------------------------------------------------------------------
(* A value held to a declared type, and an entry to those of its            *)
(* Dictionnaire.                                                            *)
Annotated(heap, v, type) ==
    With(Annotate(heap, v, type), LAMBDA a : IF a.ok THEN Did(a.heap, v) ELSE Failed(a.heap))
\* enforce_declared_type, execute_type_assertion, MemberCall::enforce.
VmEnsure(heap, v, type) == IF ~Matches(heap, v, type) THEN Failed(heap) ELSE Annotated(heap, v, type)
\* ensure_value_matches_annotation.
TwEnsure(heap, v, type) == IF Matches(heap, v, type) THEN Annotated(heap, v, type) ELSE Failed(heap)
\* enforce_dictionary_entry: both are looked at before either is annotated.
\* Mutant: an entry is only looked at where the dictionary holds its key already.
VmEntryWhenThere(heap, d, k, v) ==
    IF heap[d].contract = <<>> \/ Position(heap, heap[d].keys, k) = 0 THEN Did(heap, v) ELSE VmEnsure(heap, v, heap[d].contract[2])
VmEntry(heap, d, k, v) ==
    LET types == heap[d].contract IN
    IF types = <<>> THEN Did(heap, v)
    ELSE IF ~Matches(heap, k, types[1]) \/ ~Matches(heap, v, types[2]) THEN Failed(heap)
    ELSE With(Annotated(heap, k, types[1]), LAMBDA key : IF key.ok THEN Annotated(key.heap, v, types[2]) ELSE key)
\* enforce_dict_entry_constraint: the key is annotated before the value is looked at.
TwEntry(heap, d, k, v) ==
    LET types == heap[d].contract IN
    IF types = <<>> THEN Did(heap, v)
    ELSE With(TwEnsure(heap, k, types[1]), LAMBDA key : IF key.ok THEN TwEnsure(key.heap, v, types[2]) ELSE key)

-----------------------------------------------------------------------------
(* x[i], and x[i] = v.                                                      *)
Inside(o, i) == i >= 0 /\ i < Len(o.items)
VmIndexGet(heap, x, i) ==
    IF Is(heap, x, "Dictionnaire")
    THEN LET p == Position(heap, heap[x.n].keys, i) IN IF p = 0 THEN Failed(heap) ELSE Did(heap, heap[x.n].items[p])
    ELSE IF i.t # "Entier" THEN Failed(heap)
    ELSE CASE KindOf(heap, x) \in {"Liste", "ListeFixe"} ->
                 IF Inside(heap[x.n], i.n) THEN Did(heap, heap[x.n].items[i.n + 1]) ELSE Failed(heap)
           [] x.t = "Texte" -> IF i.n >= 0 /\ i.n < x.n THEN Did(heap, Scalar("Symbole", 0)) ELSE Failed(heap)
           [] OTHER -> Failed(heap)
TwIndexGet(heap, x, i) ==
    CASE KindOf(heap, x) \in {"Liste", "ListeFixe"} ->
            IF i.t = "Entier" /\ i.n >= 0 /\ i.n < Len(heap[x.n].items) THEN Did(heap, heap[x.n].items[i.n + 1])
            ELSE Failed(heap)
      [] Is(heap, x, "Dictionnaire") ->
            LET p == Position(heap, heap[x.n].keys, i) IN IF p # 0 THEN Did(heap, heap[x.n].items[p]) ELSE Failed(heap)
      [] x.t = "Texte" -> IF i.t = "Entier" /\ i.n \in 0..(x.n - 1) THEN Did(heap, Scalar("Symbole", 0)) ELSE Failed(heap)
      [] OTHER -> Failed(heap)

\* DictData::set and EnsembleData::insert, as KeyedTables has them.
SetEntry(heap, o, k, v) ==
    LET p == Position(heap, o.keys, k) IN
    IF p = 0 THEN [o EXCEPT !.keys = Append(@, k), !.items = Append(@, v)] ELSE [o EXCEPT !.items[p] = v]
Insert(heap, o, v) == IF Position(heap, o.items, v) = 0 THEN [o EXCEPT !.items = Append(@, v)] ELSE o

\* execute_index_set; `Entry` and `Ensure` are the engine's own.
IndexSet(heap, x, i, v, entry, ensured) ==
    CASE Is(heap, x, "Liste") ->
            IF i.t # "Entier" \/ ~Inside(heap[x.n], i.n) THEN Failed(heap)
            ELSE IF ~ensured.ok THEN ensured
            ELSE Did([ensured.heap EXCEPT ![x.n].items[i.n + 1] = v], v)
      [] Is(heap, x, "Dictionnaire") ->
            IF ~entry.ok THEN entry
            ELSE IF ~MayBeAKey(i) THEN Failed(entry.heap)
            ELSE Did([entry.heap EXCEPT ![x.n] = SetEntry(entry.heap, @, i, v)], v)
      [] OTHER -> Failed(heap)
VmIndexSet(heap, x, i, v) ==
    IndexSet(heap, x, i, v,
        IF Is(heap, x, "Dictionnaire") THEN VmEntry(heap, x.n, i, v) ELSE Failed(heap),
        IF Is(heap, x, "Liste") /\ heap[x.n].contract # <<>> THEN VmEnsure(heap, v, heap[x.n].contract[1]) ELSE Did(heap, v))
TwIndexSet(heap, x, i, v) ==
    IndexSet(heap, x, i, v,
        IF Is(heap, x, "Dictionnaire") THEN TwEntry(heap, x.n, i, v) ELSE Failed(heap),
        IF Is(heap, x, "Liste") /\ heap[x.n].contract # <<>> THEN TwEnsure(heap, v, heap[x.n].contract[1]) ELSE Did(heap, v))

-----------------------------------------------------------------------------
(* Literals, whose elements are values already, and what a loop walks over. *)
\* execute_list, execute_dictionary, execute_ensemble: every key is looked at before one enters.
Literal(heap, kind, keys, items) ==
    CASE kind = "Ensemble" ->
            IF \A i \in DOMAIN items : MayBeAKey(items[i])
            THEN NewObject(heap, FoldLeft(LAMBDA o, v : Insert(heap, o, v), Object(kind, <<>>, <<>>), items))
            ELSE Failed(heap)
      [] kind = "Dictionnaire" ->
            IF \A i \in DOMAIN keys : MayBeAKey(keys[i])
            THEN NewObject(heap, FoldLeft(LAMBDA o, i : SetEntry(heap, o, keys[i], items[i]),
                                          Object(kind, <<>>, <<>>), [i \in DOMAIN keys |-> i]))
            ELSE Failed(heap)
      [] OTHER -> NewObject(heap, Object(kind, <<>>, items))

\* visit(SetExpr), visit(DictionaryExpr): each key is looked at as it enters.
TwLiteral(heap, kind, keys, items) ==
    LET entered == IF kind = "Ensemble" THEN items ELSE keys
        Entered(o, i) == IF kind = "Ensemble" THEN Insert(heap, o, items[i]) ELSE SetEntry(heap, o, keys[i], items[i])
        Enter(s, i) == IF s.ok /\ MayBeAKey(entered[i]) THEN [s EXCEPT !.o = Entered(@, i)] ELSE [s EXCEPT !.ok = FALSE]
        made == FoldLeft(Enter, [ok |-> TRUE, o |-> Object(kind, <<>>, <<>>)], [i \in DOMAIN entered |-> i])
    IN IF kind \notin {"Ensemble", "Dictionnaire"} THEN NewObject(heap, Object(kind, <<>>, items))
       ELSE IF made.ok THEN NewObject(heap, made.o) ELSE Failed(heap)

\* execute_iteration_snapshot, then one index after another below the length of the snapshot.
VmIterate(heap, x) ==
    CASE KindOf(heap, x) \in {"Liste", "ListeFixe", "Ensemble"} -> Seen(heap, heap[x.n].items)
      [] Is(heap, x, "Dictionnaire") -> Seen(heap, heap[x.n].keys)
      [] x.t = "Texte" -> Seen(heap, [i \in 1..x.n |-> Scalar("Symbole", 0)])
      [] OTHER -> Failed(heap)
\* enumerate_iterable.
TwIterate(heap, x) ==
    IF x.t = "Texte" THEN Seen(heap, [i \in 1..x.n |-> Scalar("Symbole", 0)])
    ELSE IF x.t # "ref" \/ KindOf(heap, x) \in Resultats THEN Failed(heap)
    ELSE Seen(heap, IF Is(heap, x, "Dictionnaire") THEN heap[x.n].keys ELSE heap[x.n].items)

-----------------------------------------------------------------------------
(* The arguments of a call.  A parameter has a name and maybe a default; an *)
(* argument has a name or "".  Binding gives, of each parameter, the number *)
(* of the argument that fills it, or 0.                                     *)

\* The loop that bind_named_arguments, the compiler and call_user_function each have.
PlaceEach(params, args) ==
    LET Place(s, i) ==
            LET target == IF args[i] # "" THEN SelectInSeq(params, LAMBDA p : p.name = args[i])
                          ELSE SelectInSeq(s.bound, LAMBDA b : b = 0)
            IN IF ~s.ok \/ target = 0 \/ s.bound[target] # 0 THEN [s EXCEPT !.ok = FALSE]
               ELSE [s EXCEPT !.bound[target] = i]
    IN FoldLeft(Place, [ok |-> TRUE, bound |-> [p \in DOMAIN params |-> 0]], [i \in DOMAIN args |-> i])
Filled(params, bound) == \A p \in DOMAIN params : bound[p] # 0 \/ params[p].optional
Nobody == [ok |-> FALSE, bound |-> <<>>]

\* normalize_closure_arguments: without names, the arguments are the parameters, in order.
VmBind(params, args) ==
    LET named == \E i \in DOMAIN args : args[i] # ""
        placed == IF named THEN PlaceEach(params, args)
                  ELSE [ok |-> Len(args) <= Len(params), bound |-> [p \in DOMAIN params |-> IF p <= Len(args) THEN p ELSE 0]]
    IN IF placed.ok /\ Filled(params, placed.bound) THEN placed ELSE Nobody
\* visit(CallExpr), for a function that the compiler knows: what it refuses it refuses at once.
CompilerBind(params, args) ==
    LET placed == PlaceEach(params, args) IN IF placed.ok /\ Filled(params, placed.bound) THEN placed ELSE Nobody
\* call_user_function: every argument is placed, then the parameters are filled one by one.
TwBind(params, args) ==
    LET placed == PlaceEach(params, args)
        Fill(s, p) == IF s.ok /\ (placed.bound[p] # 0 \/ params[p].optional)
                      THEN [s EXCEPT !.bound = Append(@, placed.bound[p])] ELSE Nobody
    IN IF ~placed.ok THEN Nobody
       ELSE FoldLeft(Fill, [ok |-> TRUE, bound |-> <<>>], [p \in DOMAIN params |-> p])

\* A call whose parameters have these types: the arguments come first, and a parameter that none
\* fills takes its default, here an empty list.  Gives what the parameters are worth.
Fill(s, args, p) ==
    LET taken == IF p <= Len(args) THEN Did(s.heap, args[p]) ELSE NewObject(s.heap, Object("Liste", <<>>, <<>>))
    IN IF s.ok THEN Outcome(TRUE, taken.heap, Rien, Append(s.items, taken.v)) ELSE s
\* lower_default_parameters, then lower_parameter_types.
VmEnter(heap, types, args) ==
    LET all == [p \in DOMAIN types |-> p]
        filled == FoldLeft(LAMBDA s, p : Fill(s, args, p), Seen(heap, <<>>), all)
        Check(s, p) == LET e == VmEnsure(s.heap, s.items[p], types[p]) IN
                       IF s.ok THEN [s EXCEPT !.ok = e.ok, !.heap = e.heap] ELSE s
    IN FoldLeft(Check, filled, all)
\* call_user_function: one parameter after the other.
TwEnter(heap, types, args) ==
    LET Enter(s, p) ==
            LET filled == Fill(s, args, p)
                e == TwEnsure(filled.heap, filled.items[p], types[p])
            IN IF s.ok THEN [filled EXCEPT !.ok = e.ok, !.heap = e.heap] ELSE s
    IN FoldLeft(Enter, Seen(heap, <<>>), [p \in DOMAIN types |-> p])
====
