---- MODULE Parser ----
(***************************************************************************)
(* Parser (src/parser/parser.cpp): recursive descent over the tokens.      *)
(* A rule takes the tokens and m_current and gives a tree and the next     *)
(* m_current or, for a ParseError, m_current when it was thrown and the    *)
(* token it blames.  A tree keeps the kind of its node, a name or operator *)
(* and its parts; a part that is absent is Nothing, a modifier wraps the   *)
(* declaration it marks.  Accents are left out of the names.               *)
(***************************************************************************)
EXTENDS Naturals, Sequences

Node(n, label, kids) == [n |-> n, label |-> label, kids |-> kids]
Leaf(n, label) == Node(n, label, <<>>)
Nothing == Leaf("nothing", "")
Marked(mark, tree) == Node(mark, "", <<tree>>)

Parsed(i, tree) == [ok |-> TRUE, i |-> i, t |-> tree]
ParseError(i, blamed) == [ok |-> FALSE, i |-> i, blamed |-> blamed]
Then(r, Continue(_, _)) == IF r.ok THEN Continue(r.i, r.t) ELSE r

Kind(ts, i) == ts[i].type
Following(ts, i) == IF Kind(ts, i) = "FIN_FICHIER" THEN "FIN_FICHIER" ELSE Kind(ts, i + 1)
Expect(ts, i, kind) ==
    IF Kind(ts, i) = kind THEN Parsed(i + 1, Leaf("token", ts[i].lexeme)) ELSE ParseError(i, i)
Name(ts, i) == Expect(ts, i, "IDENT")
\* What follows an expected token.
After(ts, i, kind, Continue(_)) == Then(Expect(ts, i, kind), LAMBDA j, t : Continue(j))

RECURSIVE Rule(_, _, _), Statements(_, _, _), Chain(_, _, _), Primary(_, _),
          Postfix(_, _), Casts(_, _), Items(_, _, _, _), UnionTail(_, _), TypeArguments(_, _, _),
          DottedName(_, _), If(_, _), Methods(_, _, _), Branches(_, _, _), Entries(_, _, _),
          Level(_, _, _), Type(_, _)

\* The rules that others call by name: see Rule.
Expression(ts, i) == Rule("expression", ts, i)
Statement(ts, i) == Rule("statement", ts, i)

-----------------------------------------------------------------------------
(* Lists: one rule, repeated after each ','.                                *)
MemberWords ==
    {"IDENT", "SOIT", "FIXE", "FONCTION", "RETOURNE", "CLASSE", "INTERFACE", "TYPE", "REALISE",
     "REMPLACE", "PUBLIC", "PRIVE", "SI", "SINON", "POUR", "CHAQUE", "DANS", "TANT_QUE",
     "AGIR_SELON", "ARRETER", "CONTINUER", "ICI", "PARENT", "EN", "IMPORTER", "COMME", "EST",
     "ET", "OU", "NON", "VRAI", "FAUX", "RIEN"}

ImportedMember(ts, i) ==
    Then(Name(ts, i), LAMBDA j, name :
        IF Kind(ts, j) # "COMME" THEN Parsed(j, Node("member", name.label, <<Nothing>>))
        ELSE Then(Name(ts, j + 1), LAMBDA k, alias : Parsed(k, Node("member", name.label, <<alias>>))))

Parameter(ts, i) ==
    Then(Name(ts, i), LAMBDA j, name :
    After(ts, j, "DEUX_POINTS", LAMBDA k :
    Then(Type(ts, k), LAMBDA l, type :
        IF Kind(ts, l) # "EGAL" THEN Parsed(l, Node("parameter", name.label, <<type, Nothing>>))
        ELSE Then(Expression(ts, l + 1), LAMBDA m, default :
                 Parsed(m, Node("parameter", name.label, <<type, default>>))))))

Argument(ts, i) ==
    LET named == Kind(ts, i) \in MemberWords /\ Following(ts, i) = "DEUX_POINTS" IN
    Then(Expression(ts, IF named THEN i + 2 ELSE i), LAMBDA j, value :
        Parsed(j, Node("argument", IF named THEN ts[i].lexeme ELSE "", <<value>>)))

\* A pattern of agir selon: a result constructor, rien, a typed name or a value.
Pattern(ts, i) ==
    IF Kind(ts, i) = "IDENT" /\ ts[i].lexeme \in {"Succes", "Echec"} /\ Following(ts, i) = "PAREN_OUV"
    THEN Then(Name(ts, i + 2), LAMBDA j, binding :
         Then(IF Kind(ts, j) = "DEUX_POINTS" THEN Type(ts, j + 1) ELSE Parsed(j, Nothing), LAMBDA k, type :
         After(ts, k, "PAREN_FERM", LAMBDA l :
             Parsed(l, Node("result", ts[i].lexeme, <<binding, type>>)))))
    ELSE IF Kind(ts, i) = "RIEN" THEN Parsed(i + 1, Leaf("rien", "rien"))
    ELSE IF Kind(ts, i) = "IDENT" /\ Following(ts, i) = "DEUX_POINTS"
    THEN Then(Type(ts, i + 2), LAMBDA j, type : Parsed(j, Node("typed", ts[i].lexeme, <<type>>)))
    ELSE Then(Expression(ts, i), LAMBDA j, value : Parsed(j, Node("value", "", <<value>>)))

-----------------------------------------------------------------------------
(* Types: unions of names, a name with arguments between brackets.          *)
DottedName(ts, r) ==
    IF ~r.ok \/ Kind(ts, r.i) # "POINT" THEN r
    ELSE DottedName(ts, Then(Name(ts, r.i + 1), LAMBDA j, part :
             Parsed(j, Leaf("token", r.t.label \o "." \o part.label))))

TypeArguments(ts, i, done) ==
    Then(IF Kind(ts, i) = "ENTIER_LIT" THEN Parsed(i + 1, Leaf("integer", ts[i].lexeme)) ELSE Type(ts, i),
         LAMBDA j, argument :
        IF Kind(ts, j) = "CROCHET_FERM" THEN Parsed(j + 1, Append(done, argument))
        ELSE After(ts, j, "VIRGULE", LAMBDA k :
                 IF Kind(ts, k) = "CROCHET_FERM" THEN ParseError(k, k)
                 ELSE TypeArguments(ts, k, Append(done, argument))))

GenericType(ts, i) ==
    Then(DottedName(ts, Name(ts, i)), LAMBDA j, name :
        IF Kind(ts, j) # "CROCHET_OUV" THEN Parsed(j, Leaf("named", name.label))
        ELSE IF Kind(ts, j + 1) = "CROCHET_FERM" THEN ParseError(j + 1, j + 1)
        ELSE Then(TypeArguments(ts, j + 1, <<>>), LAMBDA k, arguments :
                 Parsed(k, Node("generic", name.label, arguments))))

UnionTail(ts, r) ==
    IF ~r.ok \/ Kind(ts, r.i) # "PIPE" THEN r
    ELSE UnionTail(ts, Then(GenericType(ts, r.i + 1), LAMBDA j, alternative :
             Parsed(j, Node("union", "", Append(r.t.kids, alternative)))))
Type(ts, i) ==
    Then(GenericType(ts, i), LAMBDA j, first :
        IF Kind(ts, j) # "PIPE" THEN Parsed(j, first)
        ELSE UnionTail(ts, Parsed(j, Node("union", "", <<first>>))))

-----------------------------------------------------------------------------
(* Items of a list, all of the same rule.                                   *)
\* Mutant: a comma may close the list.
ItemsTrailing(rule, ts, i, done) ==
    Then(Rule(rule, ts, i), LAMBDA j, item :
        IF Kind(ts, j) # "VIRGULE" THEN Parsed(j, Append(done, item))
        ELSE IF Kind(ts, j + 1) \in {"PAREN_FERM", "CROCHET_FERM"} THEN Parsed(j + 1, Append(done, item))
        ELSE Items(rule, ts, j + 1, Append(done, item)))
Items(rule, ts, i, done) ==
    Then(Rule(rule, ts, i), LAMBDA j, item :
        IF Kind(ts, j) = "VIRGULE" THEN Items(rule, ts, j + 1, Append(done, item))
        ELSE Parsed(j, Append(done, item)))
\* Items up to a closing token, which may come at once.
Enclosed(rule, ts, i, close) ==
    IF Kind(ts, i) = close THEN Parsed(i + 1, <<>>)
    ELSE Then(Items(rule, ts, i, <<>>), LAMBDA j, items :
         After(ts, j, close, LAMBDA k : Parsed(k, items)))

-----------------------------------------------------------------------------
(* Expressions: a layer for each band of precedence.  The layers of binary   *)
(* operators fold to the left over the layer below them.                     *)
Operators ==
    [or |-> {"OU"}, and |-> {"ET"}, equality |-> {"EGAL_EGAL", "BANG_EGAL"},
     comparison |-> {"INFERIEUR", "INFERIEUR_EGAL", "SUPERIEUR", "SUPERIEUR_EGAL", "EST"},
     addition |-> {"PLUS", "MOINS"}, multiplication |-> {"ETOILE", "SLASH", "MODULO"}]
\* Mutant: the layers of '+' and '*' are swapped.
BelowSwapped == [or |-> "and", and |-> "not", equality |-> "comparison", comparison |-> "multiplication",
                 addition |-> "unary", multiplication |-> "addition"]
Below == [or |-> "and", and |-> "not", equality |-> "comparison", comparison |-> "addition",
          addition |-> "multiplication", multiplication |-> "unary"]
Prefix == [not |-> "NON", unary |-> "MOINS"]

\* "ou propager" ends its layer; "est" takes a type.
Chain(level, ts, r) ==
    IF ~r.ok \/ Kind(ts, r.i) \notin Operators[level] THEN r
    ELSE IF level = "or" /\ Kind(ts, r.i + 1) = "PROPAGER"
    THEN Parsed(r.i + 2, Node("propager", "", <<r.t>>))
    ELSE IF Kind(ts, r.i) = "EST"
    THEN Chain(level, ts, Then(Type(ts, r.i + 1), LAMBDA j, type : Parsed(j, Node("est", "", <<r.t, type>>))))
    ELSE Chain(level, ts, Then(Level(Below[level], ts, r.i + 1), LAMBDA j, right :
             Parsed(j, Node("binary", ts[r.i].lexeme, <<r.t, right>>))))

Casts(ts, r) ==
    IF ~r.ok \/ Kind(ts, r.i) # "EN" THEN r
    ELSE Casts(ts, Then(Type(ts, r.i + 1), LAMBDA j, type : Parsed(j, Node("en", "", <<r.t, type>>))))

Level(level, ts, i) ==
    IF level \in DOMAIN Operators THEN Chain(level, ts, Level(Below[level], ts, i))
    ELSE IF Kind(ts, i) = Prefix[level]
    THEN Then(Level(level, ts, i + 1), LAMBDA j, operand : Parsed(j, Node("prefix", ts[i].lexeme, <<operand>>)))
    ELSE IF level = "not" THEN Level("equality", ts, i)
    ELSE Casts(ts, Postfix(ts, Primary(ts, i)))

\* parse_assignment: right-associative; the target is judged once its value is read.
Assignable == {"identifier", "member", "index"}
Assignment(ts, i) ==
    Then(Level("or", ts, i), LAMBDA j, left :
        IF Kind(ts, j) # "EGAL" THEN Parsed(j, left)
        ELSE Then(Expression(ts, j + 1), LAMBDA k, right :
            IF left.n \in Assignable THEN Parsed(k, Node("binary", "=", <<left, right>>))
            ELSE ParseError(k, j)))

\* parse_call: calls, members and indices after a primary, on whatever line.
Postfix(ts, r) ==
    IF ~r.ok THEN r
    ELSE LET i == r.i IN
         CASE Kind(ts, i) = "PAREN_OUV" ->
                Postfix(ts, Then(Enclosed("argument", ts, i + 1, "PAREN_FERM"), LAMBDA j, arguments :
                    Parsed(j, Node("call", "", <<r.t>> \o arguments))))
           [] Kind(ts, i) = "POINT" ->
                IF Kind(ts, i + 1) \notin MemberWords THEN ParseError(i + 1, i + 1)
                ELSE Postfix(ts, Parsed(i + 2, Node("member", ts[i + 1].lexeme, <<r.t>>)))
           [] Kind(ts, i) = "CROCHET_OUV" ->
                Postfix(ts, Then(Expression(ts, i + 1), LAMBDA j, index :
                    After(ts, j, "CROCHET_FERM", LAMBDA k : Parsed(k, Node("index", "", <<r.t, index>>)))))
           [] OTHER -> r

Block(ts, i) ==
    After(ts, i, "ACCOLADE_OUV", LAMBDA j :
    Then(Statements(ts, j, <<>>), LAMBDA k, body :
    After(ts, k, "ACCOLADE_FERM", LAMBDA l : Parsed(l, Node("block", "", body)))))
Statements(ts, i, done) ==
    IF Kind(ts, i) \in {"FIN_FICHIER", "ACCOLADE_FERM"} THEN Parsed(i, done)
    ELSE Then(Statement(ts, i), LAMBDA j, statement : Statements(ts, j, Append(done, statement)))

\* The parameters and the return type of a function, from its '('.
Signature(ts, i) ==
    After(ts, i, "PAREN_OUV", LAMBDA j :
    Then(Enclosed("parameter", ts, j, "PAREN_FERM"), LAMBDA k, parameters :
    Then(IF Kind(ts, k) = "FLECHE" THEN Type(ts, k + 1) ELSE Parsed(k, Nothing), LAMBDA l, type :
        Parsed(l, <<type>> \o parameters))))

FunctionExpression(ts, i) ==
    Then(Signature(ts, i + 1), LAMBDA j, signature :
    Then(IF Kind(ts, j) = "ACCOLADE_OUV" THEN Block(ts, j) ELSE Expression(ts, j), LAMBDA k, body :
        Parsed(k, Node("lambda", "", <<body>> \o signature))))

\* The entries of a dictionary after the first key, i at its ':'.
Entries(ts, i, done) ==
    After(ts, i, "DEUX_POINTS", LAMBDA j :
    Then(Expression(ts, j), LAMBDA k, value :
        IF Kind(ts, k) # "VIRGULE"
        THEN After(ts, k, "ACCOLADE_FERM", LAMBDA l : Parsed(l, Node("dictionary", "", Append(done, value))))
        ELSE Then(Expression(ts, k + 1), LAMBDA l, key : Entries(ts, l, done \o <<value, key>>))))

\* '{' opens a dictionary or a set: the token after the first entry decides.
Braced(ts, i) ==
    IF Kind(ts, i + 1) = "ACCOLADE_FERM" THEN Parsed(i + 2, Leaf("dictionary", ""))
    ELSE Then(Expression(ts, i + 1), LAMBDA j, first :
        CASE Kind(ts, j) = "DEUX_POINTS" -> Entries(ts, j, <<first>>)
          [] Kind(ts, j) = "VIRGULE" ->
               Then(Items("expression", ts, j + 1, <<first>>), LAMBDA k, elements :
               After(ts, k, "ACCOLADE_FERM", LAMBDA l : Parsed(l, Node("set", "", elements))))
          [] OTHER -> After(ts, j, "ACCOLADE_FERM", LAMBDA l : Parsed(l, Node("set", "", <<first>>))))

\* The branch of agir selon whose patterns are read, i after its "->".
BranchEnd(ts, i) ==
    CASE Kind(ts, i) \in {"PROPAGER", "IGNORER"} -> Parsed(i + 1, Leaf("terminator", ts[i].lexeme))
      [] Kind(ts, i) = "ACCOLADE_OUV" -> Block(ts, i)
      [] Kind(ts, i) = "RETOURNE" -> Statement(ts, i)
      [] OTHER -> Expression(ts, i)

\* "sinon" is the last branch: the loop stops there and expects '}'.
Branches(ts, i, done) ==
    CASE Kind(ts, i) \in {"FIN_FICHIER", "ACCOLADE_FERM"} ->
           After(ts, i, "ACCOLADE_FERM", LAMBDA j : Parsed(j, done))
      [] Kind(ts, i) = "SINON" ->
           After(ts, i + 1, "FLECHE", LAMBDA j :
           Then(IF Kind(ts, j) = "ACCOLADE_OUV" THEN Block(ts, j) ELSE Expression(ts, j), LAMBDA k, body :
           After(ts, k, "ACCOLADE_FERM", LAMBDA l : Parsed(l, Append(done, Node("sinon", "", <<body>>))))))
      [] OTHER ->
           Then(Items("pattern", ts, i, <<>>), LAMBDA j, patterns :
           After(ts, j, "FLECHE", LAMBDA k :
           Then(BranchEnd(ts, k), LAMBDA l, body :
               Branches(ts, l, Append(done, Node("branch", "", Append(patterns, body)))))))

AgirSelon(ts, i) ==
    Then(Expression(ts, i + 1), LAMBDA j, matched :
    After(ts, j, "ACCOLADE_OUV", LAMBDA k :
    Then(Branches(ts, k, <<>>), LAMBDA l, branches :
        Parsed(l, Node("agir", "", <<matched>> \o branches)))))

Literals == {"ENTIER_LIT", "DECIMAL_LIT", "TEXTE_LIT", "SYMBOLE_LIT", "VRAI", "FAUX", "RIEN"}
Primary(ts, i) ==
    LET k == Kind(ts, i) IN
    CASE k \in Literals -> Parsed(i + 1, Leaf("literal", ts[i].lexeme))
      [] k \in {"IDENT", "ICI", "PARENT"} -> Parsed(i + 1, Leaf("identifier", ts[i].lexeme))
      [] k = "FONCTION" -> FunctionExpression(ts, i)
      [] k = "AGIR_SELON" -> AgirSelon(ts, i)
      [] k = "CROCHET_OUV" ->
           Then(Enclosed("expression", ts, i + 1, "CROCHET_FERM"), LAMBDA j, elements :
               Parsed(j, Node("list", "", elements)))
      [] k = "ACCOLADE_OUV" -> Braced(ts, i)
      [] k = "PAREN_OUV" ->
           Then(Expression(ts, i + 1), LAMBDA j, inner : After(ts, j, "PAREN_FERM", LAMBDA l : Parsed(l, inner)))
      [] OTHER -> ParseError(i, i)

-----------------------------------------------------------------------------
(* Statements.                                                               *)
Optional(ts, i, kind, Part(_, _)) == IF Kind(ts, i) = kind THEN Part(ts, i + 1) ELSE Parsed(i, Nothing)

Variable(ts, i) ==
    LET fixed == Kind(ts, i + 1) = "FIXE" IN
    Then(Name(ts, IF fixed THEN i + 2 ELSE i + 1), LAMBDA j, name :
    Then(Optional(ts, j, "DEUX_POINTS", Type), LAMBDA k, type :
    Then(Optional(ts, k, "EGAL", Expression), LAMBDA l, value :
        LET declared == Node("soit", name.label, <<type, value>>)
        IN Parsed(l, IF fixed THEN Marked("fixe", declared) ELSE declared))))

Field(ts, i) ==
    Then(Type(ts, i + 2), LAMBDA j, type : Parsed(j, Node("field", ts[i].lexeme, <<type>>)))

\* A function without a body is the method of an interface.
Function(ts, i) ==
    Then(Name(ts, i + 1), LAMBDA j, name :
    Then(Signature(ts, j), LAMBDA k, signature :
    Then(IF Kind(ts, k) = "ACCOLADE_OUV" THEN Block(ts, k) ELSE Parsed(k, Nothing), LAMBDA l, body :
        Parsed(l, Node("fonction", name.label, <<body>> \o signature)))))

Class(ts, i) ==
    Then(Name(ts, i + 1), LAMBDA j, name :
    Then(Optional(ts, j, "DEUX_POINTS", GenericType), LAMBDA k, parent :
    Then(IF Kind(ts, k) = "REALISE" THEN Items("generic type", ts, k + 1, <<>>) ELSE Parsed(k, <<>>),
         LAMBDA l, interfaces :
    Then(Block(ts, l), LAMBDA m, body :
        Parsed(m, Node("classe", name.label, <<body, parent>> \o interfaces))))))

\* Only "fonction" opens a member of an interface.
Methods(ts, i, done) ==
    CASE Kind(ts, i) \in {"FIN_FICHIER", "ACCOLADE_FERM"} ->
           After(ts, i, "ACCOLADE_FERM", LAMBDA j : Parsed(j, done))
      [] Kind(ts, i) = "FONCTION" ->
           Then(Function(ts, i), LAMBDA j, method : Methods(ts, j, Append(done, method)))
      [] OTHER -> ParseError(i, i)
Interface(ts, i) ==
    Then(Name(ts, i + 1), LAMBDA j, name :
    After(ts, j, "ACCOLADE_OUV", LAMBDA k :
    Then(Methods(ts, k, <<>>), LAMBDA l, methods : Parsed(l, Node("interface", name.label, methods)))))

TypeAlias(ts, i) ==
    Then(Name(ts, i + 1), LAMBDA j, name :
    After(ts, j, "EGAL", LAMBDA k :
    Then(Type(ts, k), LAMBDA l, target : Parsed(l, Node("type", name.label, <<target>>)))))

\* parse_module_identifier stops at a '.' no name follows.
RECURSIVE ModuleName(_, _)
ModuleName(ts, r) ==
    IF ~r.ok \/ Kind(ts, r.i) # "POINT" \/ Following(ts, r.i) # "IDENT" THEN r
    ELSE ModuleName(ts, Parsed(r.i + 2, Leaf("token", r.t.label \o "." \o ts[r.i + 1].lexeme)))
Import(ts, i) ==
    Then(ModuleName(ts, Name(ts, i + 1)), LAMBDA j, name :
        IF Kind(ts, j) = "POINT" /\ Following(ts, j) = "ACCOLADE_OUV"
        THEN Then(Items("imported member", ts, j + 2, <<>>), LAMBDA k, members :
             After(ts, k, "ACCOLADE_FERM", LAMBDA l : Parsed(l, Node("importer", name.label, members))))
        ELSE Then(Optional(ts, j, "COMME", Name), LAMBDA k, alias :
                 Parsed(k, Node("importer", name.label, IF alias = Nothing THEN <<>> ELSE <<alias>>))))

If(ts, i) ==
    Then(Expression(ts, i + 1), LAMBDA j, condition :
    Then(Block(ts, j), LAMBDA k, yes :
    Then(CASE Kind(ts, k) # "SINON" -> Parsed(k, Nothing)
           [] Kind(ts, k) = "SINON" /\ Kind(ts, k + 1) = "SI" -> If(ts, k + 1)
           [] OTHER -> Block(ts, k + 1),
         LAMBDA l, no : Parsed(l, Node("si", "", <<condition, yes, no>>)))))

While(ts, i) ==
    Then(Expression(ts, i + 1), LAMBDA j, condition :
    Then(Block(ts, j), LAMBDA k, body : Parsed(k, Node("tant que", "", <<condition, body>>))))

For(ts, i) ==
    After(ts, i + 1, "CHAQUE", LAMBDA j :
    Then(Name(ts, j), LAMBDA k, variable :
    After(ts, k, "DANS", LAMBDA l :
    Then(Expression(ts, l), LAMBDA m, iterable :
    Then(Block(ts, m), LAMBDA n, body :
        Parsed(n, Node("pour", variable.label, <<iterable, body>>)))))))

Return(ts, i) ==
    IF Kind(ts, i + 1) \in {"FIN_FICHIER", "ACCOLADE_FERM"} THEN Parsed(i + 1, Node("retourne", "", <<Nothing>>))
    ELSE Then(Expression(ts, i + 1), LAMBDA j, value : Parsed(j, Node("retourne", "", <<value>>)))

Ignore(ts, i) ==
    IF Kind(ts, i + 1) = "PAREN_OUV" THEN ParseError(i + 1, i + 1)
    ELSE Then(Expression(ts, i + 1), LAMBDA j, value : Parsed(j, Node("ignorer", "", <<value>>)))

Mark(r, mark) == Then(r, LAMBDA j, tree : Parsed(j, Marked(mark, tree)))

\* After "public" or "prive": "prive soit" declares what "soit" does, and a
\* field is public unless it says otherwise.
Visible(ts, i) ==
    LET private == Kind(ts, i) = "PRIVE"
        k == Kind(ts, i + 1)
    IN CASE k = "FONCTION" -> Mark(Function(ts, i + 1), IF private THEN "prive" ELSE "public")
         [] k = "SOIT" -> IF private THEN Variable(ts, i + 1) ELSE Mark(Variable(ts, i + 1), "public")
         [] k \in {"CLASSE", "INTERFACE", "TYPE"} /\ private -> ParseError(i + 1, i + 1)
         [] k = "CLASSE" /\ ~private -> Mark(Class(ts, i + 1), "public")
         [] k = "INTERFACE" /\ ~private -> Mark(Interface(ts, i + 1), "public")
         [] k = "TYPE" /\ ~private -> Mark(TypeAlias(ts, i + 1), "public")
         [] k = "IDENT" /\ Following(ts, i + 1) = "DEUX_POINTS" ->
              IF private THEN Mark(Field(ts, i + 1), "prive") ELSE Field(ts, i + 1)
         [] OTHER -> ParseError(i + 1, i + 1)

Override(ts, i) ==
    LET private == Kind(ts, i + 1) = "PRIVE"
        at == IF private THEN i + 2 ELSE i + 1
    IN IF Kind(ts, at) # "FONCTION" THEN ParseError(at, at)
       ELSE Mark(IF private THEN Mark(Function(ts, at), "prive") ELSE Function(ts, at), "remplace")

\* parse_statement: its documentation is consumed first, whatever follows it, and
\* kept when a declaration does.
Declarations == {"soit", "fixe", "field", "fonction", "classe", "interface", "type",
                 "public", "prive", "remplace", "documented"}
AnyStatement(ts, i) ==
    LET k == Kind(ts, i) IN
    CASE k = "DOCUMENTATION" ->
           Then(Statement(ts, i + 1), LAMBDA j, statement :
               Parsed(j, IF statement.n \in Declarations THEN Marked("documented", statement) ELSE statement))
      [] k = "SOIT" -> Variable(ts, i)
      [] k = "CLASSE" -> Class(ts, i)
      [] k = "INTERFACE" -> Interface(ts, i)
      [] k = "TYPE" -> TypeAlias(ts, i)
      [] k = "IMPORTER" -> Import(ts, i)
      [] k = "SI" -> If(ts, i)
      [] k = "POUR" -> For(ts, i)
      [] k = "TANT_QUE" -> While(ts, i)
      [] k = "AGIR_SELON" -> AgirSelon(ts, i)
      [] k = "RETOURNE" -> Return(ts, i)
      [] k \in {"ARRETER", "CONTINUER"} -> Parsed(i + 1, Leaf("jump", ts[i].lexeme))
      [] k = "IGNORER" -> Ignore(ts, i)
      [] k = "ACCOLADE_OUV" -> Block(ts, i)
      [] k \in {"PUBLIC", "PRIVE"} -> Visible(ts, i)
      [] k = "REMPLACE" -> Override(ts, i)
      [] k = "FONCTION" -> Function(ts, i)
      [] k = "IDENT" /\ Following(ts, i) = "DEUX_POINTS" -> Field(ts, i)
      [] OTHER -> Expression(ts, i)

Rule(rule, ts, i) ==
    CASE rule = "expression" -> Assignment(ts, i)
      [] rule = "statement" -> AnyStatement(ts, i)
      [] rule = "argument" -> Argument(ts, i)
      [] rule = "parameter" -> Parameter(ts, i)
      [] rule = "pattern" -> Pattern(ts, i)
      [] rule = "generic type" -> GenericType(ts, i)
      [] rule = "imported member" -> ImportedMember(ts, i)

-----------------------------------------------------------------------------
(* Where parsing resumes after an error at statement start.                  *)
Restarts == {"SOIT", "FONCTION", "CLASSE", "INTERFACE", "IMPORTER", "SI", "POUR", "TANT_QUE",
             "AGIR_SELON", "RETOURNE", "PUBLIC", "PRIVE", "REMPLACE", "FIN_FICHIER"}
RECURSIVE Synchronize(_, _)
Synchronize(ts, i) ==
    CASE Kind(ts, i) \in Restarts -> i
      [] Kind(ts, i) = "ACCOLADE_FERM" -> i + 1
      [] OTHER -> Synchronize(ts, i + 1)
Resume(ts, start, i) ==
    Synchronize(ts, IF i = start /\ Kind(ts, i) # "FIN_FICHIER" THEN i + 1 ELSE i)
====
