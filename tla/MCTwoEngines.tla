---------------------------- MODULE MCTwoEngines ----------------------------
EXTENDS TwoEngines

Token(op, name, param) == [op |-> op, name |-> name, param |-> param]
On(op, name) == Token(op, name, NoName)
Just(op) == Token(op, NoName, NoName)

\* A variable x, also of the module, and functions f.
Statements == {On("VarDecl", "x"), Token("VarDecl", "y", "x"), On("Assign", "x"), On("Identifier", "x"),
               On("FunctionDecl", "f"), Token("FunctionDecl", "f", "x"), On("Call", "f"), On("Keep", "f"), Just("CallKept"),
               Just("If"), Just("While"), On("For", "x"), Just("End"),
               Just("Break"), Just("Continue"), Just("Return")}

\* Initializers that read a variable, of the same name or of another.
Copying == {On("VarDecl", "x"), Token("VarDecl", "x", "x"), Token("VarDecl", "y", "x"),
            On("Identifier", "x"), On("Identifier", "y"), Just("If"), Just("End")}

\* Programs left out because they show nothing new: empty bodies, a declaration
\* that ends its scope, and a call from the list before anything is kept.
Worthwhile ==
    /\ \A i \in 2..Len(program) : program[i].op = "End" => program[i - 1].op \notin Openers \cup {"VarDecl"}
    /\ \A i \in DOMAIN program : program[i].op = "CallKept" => \E j \in 1..i : program[j].op = "Keep"
=============================================================================
