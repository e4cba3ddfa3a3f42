--------------------------- MODULE MCModuleLoading --------------------------
EXTENDS ModuleLoading

\* main and q in one directory, p and another q in its directory sub.
FilesInOrder == <<"main", "sub/p", "q", "sub/q">>
Outer == {"main", "q"}
TwoDirectories ==
    [at \in {"main", "q", "sub/p", "sub/q"} \X {"main", "p", "q", "sub.p"} |->
        CASE at[2] = "q" -> IF at[1] \in Outer THEN "q" ELSE "sub/q"
          [] at[2] = "p" /\ at[1] \notin Outer -> "sub/p"
          [] at[2] = "sub.p" /\ at[1] \in Outer -> "sub/p"
          [] at[2] = "main" /\ at[1] \in Outer -> "main"
          [] OTHER -> "nothing"]

StatementsWith(ops) ==
    {at \in Files \X (1..MaxStatements) : at[2] \in DOMAIN text[at[1]] /\ text[at[1]][at[2]].op \in ops}
Found(at) == At[at[1], text[at[1]][at[2]].name]

\* What the analysis rejects: a cycle, text that does not parse, an import of nothing.
Rejected == \/ Cyclic(text)
            \/ StatementsWith({"garbled"}) # {}
            \/ \E at \in StatementsWith({"import", "function"}) : Found(at) = NoFile

\* Some module fails, the failure is caught, and not every module is named only
\* once, by a function called only once: a module might be imported again.
MayRetry ==
    /\ StatementsWith({"test"}) # {} /\ StatementsWith({"fail"}) # {}
    /\ \/ Cardinality(StatementsWith({"call", "test"})) > 1
       \/ \E one, other \in StatementsWith({"import", "function"}) : one # other /\ Found(one) = Found(other)

\* Programs left out: those the analysis rejects beyond MaxRejected statements, and
\* those that may retry, unless Retries.
MaxRejected == 3
Worthwhile ==
    /\ phase = "write" => SumOfLengths(text) <= MaxRejected \/ ~Rejected
    /\ phase # "write" => Retries \/ ~MayRetry
=============================================================================
