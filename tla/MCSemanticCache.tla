--------------------------- MODULE MCSemanticCache ---------------------------
EXTENDS SemanticCache, TLC

\* Two texts that only the model knows to mean the same, and a third.
CONSTANTS rain, rainfall, tax
MCQueries == {rain, rainfall, tax}
MCNear ==
    {p \in Vectors \X Vectors :
        \/ p[1] = p[2]
        \/ p[1].source = "model" /\ p[2].source = "model"
           /\ {p[1].text, p[2].text} = {rain, rainfall}}

MCSymmetry == Permutations(Lookups) \union Permutations({rain, rainfall})
=============================================================================
