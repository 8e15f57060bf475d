SPECIFICATION Spec
CONSTANTS
    Threads = {t1, t2}
    Handles = {h1, h2}
    Found <- Founds
    Small = 2
    MaxImpls = 2
    MaxCalls = 3
SYMMETRY Symmetric
INVARIANTS
    ImplsOwned
    ViewsIntact
    CopiesIntact
\* Everything may be destroyed.
CHECK_DEADLOCK FALSE
