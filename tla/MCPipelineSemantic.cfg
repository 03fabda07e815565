\* A mart and the semantic view that names it.
CONSTANTS
    Model = {"products", "dim_products", "sem_jaffle"}
    Row <- MCRow
    Null = Null
SPECIFICATION Spec
INVARIANTS SemanticAfterMarts
