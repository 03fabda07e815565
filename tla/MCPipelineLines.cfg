\* Order lines, priced through dim_products, under their secured view.
CONSTANTS
    Model = {"products", "order_items", "dim_products", "fact_order_items", "sv_fact_order_items"}
    Row <- MCRow
    Null = Null
SPECIFICATION FairSpec
INVARIANTS LinesPriced SkippedBelowFailure
PROPERTIES EveryRunEnds
