\* Customers, orders and payments to the two marts that add payments up.
CONSTANTS
    Model = {"customers", "orders", "payments", "dim_customers", "fact_orders"}
    Row <- MCRow
    Null = Null
SPECIFICATION Spec
INVARIANTS TypeOK DoneIsFresh RevenueAgrees MethodsAddUp
