-------------------------------- MODULE Marts --------------------------------
(***************************************************************************)
(* The queries of models/marts: each gold table as a function of the       *)
(* tables it selects from.  A table is a set of rows, a row a record with  *)
(* the primary key `id`; columns that are only carried along are left out. *)
(***************************************************************************)
EXTENDS Integers, FiniteSets, Functions

CONSTANT Null    \* SQL's NULL

\* The list at the head of fact_orders.sql.
PaymentMethods == {"credit_card", "coupon", "bank_transfer", "gift_card"}

\* sum(amount): NULL over no row at all.
Sum(rows) == IF rows = {} THEN Null ELSE SumFunctionOnSet([p \in rows |-> p.amount], rows)

\* Mutant: orders and payments joined on the customer before the sum (a fan-out).
DimCustomersFanOut(customers, orders, payments) ==
    LET Placed(c) == {o \in orders : o.customer = c.id}
        Pairs(c)  == {op \in Placed(c) \X payments : \E o \in Placed(c) : op[2].order = o.id}
    IN  {[id |-> c.id,
          number_of_orders |-> IF Placed(c) = {} THEN Null ELSE Cardinality(Placed(c)),
          customer_lifetime_value |-> Sum({[id |-> <<op[1].id, op[2].id>>, amount |-> op[2].amount] : op \in Pairs(c)})] : c \in customers}

\* dim_customers: the payments reach a customer through the order they pay.
\* A customer without orders, or without payments, has NULL and not zero.
DimCustomers(customers, orders, payments) ==
    LET Placed(c) == {o \in orders : o.customer = c.id}
        Paid(c)   == {p \in payments : \E o \in Placed(c) : p.order = o.id}
    IN  {[id |-> c.id,
          number_of_orders |-> IF Placed(c) = {} THEN Null ELSE Cardinality(Placed(c)),
          customer_lifetime_value |-> Sum(Paid(c))] : c \in customers}

\* fact_orders: one row for each order, with its payments' total and the part
\* paid by each listed method; an order nobody has paid has NULLs.
FactOrders(orders, payments) ==
    LET Paid(o)  == {p \in payments : p.order = o.id}
        Part(m, p) == [p EXCEPT !.amount = IF p.method = m THEN @ ELSE 0]
    IN  {[id |-> o.id,
          customer |-> o.customer,
          amount |-> Sum(Paid(o)),
          by |-> [m \in PaymentMethods |-> Sum({Part(m, p) : p \in Paid(o)})]] : o \in orders}

\* Selections of columns.
DimProducts(products) == products
DimStores(stores) == stores

\* fact_order_items: a left join to dim_products, priced at build time.
FactOrderItems(items, products) ==
    LET Priced(i) == {p \in products : p.id = i.product}
        UnitPrice(i) == IF Priced(i) = {} THEN Null ELSE (CHOOSE p \in Priced(i) : TRUE).price
    IN  {[id |-> i.id,
          unit_price |-> UnitPrice(i),
          line_total |-> IF Priced(i) = {} THEN Null ELSE i.quantity * UnitPrice(i)] : i \in items}

\* dim_date: day numbers counted from 2017-01-01, generator(rowcount => 365 * 10).
DimDate == {[id |-> d] : d \in 0 .. 365 * 10 - 1}
=============================================================================
