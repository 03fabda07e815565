------------------------------ MODULE MCPipeline ------------------------------
(* Small instances of Pipeline for TLC. *)
EXTENDS Pipeline

\* One customer's two orders.  The second payment comes with a method that
\* fact_orders does not list, or for the other order and without a method, and may
\* be amended from one to the other.
MCRow ==
    [customers   |-> [id : {"c1"}],
     orders      |-> [id : {"o1", "o2"}, customer : {"c1"}],
     payments    |-> [id : {"p1"}, order : {"o1"}, method : {"coupon"}, amount : {1}]
                       \cup [id : {"p2"}, order : {"o1"}, method : {"voucher"}, amount : {1}]
                       \cup [id : {"p2"}, order : {"o2"}, method : {Null}, amount : {1}],
     products    |-> [id : {"a"}, price : {1, 2}],
     order_items |-> [id : {"i"}, product : {"a"}, quantity : {1, 2}]]
=============================================================================
