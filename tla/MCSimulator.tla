----------------------------- MODULE MCSimulator -----------------------------
(***************************************************************************)
(* Templates for the simulator.  Shipped are those of simulators/events    *)
(* that have a key or a reference, with ranges cut to one or two values:   *)
(* none has a `sequence` field.  Made are a few more, which use the rest   *)
(* of what the head of simulate.py describes.                              *)
(***************************************************************************)
EXTENDS Simulator

Field(name, kind, from, hi) ==
    [field |-> name, kind |-> kind, from |-> from, lo |-> 1, hi |-> hi]
Number(name) == Field(name, "int", "", 1)
Sequence(name) == Field(name, "sequence", "", 1)
Ref(name, from) == Field(name, "reference", from, 2)
Plain(name) == Field(name, "plain", "", 1)

Shipped == [
    customer |-> <<Number("customer_id"), Plain("first_name"), Plain("last_name")>>,
    store |-> <<Number("store_id"), Plain("name"), Plain("city"), Plain("state"),
                Plain("country")>>,
    product |-> <<Number("product_id"), Plain("name"), Plain("category"), Plain("price")>>,
    order |-> <<Number("order_id"), Ref("customer_id", "customer_id"),
                Ref("store_id", "store_id"), Plain("order_date"), Plain("status")>>,
    order_item |-> <<Number("order_item_id"), Ref("order_id", "order_id"),
                     Ref("product_id", "product_id"), Number("quantity")>>,
    payment |-> <<Number("payment_id"), Ref("order_id", "order_id"),
                  Plain("payment_method"), Plain("amount")>>]

\* Two count the field that order refers to, and order_item another; visit has the
\* reference under another name; broken has a field of an unknown type.
Made == [
    signup |-> <<Plain("channel"), Sequence("customer_id")>>,
    walk_in |-> <<Sequence("customer_id")>>,
    visit |-> <<Ref("visitor", "customer_id"), Number("customer_id")>>,
    broken |-> <<Sequence("product_id"), Field("x", "raises", "", 1)>>]

MCPresent == DOMAIN Shipped \cup DOMAIN Made
MCTemplate == [n \in MCPresent |-> IF n \in DOMAIN Shipped THEN Shipped[n] ELSE Made[n]]
MCSorted == <<"broken", "customer", "order", "order_item", "payment", "product",
              "signup", "store", "visit", "walk_in">>

\* All of them, of which the first six posts are the shipped ones; references before
\* and after what they refer to; counters shared; a name without a template.
MCArguments == {<< >>, <<"order", "signup">>, <<"visit", "signup", "walk_in">>,
                <<"signup", "signup", "walk_in", "order">>, <<"walk_in", "broken">>,
                <<"customer", "missing">>}

\* What one of the theorems about references takes for granted of the templates.
ASSUME MCTemplatesAssumption == RefersToOthers
=============================================================================
