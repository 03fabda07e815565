------------------------------- MODULE MCClicks ------------------------------
(* Small instances of Clicks for TLC: the type routing.yaml lists, and one  *)
(* click that does not cast.                                                *)
EXTENDS MCIngest, Clicks, TLC

MCClickType == <<<<"ecommerce", "_clicks">>>>
MCTypes == MCType @@ [bad |-> MCClickType]
=============================================================================
