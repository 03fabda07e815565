----------------------------- MODULE MCRollout -------------------------------
(***************************************************************************)
(* A steward, a CRM analyst of level 1, a user of one customer, and one    *)
(* whose entitlement is of level 0.                                        *)
(***************************************************************************)
EXTENDS Rollout

MCSeedOrder == <<"u1", "u2", "u3", "u4">>

MCEntitlement ==
    [u \in {"u1", "u2", "u3", "u4"} |->
        CASE u = "u1" -> {[level |-> 2, object |-> "*"]}
          [] u = "u2" -> {[level |-> 1, object |-> "*"]}
          [] u = "u3" -> {[level |-> 2, object |-> "c1"]}
          [] u = "u4" -> {[level |-> 0, object |-> "*"]}]
=============================================================================
