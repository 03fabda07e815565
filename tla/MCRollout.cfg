\* Four users of different entitlements, two customers, and two failures anywhere.
CONSTANTS
    Seed = {"u1", "u2", "u3", "u4"}
    SeedOrder <- MCSeedOrder
    MaxFailures = 2
    Customer = {"c1", "c2"}
    Entitlement <- MCEntitlement
SPECIFICATION RolloutSpec
INVARIANTS RolloutTypeOK EntitledOnce PoliciesNotReplacedInUse RowsNeedEntitlement ShowsAsDocumented
PROPERTIES ConnectionKept ComesUp
