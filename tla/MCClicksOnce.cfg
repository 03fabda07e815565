\* One click, delivered at least once.
CONSTANTS
    SnowflakeTypes <- MCSnowflakeTypes
    ClickType <- MCClickType
    Malformed = {}
    Entity <- MCEntity
    Msg = {"click"}
    Type <- MCTypes
    SentForms = {"valid"}
    Environment = {x1}
    MaxVersion = 1
    MaxRequests = 1
    MaxCopies = 2
SPECIFICATION ClicksSpec
INVARIANTS OneRowPerClick
