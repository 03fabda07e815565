\* Valid requests and redelivery, to the raw tables and the click table.  The table
\* of order is there too, whose name begins that of order_item.
CONSTANTS
    SnowflakeTypes <- MCSnowflakeTypes
    ClickType <- MCClickType
    Malformed = {"bad"}
    Entity <- MCEntity
    Msg = {"click", "bad", "item", "ping"}
    Type <- MCTypes
    SentForms = {"valid"}
    Environment = {x1}
    MaxVersion = 1
    MaxRequests = 2
    MaxCopies = 2
SPECIFICATION ClicksSpec
INVARIANTS TypeOK RightPlace EveryCopyInOnePlace LoadedOnce
PROPERTIES AcceptedArrives AcceptedClickShows
