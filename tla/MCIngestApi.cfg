\* Requests of every form, a click and an order item, around a token rotation.
CONSTANTS
    SnowflakeTypes <- MCSnowflakeTypes
    Entity <- MCEntity
    Msg = {"click", "item"}
    Type <- MCType
    SentForms <- Form
    Environment = {x1, x2}
    MaxVersion = 2
    MaxRequests = 2
    MaxCopies = 2
SPECIFICATION Spec
INVARIANTS AnswersAreTrue OnlyValidStored DeadTokenPublishesNothing
