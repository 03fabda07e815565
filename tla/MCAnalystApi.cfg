\* Two users for one environment to confuse, two versions of the token.
CONSTANTS
    Environment = {x1}
    User = {u1, u2}
    NoUser = NoUser
    AuthEnvironment = {y1}
    MaxVersion = 2
SPECIFICATION ApiSpec
INVARIANTS ApiTypeOK AnsweredAsAsker ShownAsEntered
PROPERTIES EveryRequestAnswered PromptReturns DeadStaysDead RotationTakesEffect
