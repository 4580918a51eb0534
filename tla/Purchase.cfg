SPECIFICATION Spec
CONSTANTS
    MaxMessages = 3
    AtOnce = 2
    Type = {"pickup", "delivery"}
    Vocabulary = {"pending", "accept", "cancel", "given", "received", "failed", "reject"}
CHECK_DEADLOCK FALSE
INVARIANTS
    IntentsStayInTheirThread
    MoneyFollowsTheConversation
    PaidItemIsSold
PROPERTY
    StatusKeepsItsOrder
