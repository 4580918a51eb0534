SPECIFICATION FairSpec
CONSTANTS
    MaxMessages = 4
    AtOnce = 1
    Type = {"pickup"}
    Vocabulary = {"pending", "accept", "transaction", "transaction_completed"}
CHECK_DEADLOCK FALSE
PROPERTY
    PaidItemIsSoldInTheEnd
