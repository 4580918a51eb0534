SPECIFICATION FairSpec
CONSTANTS Request = {q1, q2} Several = 1
INVARIANTS LedgerIsTrue MoneyIsAnnounced FailuresAreRecorded
PROPERTIES ChargeIsRecorded LedgerKeepsItsPromise
