\* Two subscriptions of one account, batches of two requests.
CONSTANTS
    a1 = a1
    bad = bad
    Accounts = {a1}
    BadAccount = bad
    Interval = 2
    MaxSubs = 2
    MaxMessage = 2
SPECIFICATION LegacyFairSpec
INVARIANTS
    NoLostWakeup
PROPERTIES
    NoEarlyFire
    QuietIsNotified
CHECK_DEADLOCK FALSE
