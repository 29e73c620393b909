SPECIFICATION FairSpec
CONSTANTS
    Events = {"e1"}
    Recipients = {"r1"}
    Mails <- MCMails
    Consumers = {"c1"}
    Posts = {"p1"}
    Limit = 1
    MaxPosts = 1
    MaxLosses = 1
INVARIANTS
    OneMailPerKey
    LogIsTrue
    EventIsLogged
    WithinLimit
PROPERTIES
    MessageIsSettled
CHECK_DEADLOCK FALSE
