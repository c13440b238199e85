SPECIFICATION MCSpec
CONSTANTS
    Requests = {r1, r2, r3}
    Nonces = {n1}
    Tickets = {t1}
    IdTokens = {i1}
    Sessions = {s1}
    WithEmails = {}
    MaxActors = 2
    UniqueCreator = TRUE
    MaxFaults = 1
    LoginRequests = 2
    NoLink = NoLink
SYMMETRY Symmetry
INVARIANTS
    
    OneActorPerPerson
    LinkStillWorks
CHECK_DEADLOCK FALSE
