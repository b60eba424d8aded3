\* One tab deactivates a cashier, gives the PIN to another and reactivates the first.
CONSTANTS
    tab1 = tab1  tab2 = tab2  till1 = till1
    here = here  there = there  codeA = codeA  codeB = codeB
    pin1 = pin1  pin2 = pin2
    Owner = {tab1}
    Till = {till1}
    Store = {here, there}
    Code = {codeA, codeB}
    Pin = {pin1, pin2}
    CodeOf <- SharedCode
    Opening <- OnlyAni
    OwnerRequest <- ReuseWork
    TillRequest <- Logins
    MaxRequests = 3
    Absent = Absent  NoRow = NoRow  NoRequest = NoRequest
SPECIFICATION Spec
INVARIANT ActivePinsDistinct
