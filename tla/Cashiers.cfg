\* Two tabs of the owner and a till send every kind of request at once.
CONSTANTS
    tab1 = tab1  tab2 = tab2  till1 = till1
    here = here  there = there  codeA = codeA  codeB = codeB
    pin1 = pin1  pin2 = pin2
    Owner = {tab1, tab2}
    Till = {till1}
    Store = {here, there}
    Code = {codeA, codeB}
    Pin = {pin1, pin2}
    CodeOf <- SharedCode
    Opening <- MCOpening
    OwnerRequest <- OwnerWork
    TillRequest <- TillWork
    MaxRequests = 4
    Absent = Absent  NoRow = NoRow  NoRequest = NoRequest
SPECIFICATION Spec
SYMMETRY Symmetry
INVARIANTS TypeOK OnlyOverlapUndoesAnswers SharedPinsWereUnchecked
PROPERTIES BarredNeverActs LoginFindsWhoFits
