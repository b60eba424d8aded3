\* Two tabs, an owner and cashiers who share a browser.
CONSTANTS
    t1 = t1  t2 = t2
    ani = ani  budi = budi  citra = citra  dewi = dewi
    Tab = {t1, t2}
    Owner = {ani, budi}
    Cashier = {citra, dewi}
    NoOne = NoOne
    Opening <- MCOpening
    Settled = {budi}
    MaxTokens = 3
    MaxMoves = 4
SPECIFICATION FairSpec
INVARIANTS TypeOK TillNeverSendsBare
PROPERTIES OwnerActsAsShown TillActsAsShown GateIsAnswered CashierGateSettles
CHECK_DEADLOCK FALSE
