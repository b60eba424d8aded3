\* Two workers, three requests, every kind of request.
CONSTANTS
    w1 = w1  w2 = w2  w3 = w3
    shop = shop  coffee = coffee  sugar = sugar  alien = alien
    mine = mine  other = other
    Worker = {w1, w2}
    Store = {shop}
    Product = {coffee, sugar, alien}
    Tenant = {mine, other}
    StoreTenant <- MCStoreTenant
    Catalogue <- MCCatalogue
    OpeningStock <- MCOpeningStock
    Request <- Everything
    MaxQty = 1000
    MaxMoney = 20
    MaxRequests = 3
    NoRow = NoRow  Absent = Absent  NoOne = NoOne  NoRequest = NoRequest
SPECIFICATION FairSpec
INVARIANTS TypeOK LedgerMatchesStock SaleRowsAreCurrent RowsStayWhole
PROPERTIES StockedTargetIsReached StepsRunOut StockIsSerial EveryRequestEnds
