\* Three workers whose transactions wait for each other in every way.
CONSTANTS
    w1 = w1  w2 = w2  w3 = w3
    shop = shop  coffee = coffee  sugar = sugar  alien = alien
    mine = mine  other = other
    Worker = {w1, w2, w3}
    Store = {shop}
    Product = {coffee, sugar, alien}
    Tenant = {mine, other}
    StoreTenant <- MCStoreTenant
    Catalogue <- MCCatalogue
    OpeningStock <- MCOpeningStock
    Request <- Meeting
    MaxQty = 1000
    MaxMoney = 20
    MaxRequests = 4
    NoRow = NoRow  Absent = Absent  NoOne = NoOne  NoRequest = NoRequest
SPECIFICATION Spec
SYMMETRY Symmetry
INVARIANTS NoDeadlockAmongSales SomeoneGoesOn
