\* Three payments over a connection that fails, and an edit of the catalogue.
CONSTANTS
    shop = shop  soap = soap  rice = rice  mine = mine
    Store = {shop}
    Product = {soap, rice}
    Tenant = {mine}
    StoreTenant <- MCStoreTenant
    Shop = shop
    Catalogue <- MCCatalogue
    Version <- MCVersion
    DriftsAt <- MCDriftsAt
    RoundsDown <- MCRoundsDown
    Typed <- MCTyped
    Cash <- MCCash
    Amounts <- MCAmounts
    MaxMoney = 1000
    MaxQty = 599
    MaxLineQty = 200
    MaxPresses = 3
    MaxEdits = 1
    MaxTaps = 6
SPECIFICATION Spec
INVARIANTS CartsAreCoherent DialogIsLastPayment AnsweredBasketSoldOnce
PROPERTIES TillSalesAreAccepted TotalsAgree
