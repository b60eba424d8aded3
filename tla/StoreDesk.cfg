\* One store with two products.
CONSTANTS
    soap = soap  rice = rice
    Product = {soap, rice}
    SoldByWeight = {rice}
    Price <- MCPrice
    NoProduct = NoProduct
    Basket <- MCBasket
    MaxQty = 1990
    TopSize = 1
    Shows = {"stok", "penerimaan", "laporan", "riwayat"}
    Typed = {1005}
    Counted = {500, 2000}
    QuickAmount = {7}
    MaxLog = 2
    MaxPresses = 2
    MaxMoves = 4
SPECIFICATION Spec
INVARIANTS ReadsOwnWrites DraftReceivedOnce FormsFit ReportsAgree
CHECK_DEADLOCK FALSE
