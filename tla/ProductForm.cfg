\* Two barcodes, the page's mutations and a till's.
CONSTANTS
    eight = eight  nine = nine
    Barcode = {eight, nine}
    NoBarcode = NoBarcode
    NoName = NoName
    TypedName = TypedName
    Opening <- MCOpening
    Shape <- MCShape
    MaxProducts = 3
    MaxMoves = 7
SPECIFICATION Spec
INVARIANTS BarcodesDistinct CreatedOnce
PROPERTIES AutofillFits FormsFit
CHECK_DEADLOCK FALSE
