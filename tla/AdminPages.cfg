\* Two codes and two PINs: one in use, one free.
CONSTANTS
    Code = {c1, c2}
    Pin = {p1, p2}
    NoKey = NoKey
    Shown = 1
    MaxRows = 3
    MaxMoves = 5
SYMMETRY Symmetry
SPECIFICATION Spec
INVARIANT TablesAreSound
PROPERTIES ReturnsOnlyByOverlap ClosesWhenSaved FormsFit
CHECK_DEADLOCK FALSE
