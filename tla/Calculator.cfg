\* Three number keys and the four operators.
CONSTANTS
    Key <- MCKey
    MaxLen = 6
SPECIFICATION Spec
INVARIANTS AmountIsMeant TypedIsExpression
CHECK_DEADLOCK FALSE
