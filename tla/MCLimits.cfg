CONSTANTS
    Defaults <- MCDefaults
    MaxTimer = 3
    MaxSafe = 4
    NotInteger = NotInteger
    NoTimeout = NoTimeout
    Values = {0, 1, 3, 4, 5, NotInteger}
    Options <- MCPartial
    Overrides <- MCPartial
    CommandSizes = {1, 4}
SPECIFICATION Spec
CHECK_DEADLOCK FALSE
INVARIANTS
    TypeOK
    GuardsStayOn
    OnlyOverrideRaises
