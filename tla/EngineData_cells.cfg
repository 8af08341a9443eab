SPECIFICATION Spec
CONSTANTS
    None = None
    c1 = c1
    c2 = c2
    Cells = {c1, c2}
    Gauges <- MCGauges
    MAX_CHART_DATAPOINTS = 2
    MaxMessages = 4
INVARIANTS
    TypeOK
    LabelIsLatest
    ChartFollows
SYMMETRY CellSymmetry
CHECK_DEADLOCK FALSE
