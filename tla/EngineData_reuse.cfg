SPECIFICATION Spec
CONSTANTS
    None = None
    c1 = c1
    c2 = c2
    Cells = {c1, c2}
    Gauges <- MCSomeGauges
    MAX_CHART_DATAPOINTS = 2
    MaxMessages = 2
INVARIANT
    ChartsAreLive
SYMMETRY CellSymmetry
CHECK_DEADLOCK FALSE
