CONSTANTS
    v1 = v1  v2 = v2  v3 = v3
    Vertices = {v1, v2, v3}
    Expired = Expired
    SizeModulus = 16
    Calls = {c1, c2}
    HasTask = {v1, v2}
    Runner = Runner
    Killer = Killer
    NoTask = NoTask
SPECIFICATION ProcessSpec
INVARIANTS SortExact BatchesExact TakenInOrder
PROPERTIES ProcessDagReturns
CHECK_DEADLOCK FALSE
