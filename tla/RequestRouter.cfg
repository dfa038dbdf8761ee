CONSTANTS
    Request = {q1, q2}
    Operation = {o1, o2}
    MaxReceipts = 1
    PluginQueue = 1
    MaxConns = 2
SYMMETRY RequestSymmetry
SPECIFICATION RouterSpec
INVARIANT LateAnswersAudited
PROPERTY KeepsContract
CHECK_DEADLOCK FALSE
