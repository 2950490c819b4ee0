\* Two providers, two models, transactions of several events, two restarts.
CONSTANTS
    Nodes = {node1, node2}
    Hashes = {model1, model2}
    TaoTxs = {tao1, tao2}
    RenderTxs = {render1, render2}
    Values = {a, b}
    MaxEvents = 3
    MaxRestarts = 2
SPECIFICATION Spec
SYMMETRY Symmetry
INVARIANTS
    TypeOK
    ReferencesResolve
    ReplayConverges
CHECK_DEADLOCK FALSE
