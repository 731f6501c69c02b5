SPECIFICATION Spec
CONSTANTS
    a = a
    b = b
    c = c
    i = i
    t1 = t1
    t2 = t2
    personal = personal
    institutional = institutional
    Nodes = {a, b, c, i}
    Scopes = {personal, institutional}
    ScopeOf <- MCScopeOf
    EdgeTypes = {"prerequisite", "supports-competency"}
    OrderingTypes = {"prerequisite"}
    Txns = {t1, t2}
    NoTxn = NoTxn
    MaxEdges = 3
SYMMETRY Symmetry
INVARIANTS
    TypeOK
    ScopeAcyclic
    NoDanglingEdge
PROPERTY
    RefinesAuthoredGraph
