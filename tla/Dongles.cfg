SPECIFICATION FairSpec
CONSTANTS
    Nodes = {n1, n2}
    NoNode = NoNode
    Dongles = {d1}
    Tasks = {t1, t2}
    NoTask = NoTask
    Idle = Idle
    Serviced = {n1}
INVARIANTS OneTaskPerNode EnginesAlive SessionsTidy
PROPERTY Served
CHECK_DEADLOCK FALSE
