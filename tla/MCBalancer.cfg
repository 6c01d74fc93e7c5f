\* Four goroutines over three pooled connections, with every load_balance
\* setting, one of them misspelt.
SPECIFICATION Spec
CONSTANTS
    Picker = {p1, p2, p3, p4}
    PoolSize = 3
    LoadBalance = {"least_conn", "random", "leastconn"}
    CounterRange = 8
SYMMETRY Symmetry
INVARIANTS
    TypeOK
    InflightExact
    QuietScanIsRight
