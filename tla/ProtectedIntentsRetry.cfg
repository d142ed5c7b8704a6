CONSTANTS
    i1 = i1  i2 = i2  t1 = t1  t2 = t2  h1 = h1  h2 = h2
    Intents = {i1}
    Txids = {t1}
    Handlers = {h1, h2}
    Lifetime = 2
    Drift = 1
    MaxTime = 3
    MaxTip = 2
    MaxFaults = 1
SPECIFICATION Spec
SYMMETRY Symmetry
PROPERTIES
    TxidKept
