CONSTANTS
    a1 = a1  b1 = b1  a2 = a2
    i1 = i1  i2 = i2  s1 = s1  s2 = s2
    Blocks = {a1, b1, a2}
    Deliveries <- AllDeliveries
    Ingesters = {i1, i2}
    Savers = {s1, s2}
    Pipelined = FALSE
    MaxFaults = 1
    Height <- MCHeight
    Key <- MCKey
    Sha <- MCSha
    Rollback <- MCRollback
    Apply <- MCApply
    Before <- MCBefore
    NoBlock = NoBlock
    NoDelivery = NoDelivery
    NoSha = NoSha
    Untouched = Untouched
SPECIFICATION Spec
SYMMETRY Symmetry
INVARIANTS
    OneCanonicalPerHeight
    SnapshotsCanonical
    RowsCanonical
    AcknowledgedIsRecorded
PROPERTIES
    InvalidationIsFinal
    ImplementsLedger
