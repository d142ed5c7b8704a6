CONSTANTS
    v1 = v1  v2 = v2  v3 = v3
    m1 = m1  n1 = n1  m2 = m2  m3 = m3
    p1 = p1  p2 = p2  p3 = p3
    Versions = {v1, v2}
    Manifests = {m1, n1, m2}
    Activators = {p1, p2}
    Version <- MCVersion
    MaxFaults = 0
    NoManifest = NoManifest
    NoVersion = NoVersion
SPECIFICATION Spec
INVARIANTS
    AnsweredIsStored
