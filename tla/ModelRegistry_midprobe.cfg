SPECIFICATION Spec
CONSTANTS
    i1 = i1  i2 = i2  e1 = e1  e2 = e2  k1 = k1  k2 = k2  s1 = s1  s2 = s2  m1 = m1
    Model = {m1}
    Space = {s1, s2}
    Tx = {t1, t2, t3}
    None = None
    Identity = {i1, i2}
    Endpoint = {e1, e2}
    Key = {k1, k2}
    Ops = {"update", "validate"}
    MaxOps = 2
    Seed <- MCSeed
SYMMETRY Permute
INVARIANTS StampedWasProbed
