SPECIFICATION Spec
CONSTANTS
    alice = alice  bob = bob  kms = kms  kms2 = kms2
    p = p  q = q
    d1 = d1  d2 = d2
    e1 = e1  e2 = e2  e3 = e3
    Configs <- ExpiryConfigs
    FirstConfigs <- ExpiryFirst
    Events = {e1, e2}
    RefreshEvent = refresh
    Paths = {}
    Descs = {}
    LocalFiles = {}
    Directories = {}
    MaxTime = 1
SYMMETRY Symmetry
INVARIANT ExpiresDaysTakeEffect
