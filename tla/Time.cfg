SPECIFICATION Spec
CONSTANTS
    alice = alice  bob = bob  kms = kms  kms2 = kms2
    p = p  q = q
    d1 = d1  d2 = d2
    e1 = e1  e2 = e2  e3 = e3
    Configs <- TimeConfigs
    FirstConfigs <- TimeFirst
    Events = {e1, e2}
    RefreshEvent = refresh
    Paths = {p, q}
    Descs = {d1}
    LocalFiles = {}
    Directories = {}
    MaxTime = 3
SYMMETRY Symmetry
INVARIANTS
    CiLeavesMainPublishable
    OnlineUpdateIsIdempotent
PROPERTIES
    RefreshRenewsAllThatIsDue
