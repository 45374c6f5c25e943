SPECIFICATION Spec
CONSTANTS
    alice = alice  bob = bob  kms = kms  kms2 = kms2
    p = p  q = q
    d1 = d1  d2 = d2
    e1 = e1  e2 = e2  e3 = e3
    Configs <- KeyConfigs
    FirstConfigs <- KeysFirst
    Events = {e1, e2, e3}
    RefreshEvent = refresh
    Paths = {p, q}
    Descs = {d1}
    LocalFiles <- OneFile
    Directories = {{}}
    MaxTime = 0
SYMMETRY Symmetry
INVARIANTS
    MainSigned
    MainRootChain
    CiLeavesMainPublishable
    OnlineUpdateIsIdempotent
PROPERTIES
    RotationStartsOver
    ImplementsRelease
