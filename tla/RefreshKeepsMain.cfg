SPECIFICATION CiSpec
CONSTANTS
    alice = alice  bob = bob  kms = kms  kms2 = kms2
    p = p  q = q
    d1 = d1  d2 = d2
    e1 = e1  e2 = e2  e3 = e3
    Configs <- CiConfigs
    FirstConfigs <- CiConfigs
    Events = {e1}
    RefreshEvent = refresh
    Paths = {p}
    Descs = {d1}
    LocalFiles = {}
    Directories = {}
    MaxTime = 2
INVARIANT RefreshKeepsMain
