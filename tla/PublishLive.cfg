SPECIFICATION LiveSpec
CONSTANTS
    ci = ci  cli = cli
    f1 = f1  f2 = f2
    k1 = k1  k2 = k2
    Publishers = {ci, cli}
    CI = ci
    Roles = {}
    Files = {f1}
    SnapshotKeys = {k1}
    MaxVersion = 2
    MaxOnline = 2
    MaxCommits = 2
    MaxRoot = 1
    NoTimestamp = NoTimestamp
    NoRelease = NoRelease
    Before <- NameBefore
PROPERTIES
    MainGetsPublished
