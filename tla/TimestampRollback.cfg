SPECIFICATION Spec
CONSTANTS
    ci = ci  cli = cli
    f1 = f1  f2 = f2
    k1 = k1  k2 = k2
    Publishers = {ci, cli}
    Roles = {}
    Files = {}
    SnapshotKeys = {k1, k2}
    MaxVersion = 1
    MaxOnline = 2
    MaxCommits = 2
    MaxRoot = 1
    NoTimestamp = NoTimestamp
    NoRelease = NoRelease
    Before <- NameBefore
SYMMETRY TwoPublishers
PROPERTIES
    TimestampGoesForward
