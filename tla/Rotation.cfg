SPECIFICATION Spec
CONSTANTS
    ci = ci  cli = cli
    f1 = f1  f2 = f2
    k1 = k1  k2 = k2
    Publishers = {ci}
    Roles = {"a"}
    Files = {}
    SnapshotKeys = {k1, k2}
    MaxVersion = 2
    MaxOnline = 3
    MaxCommits = 3
    MaxRoot = 3
    NoTimestamp = NoTimestamp
    NoRelease = NoRelease
    Before <- NameBefore
SYMMETRY Symmetry
INVARIANTS
    PublishedComplete
    MainCanBePublished
PROPERTIES
    TimestampGoesForward
    PublishedSnapshotKeepsRoles
