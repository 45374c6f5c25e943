SPECIFICATION Spec
CONSTANTS
    ci = ci  cli = cli
    f1 = f1  f2 = f2
    k1 = k1  k2 = k2
    Publishers = {ci, cli}
    Roles = {"a"}
    Files = {f1}
    SnapshotKeys = {k1, k2}
    MaxVersion = 3
    MaxOnline = 2
    MaxCommits = 2
    MaxRoot = 1
    NoTimestamp = NoTimestamp
    NoRelease = NoRelease
    Before <- NameBefore
SYMMETRY TwoPublishers
INVARIANTS
    TypeOK
    PublishedComplete
PROPERTIES
    PublishedObjectsStay
