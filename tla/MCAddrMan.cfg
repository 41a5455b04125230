SPECIFICATION Spec
CONSTANTS
    a1 = a1  a2 = a2  a3 = a3  s1 = s1  s2 = s2
    NoFile = NoFile
    Addr = {a1, a2, a3}
    Source = {s1, s2}
    NewBuckets = 2
    TriedBuckets = 1
    BucketSize = 2
    MaxRefs = 2
    NewBucket <- MCNewBucket
    NewPos <- MCNewPos
    TriedBucket <- MCTriedBucket
    TriedPos <- MCTriedPos
    MaxIds = 3
INVARIANTS
    TablesConsistent
    ReloadExact
PROPERTIES
    TriedNotLost
