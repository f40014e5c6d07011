SPECIFICATION Spec
CONSTANTS
    ExactKeys = {e1, e2}
    WildcardKeys = {w1, w2}
    Decisions = {allow}
    DummyIps = {d1, d2}
    Fingerprints = {f1}
    ExactCapacity = 2
    WildcardCapacity = 1
    DummyIpCapacity = 1
    LocalCapacity = 1
    MaxVersion = 2
INVARIANTS
    TypeOK
    MirrorIsApplied
    FailureContained
    NoGap
    EnforcedMeansApplied
PROPERTY OnlyDifferences
