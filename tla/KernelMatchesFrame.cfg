SPECIFICATION Spec
CONSTANTS
    ExactKeys = {e1, e2}
    WildcardKeys = {w1, w2}
    Decisions = {allow, deny}
    DummyIps = {d1, d2}
    Fingerprints = {f1}
    ExactCapacity = 2
    WildcardCapacity = 2
    DummyIpCapacity = 2
    LocalCapacity = 1
    MaxVersion = 2
INVARIANT KernelMatchesFrame
