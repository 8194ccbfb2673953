SPECIFICATION Spec
CONSTANTS
    Publishers = {p1}
    Readers = {r1}
    NoOne = NoOne
    NoPointer = NoPointer
    Torn = Torn
    a = a
    b = b
    c = c
    Manifests <- ThreeManifests
    RuntimeOf <- TwoRuntimes
    MaxFaults = 1
    MaxLosses = 1
INVARIANTS
    SurvivorsAreDurable
