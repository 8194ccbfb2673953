SPECIFICATION Spec
CONSTANTS
    Publishers = {p1, p2}
    Readers = {r1}
    NoOne = NoOne
    NoPointer = NoPointer
    Torn = Torn
    a = a
    b = b
    c = c
    Manifests <- ThreeManifests
    RuntimeOf <- TwoRuntimes
    MaxFaults = 2
    MaxLosses = 1
INVARIANTS
    DurableUnlessAdopted
PROPERTIES
    CodesAreTrue
    OpenedIsCurrent
SYMMETRY Symmetry
