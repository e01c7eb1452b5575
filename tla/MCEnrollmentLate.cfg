SPECIFICATION Spec
CONSTANTS
    Host = {h1, h2}
    Token = {k1, k2}
    NoToken = NoToken
    Id = {i1, i2, i3, i4}
    NoId = NoId
    MaxFaults = 2
SYMMETRY Symmetry
INVARIANT StoredIsAccepted
