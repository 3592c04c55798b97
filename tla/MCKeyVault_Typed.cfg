\* Two paths (one not writable), two passphrases, two ids: a path can be
\* created, damaged and created again, and loaded with either passphrase.
CONSTANTS
    Paths = {p1, p2}
    Writable = {p1}
    Passphrases = {w1, w2}
    Ids = {i1, i2}
    Absent = Absent
    NoId = NoId
SPECIFICATION Spec
INVARIANT
    TypedLoadErrors
