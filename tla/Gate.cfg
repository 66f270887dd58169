SPECIFICATION Spec
CONSTANTS
    Shades = {s1, s2}
    Keys = {k1, k2}
    Names = {n1, n2}
    Malformed = Malformed
INVARIANTS
    TypeOK
    PassIsHonest
    NoMatchIsExplained
