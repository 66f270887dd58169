SPECIFICATION Spec
CONSTANTS
    Shades = {s1, s2}
    Keys = {k1}
    Names = {n1}
    Malformed = Malformed
INVARIANT TimeoutIsReported
