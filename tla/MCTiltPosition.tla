--------------------------- MODULE MCTiltPosition ---------------------------
\* TLC instance of TiltPosition: raw positions around the halves that Python
\* rounds to even, the ends of the range, and targets inside and outside it.
EXTENDS TiltPosition

Halves  == {0, 4, 5, 10, 15, 16, 25, 26, 990, 995, 1000}
Spread  == {0, 1, 2, 3, 50, 99, 100, 101}
Few     == {0, 4, 5, 15, 20}
FewTargets == {0, 1, 2}
=============================================================================
