----------------------- MODULE MCSpecificationService -----------------------
\* Two requests, two specifications and two names, one characteristic: see
\* specification.cfg.
EXTENDS SpecificationService

CONSTANTS r1, r2, s1, s2, n1, n2, c1
=============================================================================
