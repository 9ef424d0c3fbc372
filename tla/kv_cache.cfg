SPECIFICATION Spec
CONSTANTS
  q1 = q1  q2 = q2
  Seqs = {q1, q2}  MaxPos = 2  Window = 1  Guard = 1  IndexOn = TRUE
  SelfSize = 2  SwaSizes = {0, 2}  MaxUbatch = 2  Divisors = {2}
SYMMETRY Symmetry
INVARIANTS TypeOK UsedIsCount IndexExact RemovalsAgree
