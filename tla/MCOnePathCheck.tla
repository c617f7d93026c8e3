--------------------------- MODULE MCOnePathCheck ---------------------------
(* OnePathCheck on small words, with R = 0.7 in exact arithmetic.          *)
EXTENDS OnePathCheck
ExactThres(min, max) == Wrap(min + (7 * Wrap(max - min)) \div 10)
=============================================================================
